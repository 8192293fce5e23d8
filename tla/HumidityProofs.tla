--------------------------- MODULE HumidityProofs ---------------------------
(***************************************************************************)
(* The loss of the humidity sensor is noticed, the heater is never on      *)
(* without the task's knowing, and numbers keep their width, for all        *)
(* limits and bounds.                                                      *)
(***************************************************************************)
EXTENDS Humidity, TLAPS

(* What the counter of the passes without an answer says.  While the sensor *)
(* is taken for there it is the number of those passes, and below the limit *)
(* of the search whenever the search goes on; a display that shows the      *)
(* sensor as working takes it for there.                                   *)
CounterInv ==
  /\ ctr \in Nat /\ missed \in 0 .. MaxFailed /\ display_state \in Nat
  /\ display_state < PIC_WAITING_END
  /\ display_state = PIC_NORMAL => hum_exists
  /\ hum_exists => ctr = missed /\ ctr < MaxFailed
  /\ hum_exists /\ display_state # PIC_NORMAL => ctr < MaxSilent

LEMMA CounterInit == Init => CounterInv
BY HumidityAssumption DEF Init, CounterInv, PIC_INITIAL, PIC_NORMAL, PIC_WAITING_END, HumidityAssumption

(* A pass without an answer: both branches count, and each has its limit.   *)
LEMMA CounterSearch == CounterInv /\ Search => CounterInv'
<1> SUFFICES ASSUME CounterInv, Search PROVE CounterInv'
  OBVIOUS
<1> USE HumidityAssumption DEF HumidityAssumption, CounterInv, PIC_NORMAL, PIC_ON_TO_OFF,
        PIC_OFF_TO_ON, PIC_WAIT_OFF_TO_ON, PIC_WAITING_END
<1>1. display_state # PIC_NORMAL
  BY DEF Search
<1>2. CASE /\ hum_exists' = TRUE /\ ctr' = 0 /\ missed' = 0
           /\ display_state' = IF display_state = PIC_WAIT_OFF_TO_ON THEN PIC_OFF_TO_ON
                               ELSE display_state
  BY <1>1, <1>2
<1>3. CASE /\ Missed
           /\ ctr' = IF ctr <= MaxSilent THEN ctr + 1 ELSE ctr
           /\ IF ctr' = MaxSilent
              THEN display_state' = PIC_ON_TO_OFF /\ hum_exists' = FALSE
              ELSE UNCHANGED <<display_state, hum_exists>>
  BY <1>1, <1>3 DEF Missed
<1> QED
  BY <1>2, <1>3 DEF Search

LEMMA CounterRead == CounterInv /\ Read => CounterInv'
<1> SUFFICES ASSUME CounterInv, Read PROVE CounterInv'
  OBVIOUS
<1> USE HumidityAssumption DEF HumidityAssumption, CounterInv, PIC_NORMAL, PIC_ON_TO_OFF, PIC_WAITING_END
<1>1. display_state = PIC_NORMAL
  BY DEF Read
<1>2. CASE ctr' = 0 /\ missed' = 0 /\ UNCHANGED <<display_state, hum_exists>>
  BY <1>1, <1>2
<1>3. CASE /\ Missed
           /\ ctr' = IF ctr <= MaxFailed THEN ctr + 1 ELSE ctr
           /\ IF ctr' = MaxFailed
              THEN display_state' = PIC_ON_TO_OFF /\ hum_exists' = FALSE
              ELSE UNCHANGED <<display_state, hum_exists>>
  <2>1. hum_exists /\ ctr = missed /\ ctr < MaxFailed
    BY <1>1
  <2>2. ctr' = ctr + 1 /\ missed' = ctr + 1
    BY <1>3, <2>1 DEF Missed
  <2>3. CASE ctr + 1 = MaxFailed
    <3>1. display_state' = PIC_ON_TO_OFF /\ hum_exists' = FALSE
      BY <1>3, <2>2, <2>3
    <3> QED
      BY <2>1, <2>2, <3>1
  <2>4. CASE ctr + 1 # MaxFailed
    <3>1. display_state' = display_state /\ hum_exists' = hum_exists
      BY <1>3, <2>2, <2>4
    <3> QED
      BY <1>1, <2>1, <2>2, <2>4, <3>1
  <2> QED
    BY <2>3, <2>4
<1> QED
  BY <1>2, <1>3 DEF Read

(* The display only comes to show the sensor as working while it is taken   *)
(* for there, with a counter below the limit of the search.                *)
LEMMA CounterUpdate == CounterInv /\ Update => CounterInv'
<1> SUFFICES ASSUME CounterInv, Update PROVE CounterInv'
  OBVIOUS
<1> USE HumidityAssumption DEF HumidityAssumption, CounterInv, PIC_NORMAL, PIC_ON_TO_OFF,
        PIC_WAIT_OFF_TO_ON, PIC_INITIAL, PIC_WAITING1, PIC_WAITING_END
<1>1. UNCHANGED <<hum_exists, ctr, missed>>
  BY DEF Update
<1>2. display_state' = IF Advance(display_state) = PIC_WAITING_END THEN PIC_NORMAL
                       ELSE Advance(display_state)
  BY DEF Update
<1>3. CASE display_state = PIC_NORMAL
  BY <1>1, <1>2, <1>3 DEF Advance
<1>4. CASE display_state # PIC_NORMAL
  <2>1. CASE hum_exists
    <3>1. ctr < MaxSilent /\ ctr = missed /\ display_state' \in Nat
          /\ display_state' < PIC_WAITING_END
      BY <1>2, <1>4, <2>1 DEF Advance
    <3> QED
      BY <1>1, <2>1, <3>1
  <2>2. CASE ~hum_exists
    <3>1. Advance(display_state) \in Nat /\ Advance(display_state) < PIC_WAITING_END
          /\ Advance(display_state) # PIC_NORMAL
      BY <1>4, <2>2 DEF Advance
    <3> QED
      BY <1>1, <1>2, <2>2, <3>1
  <2> QED
    BY <2>1, <2>2
<1> QED
  BY <1>3, <1>4

LEMMA CounterBoot == CounterInv /\ Boot => CounterInv'
BY HumidityAssumption DEF Boot, CounterInv, PIC_INITIAL, PIC_NORMAL, PIC_WAITING_END, HumidityAssumption

LEMMA CounterKept == CounterInv /\ UNCHANGED presence => CounterInv'
BY DEF CounterInv, presence

LEMMA CounterStep == CounterInv /\ [Next]_vars => CounterInv'
<1> SUFFICES ASSUME CounterInv, [Next]_vars PROVE CounterInv'
  OBVIOUS
<1>1. CASE Search
  BY <1>1, CounterSearch
<1>2. CASE Read
  BY <1>2, CounterRead
<1>3. CASE Update
  BY <1>3, CounterUpdate
<1>4. CASE SoftReset \/ Restart
  BY <1>4, CounterBoot DEF SoftReset, Restart
<1>5. CASE Operation
  <2>1. UNCHANGED presence
    BY <1>5 DEF Operation, NoOperation, OperateTemp, TempTaken, OperateHum, SaveLo, SaveHi,
         HumTaken, OperateHeat, HeatTaken, OnlyTask
  <2> QED
    BY <2>1, CounterKept
<1>6. CASE Refresh \/ AutoHeat \/ Swap
  <2>1. UNCHANGED presence
    BY <1>6 DEF Refresh, AutoHeat, Swap
  <2> QED
    BY <2>1, CounterKept
<1>7. CASE \E w \in Clients : Call(w) \/ Step(w)
  <2>1. UNCHANGED presence
    BY <1>7 DEF Call, Step
  <2> QED
    BY <2>1, CounterKept
<1>8. CASE UNCHANGED vars
  <2>1. UNCHANGED presence
    BY <1>8 DEF vars
  <2> QED
    BY <2>1, CounterKept
<1> QED
  BY <1>1, <1>2, <1>3, <1>4, <1>5, <1>6, <1>7, <1>8 DEF Next, Task

(* A sensor that did not answer in MaxFailed passes, of whatever states of  *)
(* the display, is neither shown as working nor taken for there.           *)
THEOREM LossIsNoticed == Spec => []Noticed
<1>1. Init => CounterInv
  BY CounterInit
<1>2. CounterInv /\ [Next]_vars => CounterInv'
  BY CounterStep
<1>3. CounterInv => Noticed
  BY HumidityAssumption DEF CounterInv, Noticed, HumidityAssumption
<1> QED
  BY <1>1, <1>2, <1>3, PTL DEF Spec

(* Every pass that tests the sensor is an answer or a miss of the watch, a  *)
(* start forgets everything, and no other step touches what it promises.    *)
LEMMA WatchSearch == CounterInv /\ Search => Watch!Answer \/ Watch!Miss
<1> SUFFICES ASSUME CounterInv, Search PROVE Watch!Answer \/ Watch!Miss
  OBVIOUS
<1> USE HumidityAssumption DEF HumidityAssumption, CounterInv, PIC_NORMAL, PIC_ON_TO_OFF,
        PIC_OFF_TO_ON, PIC_WAIT_OFF_TO_ON, PIC_WAITING_END
<1>1. display_state # PIC_NORMAL
  BY DEF Search
<1>2. CASE hum_exists' = TRUE /\ missed' = 0
  BY <1>2 DEF Watch!Answer
<1>3. CASE /\ Missed
           /\ ctr' = IF ctr <= MaxSilent THEN ctr + 1 ELSE ctr
           /\ IF ctr' = MaxSilent
              THEN display_state' = PIC_ON_TO_OFF /\ hum_exists' = FALSE
              ELSE UNCHANGED <<display_state, hum_exists>>
  <2>1. missed' = IF missed < MaxFailed THEN missed + 1 ELSE missed
    BY <1>3 DEF Missed
  <2>2. CASE ctr' = MaxSilent
    <3>1. display_state' # PIC_NORMAL /\ ~hum_exists'
      BY <1>3, <2>2
    <3>2. hum_exists => missed' >= MaxSilent
      BY <1>3, <2>1, <2>2
    <3> QED
      BY <1>1, <2>1, <3>1, <3>2 DEF Watch!Miss
  <2>3. CASE ctr' # MaxSilent
    <3>1. UNCHANGED <<display_state, hum_exists>>
      BY <1>3, <2>3
    <3>2. hum_exists => missed' # MaxFailed
      BY <1>1, <1>3, <2>1, <2>3
    <3> QED
      BY <1>1, <2>1, <3>1, <3>2 DEF Watch!Miss
  <2> QED
    BY <2>2, <2>3
<1> QED
  BY <1>2, <1>3 DEF Search

LEMMA WatchRead == CounterInv /\ Read => Watch!Answer \/ Watch!Miss
<1> SUFFICES ASSUME CounterInv, Read PROVE Watch!Answer \/ Watch!Miss
  OBVIOUS
<1> USE HumidityAssumption DEF HumidityAssumption, CounterInv, PIC_NORMAL, PIC_ON_TO_OFF, PIC_WAITING_END
<1>1. display_state = PIC_NORMAL /\ hum_exists /\ ctr = missed /\ ctr < MaxFailed
  BY DEF Read
<1>2. CASE missed' = 0 /\ UNCHANGED <<display_state, hum_exists>>
  BY <1>1, <1>2 DEF Watch!Answer
<1>3. CASE /\ Missed
           /\ ctr' = IF ctr <= MaxFailed THEN ctr + 1 ELSE ctr
           /\ IF ctr' = MaxFailed
              THEN display_state' = PIC_ON_TO_OFF /\ hum_exists' = FALSE
              ELSE UNCHANGED <<display_state, hum_exists>>
  <2>1. ctr' = ctr + 1 /\ missed' = ctr + 1
    BY <1>1, <1>3 DEF Missed
  <2>2. CASE ctr + 1 = MaxFailed
    <3>1. display_state' # PIC_NORMAL /\ ~hum_exists'
      BY <1>3, <2>1, <2>2
    <3> QED
      BY <1>1, <2>1, <2>2, <3>1 DEF Watch!Miss
  <2>3. CASE ctr + 1 # MaxFailed
    <3>1. UNCHANGED <<display_state, hum_exists>>
      BY <1>3, <2>1, <2>3
    <3> QED
      BY <1>1, <2>1, <2>3, <3>1 DEF Watch!Miss
  <2> QED
    BY <2>2, <2>3
<1> QED
  BY <1>2, <1>3 DEF Read

LEMMA WatchUpdate == CounterInv /\ Update => UNCHANGED Watch!vars
<1> SUFFICES ASSUME CounterInv, Update PROVE UNCHANGED Watch!vars
  OBVIOUS
<1> USE DEF CounterInv, PIC_NORMAL, PIC_ON_TO_OFF, PIC_WAIT_OFF_TO_ON, PIC_INITIAL,
        PIC_WAITING1, PIC_WAITING_END
<1>1. UNCHANGED <<hum_exists, missed>>
  BY DEF Update
<1>2. display_state' = IF Advance(display_state) = PIC_WAITING_END THEN PIC_NORMAL
                       ELSE Advance(display_state)
  BY DEF Update
<1>3. CASE hum_exists
  BY <1>1, <1>3 DEF Watch!vars
<1>4. CASE ~hum_exists
  <2>1. display_state # PIC_NORMAL
    BY <1>4
  <2>2. display_state' # PIC_NORMAL
    BY <1>2, <1>4, <2>1 DEF Advance
  <2> QED
    BY <1>1, <2>1, <2>2 DEF Watch!vars
<1> QED
  BY <1>3, <1>4

LEMMA WatchKept == UNCHANGED presence => UNCHANGED Watch!vars
BY DEF presence, Watch!vars

LEMMA WatchStep == CounterInv /\ [Next]_vars => [Watch!Next]_(Watch!vars)
<1> SUFFICES ASSUME CounterInv, [Next]_vars PROVE [Watch!Next]_(Watch!vars)
  OBVIOUS
<1>1. CASE Search
  BY <1>1, WatchSearch DEF Watch!Next
<1>2. CASE Read
  BY <1>2, WatchRead DEF Watch!Next
<1>3. CASE Update
  BY <1>3, WatchUpdate
<1>4. CASE SoftReset \/ Restart
  <2>1. Boot
    BY <1>4 DEF SoftReset, Restart
  <2>2. Watch!Boot
    BY <2>1 DEF Boot, Watch!Boot, PIC_INITIAL, PIC_NORMAL
  <2> QED
    BY <2>2 DEF Watch!Next
<1>5. CASE Operation
  <2>1. UNCHANGED presence
    BY <1>5 DEF Operation, NoOperation, OperateTemp, TempTaken, OperateHum, SaveLo, SaveHi,
         HumTaken, OperateHeat, HeatTaken, OnlyTask
  <2> QED
    BY <2>1, WatchKept
<1>6. CASE Refresh \/ AutoHeat \/ Swap \/ \E w \in Clients : Call(w) \/ Step(w)
  <2>1. UNCHANGED presence
    BY <1>6 DEF Refresh, AutoHeat, Swap, Call, Step
  <2> QED
    BY <2>1, WatchKept
<1>7. CASE UNCHANGED vars
  <2>1. UNCHANGED presence
    BY <1>7 DEF vars
  <2> QED
    BY <2>1, WatchKept
<1> QED
  BY <1>1, <1>2, <1>3, <1>4, <1>5, <1>6, <1>7 DEF Next, Task

(* The task keeps the promise of the watch for any two limits: the sensor   *)
(* is neither given up before MaxSilent passes without an answer nor taken  *)
(* for there after MaxFailed, and only comes back with an answer, whatever  *)
(* state the display goes through and whenever it is taken off and put on.  *)
THEOREM ImplementsWatch == Spec => WatchSpec
<1>1. Init => CounterInv /\ Watch!Init
  <2>1. Init => display_state = 6 /\ ~hum_exists /\ missed = 0
    BY Zenon DEF Init, PIC_INITIAL
  <2>2. Init => Watch!Init
    BY <2>1 DEF Watch!Init, PIC_NORMAL
  <2> QED
    BY <2>2, CounterInit
<1>2. CounterInv /\ [Next]_vars => CounterInv' /\ [Watch!Next]_(Watch!vars)
  BY CounterStep, WatchStep
<1> QED
  BY <1>1, <1>2, PTL DEF Spec, WatchSpec, Watch!Spec
-----------------------------------------------------------------------------
(* While an order to the heater is being noted, the slot still holds what   *)
(* the heater was told, unless a client changed it or the heater is gone.   *)
HeatInv ==
  /\ HeaterKnown
  /\ pc = "heat" /\ ~lost /\ heater # 0 => value = heater

LEMMA HeatInit == Init => HeatInv
BY DEF Init, HeatInv, HeaterKnown

(* An order of the heating by itself. *)
LEMMA HeatAlone ==
  ASSUME HeatInv, AutoHeat PROVE HeatInv'
<1>1. pc = "auto" /\ pc' = "sleep"
  BY DEF AutoHeat, At
<1>2. CASE UNCHANGED heating
  BY <1>1, <1>2 DEF HeatInv, HeaterKnown, heating
<1>3. ASSUME NEW v \in {0, 1}, Switch(v) PROVE HeatInv'
  <2>1. CASE Heat(v, TRUE) /\ heat_status' = v
    <3>1. heater' = v
      BY <2>1 DEF Heat
    <3> QED
      BY <1>1, <2>1, <3>1 DEF HeatInv, HeaterKnown
  <2>2. CASE Heat(v, FALSE) /\ UNCHANGED heat_status
    <3>1. UNCHANGED <<heater, lost>> \/ lost' = TRUE
      BY <2>2 DEF Heat
    <3> QED
      BY <1>1, <2>2, <3>1 DEF HeatInv, HeaterKnown
  <2> QED
    BY <1>3, <2>1, <2>2 DEF Switch
<1>4. UNCHANGED heating \/ Switch(0) \/ Switch(1)
  BY DEF AutoHeat, Heating
<1> QED
  BY <1>2, <1>3, <1>4

(* An order of a client. *)
LEMMA HeatOrdered ==
  ASSUME HeatInv, OperateHeat PROVE HeatInv'
<1>1. pc = "operate" /\ UNCHANGED <<value, heat_status>>
  BY DEF OperateHeat, At, slot
<1>2. CASE Heat(value, TRUE) /\ pc' = "heat"
  <2>1. heater' = value
    BY <1>2 DEF Heat
  <2> QED
    BY <1>1, <1>2, <2>1 DEF HeatInv, HeaterKnown
<1>3. CASE Heat(value, FALSE) /\ pc' = "update"
  <2>1. UNCHANGED <<heater, lost>> \/ lost' = TRUE
    BY <1>3 DEF Heat
  <2> QED
    BY <1>1, <1>3, <2>1 DEF HeatInv, HeaterKnown
<1> QED
  BY <1>2, <1>3 DEF OperateHeat

LEMMA HeatStep == HeatInv /\ [Next]_vars => HeatInv'
<1> SUFFICES ASSUME HeatInv, [Next]_vars PROVE HeatInv'
  OBVIOUS
<1> USE DEF HeatInv, HeaterKnown
<1>1. CASE AutoHeat
  BY <1>1, HeatAlone
<1>2. CASE OperateHeat
  BY <1>2, HeatOrdered
<1>3. CASE HeatTaken
  BY <1>3 DEF HeatTaken, At
<1>4. CASE Search \/ Read
  BY <1>4 DEF Search, Read, Tested, heating, slot, At
<1>5. CASE NoOperation \/ OperateTemp \/ TempTaken \/ OperateHum \/ SaveLo \/ SaveHi \/ HumTaken
  <2>1. pc # "heat" /\ pc' # "heat" /\ UNCHANGED heating
    BY <1>5 DEF NoOperation, OperateTemp, TempTaken, OperateHum, SaveLo, SaveHi, HumTaken, At,
         LoOf, HiOf, After, Channels
  <2> QED
    BY <2>1 DEF heating
<1>6. CASE Update \/ Refresh
  <2>1. pc # "heat" /\ pc' # "heat" /\ UNCHANGED heating
    BY <1>6 DEF Update, Refresh, At
  <2> QED
    BY <2>1 DEF heating
<1>7. CASE SoftReset \/ Restart
  BY <1>7 DEF SoftReset, Restart, Boot
<1>8. CASE Swap
  BY <1>8 DEF Swap
<1>9. CASE \E w \in Clients : Call(w) \/ Step(w)
  <2>1. PICK w \in Clients : Call(w) \/ Step(w)
    BY <1>9
  <2>2. CASE Call(w)
    BY <2>2 DEF Call, heating, slot
  <2>3. CASE Step(w)
    <3>1. UNCHANGED <<heater, heat_status, pc>>
      BY <2>3 DEF Step
    <3>2. lost' = (lost \/ (Head(todo[w]).op = "value" /\ pc = "heat"))
      BY <2>3 DEF Step
    <3>3. Head(todo[w]).op # "value" => value' = value
      BY <2>3 DEF Step
    <3>4. ~lost' => ~lost /\ (pc = "heat" => value' = value)
      BY <3>2, <3>3, Zenon
    <3> QED
      BY <3>1, <3>4
  <2> QED
    BY <2>1, <2>2, <2>3
<1>10. CASE UNCHANGED vars
  BY <1>10 DEF vars, heating, slot
<1> QED
  BY <1>1, <1>2, <1>3, <1>4, <1>5, <1>6, <1>7, <1>8, <1>9, <1>10 DEF Next, Task, Operation

(* A heater that is on is known to be on, unless the answer to an order was *)
(* lost, a client changed an order while it was carried out, or the         *)
(* controller started since.                                               *)
THEOREM HeaterIsKnown == Spec => []HeaterKnown
<1>1. HeatInv => HeaterKnown
  BY DEF HeatInv
<1> QED
  BY HeatInit, HeatStep, <1>1, PTL DEF Spec
-----------------------------------------------------------------------------
(* The types: the orders of a client carry a channel where one is used, and  *)
(* single bits where the EEPROM is written.                                *)
TypedWrites ==
  {x \in Writes : /\ x.op \in {"manual", "offset", "lo", "hi", "mode"} => x.c # "heater"
                  /\ x.op \in {"lo", "hi"} => x.v \in 0 .. 1}

OrdersT == todo \in [Clients -> Seq(TypedWrites)]

PresenceT ==
  /\ hum_exists \in BOOLEAN /\ known \in BOOLEAN
  /\ display_state \in {0, 1, 2, 4} \cup 6 .. 10
  /\ ctr \in 0 .. MaxFailed + 1 /\ missed \in 0 .. MaxFailed

HeatT ==
  /\ heater \in 0 .. 3 /\ heat_status \in 0 .. 3 /\ value \in 0 .. 3
  /\ flag \in {"none", "temp", "hum", "heater"}
  /\ read_count \in 0 .. (IF HeatAfter > HeatFor THEN HeatAfter ELSE HeatFor)

CalibT ==
  /\ offset \in [Channels -> 0 .. 3] /\ saved \in [Channels -> (0 .. 1) \X (0 .. 1)]
  /\ mval \in [Channels -> 0 .. 3] /\ shown \in [Channels -> 0 .. 3]

PlainT ==
  /\ attached \in BOOLEAN /\ foreign \in BOOLEAN
  /\ auto \in BOOLEAN /\ autoSaved \in BOOLEAN
  /\ manual \in [Channels -> BOOLEAN]
  /\ pc \in {"sleep", "operate", "temp", "tempLo", "tempHi", "humLo", "humHi", "hum", "heat",
            "update", "refresh", "auto"}
  /\ events \in 0 .. MaxEvents
  /\ lost \in BOOLEAN /\ stale \in BOOLEAN /\ crossed \in BOOLEAN
  /\ last \in [c : Channels \cup {"none"}, v : 0 .. 3]

LEMMA Halves == \A n \in 0 .. 3 : n % 2 \in 0 .. 1 /\ n \div 2 \in 0 .. 1
BY SMT

LEMMA Bits == \A n \in 0 .. 3 : Lo(n) \in 0 .. 1 /\ Hi(n) \in 0 .. 1 /\ Saved(n) \in (0 .. 1) \X (0 .. 1)
BY Halves DEF Lo, Hi, Saved

LEMMA Wraps == \A n \in Int : Int16(n) \in 0 .. 3
BY SMT DEF Int16

LEMMA Loads == \A b \in (0 .. 1) \X (0 .. 1) : Loaded(b) \in 0 .. 3
BY SMT DEF Loaded
-----------------------------------------------------------------------------
LEMMA ValuesFit == \A v \in Values : v \in 0 .. 3 /\ v % 2 \in 0 .. 1 /\ v % 2 \in 0 .. 3
BY HumidityAssumption, Halves DEF HumidityAssumption

(* What a client asks for is typed. *)
LEMMA CallOrders ==
  ASSUME OrdersT, PlainT, NEW w \in Clients, Call(w)
  PROVE  OrdersT' /\ PlainT'
<1>1. PICK c \in Channels, v \in Values :
        \/ todo' = [todo EXCEPT ![w] = Calibrate(c, v)] /\ last' = [c |-> c, v |-> v]
        \/ /\ \E p \in {SwitchHeater(v % 2), SwitchAuto(v % 2), SetOffset(c, v), SetMode(c, v % 2)} :
                todo' = [todo EXCEPT ![w] = p]
           /\ last' = Nothing
  BY DEF Call
<1>2. v \in 0 .. 3 /\ v % 2 \in 0 .. 1 /\ v % 2 \in 0 .. 3 /\ Lo(v) \in 0 .. 1 /\ Hi(v) \in 0 .. 1
      /\ Lo(v) \in 0 .. 3 /\ Hi(v) \in 0 .. 3
  BY ValuesFit, Bits
<1>3. c \in {"temp", "hum"} BY DEF Channels
<1>4. Calibrate(c, v) \in Seq(TypedWrites)
  BY <1>2, <1>3 DEF Calibrate, W, TypedWrites, Writes, Channels
<1>5. SwitchHeater(v % 2) \in Seq(TypedWrites)
  BY <1>2 DEF SwitchHeater, W, TypedWrites, Writes
<1>6. SwitchAuto(v % 2) \in Seq(TypedWrites)
  <2>1. SwitchHeater(0) \in Seq(TypedWrites)
    BY DEF SwitchHeater, W, TypedWrites, Writes
  <2>2. <<W("auto", "heater", v % 2), W("autoSaved", "heater", v % 2)>> \in Seq(TypedWrites)
    BY <1>2 DEF W, TypedWrites, Writes
  <2> QED BY <2>1, <2>2 DEF SwitchAuto
<1>7. SetOffset(c, v) \in Seq(TypedWrites)
  BY <1>2, <1>3 DEF SetOffset, W, TypedWrites, Writes, Channels
<1>8. SetMode(c, v % 2) \in Seq(TypedWrites)
  BY <1>2, <1>3 DEF SetMode, W, TypedWrites, Writes, Channels
<1>9. \E p \in Seq(TypedWrites) : todo' = [todo EXCEPT ![w] = p]
  BY <1>1, <1>4, <1>5, <1>6, <1>7, <1>8
<1>10. OrdersT' BY <1>9 DEF OrdersT
<1>11. last' \in [c : Channels \cup {"none"}, v : 0 .. 3]
  BY <1>1, <1>2 DEF Nothing
<1>12. events' \in 0 .. MaxEvents BY HumidityAssumption DEF Call, PlainT, HumidityAssumption
<1>13. crossed' \in BOOLEAN BY Zenon DEF Call
<1>14. UNCHANGED <<attached, foreign, auto, autoSaved, manual, pc, lost, stale>>
  BY DEF Call, sensor, heating, heatAuto, output
<1> QED BY <1>10, <1>11, <1>12, <1>13, <1>14 DEF PlainT

LEMMA StepOrders ==
  ASSUME OrdersT, PlainT, HeatT, CalibT, NEW w \in Clients, Step(w)
  PROVE  OrdersT' /\ PlainT' /\ HeatT' /\ CalibT'
<1> DEFINE x == Head(todo[w])
<1>1. todo[w] \in Seq(TypedWrites) /\ todo[w] # <<>> BY DEF Step, OrdersT
<1>2. x \in TypedWrites /\ Tail(todo[w]) \in Seq(TypedWrites) BY <1>1
<1>3. OrdersT' BY <1>2 DEF Step, OrdersT
<1>4. x.v \in 0 .. 3 /\ x.c \in {"temp", "hum", "heater"}
      /\ (x.op \in {"manual", "offset", "lo", "hi", "mode"} => x.c \in Channels)
      /\ (x.op \in {"lo", "hi"} => x.v \in 0 .. 1)
  BY <1>2 DEF TypedWrites, Writes, Channels
<1>5. /\ value' = IF x.op = "value" THEN x.v ELSE value
      /\ lost' = (lost \/ (x.op = "value" /\ pc = "heat"))
      /\ flag' = IF x.op = "flag" THEN x.c ELSE flag
      /\ auto' = IF x.op = "auto" THEN x.v = 1 ELSE auto
      /\ autoSaved' = IF x.op = "autoSaved" THEN x.v = 1 ELSE autoSaved
      /\ offset' = IF x.op = "offset" THEN [offset EXCEPT ![x.c] = x.v] ELSE offset
      /\ saved' = IF x.op \in {"lo", "hi"}
                  THEN [saved EXCEPT ![x.c][IF x.op = "lo" THEN 1 ELSE 2] = x.v] ELSE saved
      /\ stale' = (stale \/ x.op \in {"offset", "mode"})
      /\ manual' = IF x.op = "mode" THEN [manual EXCEPT ![x.c] = (x.v = 1)] ELSE manual
      /\ mval' = IF x.op = "manual" THEN [mval EXCEPT ![x.c] = x.v] ELSE mval
  BY Zenon DEF Step
<1>6. UNCHANGED <<attached, foreign, heater, heat_status, read_count, shown, pc, events, last, crossed>>
  BY DEF Step, sensor, asked
<1> HIDE DEF x
<1>7. HeatT' BY <1>4, <1>5, <1>6 DEF HeatT
<1>8. saved' \in [Channels -> (0 .. 1) \X (0 .. 1)]
  <2>1. CASE x.op \notin {"lo", "hi"} BY <2>1, <1>5 DEF CalibT
  <2>2. CASE x.op = "lo"
    <3>1. saved' = [saved EXCEPT ![x.c][1] = x.v] BY <2>2, <1>5
    <3>2. [saved[x.c] EXCEPT ![1] = x.v] \in (0 .. 1) \X (0 .. 1) BY <2>2, <1>4 DEF CalibT
    <3> QED BY <3>1, <3>2 DEF CalibT
  <2>3. CASE x.op = "hi"
    <3>1. saved' = [saved EXCEPT ![x.c][2] = x.v] BY <2>3, <1>5
    <3>2. [saved[x.c] EXCEPT ![2] = x.v] \in (0 .. 1) \X (0 .. 1) BY <2>3, <1>4 DEF CalibT
    <3> QED BY <3>1, <3>2 DEF CalibT
  <2> QED BY <2>1, <2>2, <2>3
<1>9. offset' \in [Channels -> 0 .. 3] /\ mval' \in [Channels -> 0 .. 3]
  BY <1>4, <1>5 DEF CalibT
<1>10. CalibT' BY <1>6, <1>8, <1>9 DEF CalibT
<1>11. lost' \in BOOLEAN /\ stale' \in BOOLEAN /\ auto' \in BOOLEAN /\ autoSaved' \in BOOLEAN
  BY Zenon, <1>5 DEF PlainT
<1>12. manual' \in [Channels -> BOOLEAN]
  <2>1. CASE x.op # "mode" BY Zenon, <2>1, <1>5 DEF PlainT
  <2>2. CASE x.op = "mode"
    <3>1. manual' = [manual EXCEPT ![x.c] = (x.v = 1)] BY <2>2, <1>5
    <3>2. (x.v = 1) \in BOOLEAN BY Zenon
    <3> QED BY <3>1, <3>2 DEF PlainT
  <2> QED BY <2>1, <2>2
<1>13. PlainT' BY <1>6, <1>11, <1>12 DEF PlainT
<1> QED BY <1>3, <1>7, <1>10, <1>13
-----------------------------------------------------------------------------
Typed == OrdersT /\ PlainT /\ HeatT /\ CalibT /\ PresenceT

LEMMA TypedInit == Init => Typed
<1> SUFFICES ASSUME Init PROVE Typed
  OBVIOUS
<1>1. OrdersT BY DEF Init, OrdersT, Idle
<1>2. PlainT
  <2>1. manual \in [Channels -> BOOLEAN] BY Zenon DEF Init
  <2>2. 0 \in 0 .. 3 /\ 0 \in 0 .. MaxEvents BY HumidityAssumption DEF HumidityAssumption
  <2>3. foreign \in BOOLEAN /\ attached \in BOOLEAN BY Zenon DEF Init
  <2> QED BY Zenon, <2>1, <2>2, <2>3 DEF Init, PlainT, Nothing
<1>3. HeatT BY HumidityAssumption DEF Init, HeatT, HumidityAssumption
<1>4. CalibT
  <2>1. Saved(0) \in (0 .. 1) \X (0 .. 1) BY Bits
  <2> QED BY <2>1 DEF Init, CalibT, Zero
<1>5. PresenceT
  <2>1. 0 \in 0 .. MaxFailed + 1 /\ 0 \in 0 .. MaxFailed
    BY HumidityAssumption DEF HumidityAssumption
  <2>2. 6 \in {0, 1, 2, 4} \cup 6 .. 10 OBVIOUS
  <2> QED BY Zenon, <2>1, <2>2 DEF Init, PresenceT, PIC_INITIAL
<1> QED BY <1>1, <1>2, <1>3, <1>4, <1>5 DEF Typed

LEMMA TypedBoot ==
  ASSUME Typed, Boot, events' \in 0 .. MaxEvents PROVE Typed'
<1>1. OrdersT' BY DEF Boot, OrdersT, Idle
<1>2. PlainT'
  <2>1. manual' \in [Channels -> BOOLEAN] BY Zenon DEF Boot
  <2>2. 0 \in 0 .. 3 OBVIOUS
  <2>3. lost' \in BOOLEAN BY Zenon DEF Boot
  <2>4. UNCHANGED <<attached, foreign, autoSaved>> BY DEF Boot, sensor
  <2> QED BY Zenon, <2>1, <2>2, <2>3, <2>4 DEF Boot, PlainT, Nothing, Typed
<1>3. HeatT' BY HumidityAssumption DEF Boot, HeatT, HumidityAssumption, Typed
<1>4. CalibT' BY Loads DEF Boot, CalibT, Zero, Typed
<1>5. PresenceT'
  <2>1. 0 \in 0 .. MaxFailed + 1 /\ 0 \in 0 .. MaxFailed
    BY HumidityAssumption DEF HumidityAssumption
  <2>2. 6 \in {0, 1, 2, 4} \cup 6 .. 10 OBVIOUS
  <2> QED BY Zenon, <2>1, <2>2 DEF Boot, PresenceT, PIC_INITIAL
<1> QED BY <1>1, <1>2, <1>3, <1>4, <1>5 DEF Typed

LEMMA TypedQuery ==
  ASSUME PlainT, NEW ok \in BOOLEAN, Query(ok) PROVE events' \in 0 .. MaxEvents
BY HumidityAssumption DEF PlainT, Query, HumidityAssumption

LEMMA TypedPass ==
  ASSUME Typed, Search \/ Read PROVE Typed'
<1>1. Tested BY DEF Search, Read
<1>2. UNCHANGED <<todo, attached, foreign, auto, autoSaved, manual, heater, heat_status, lost,
                  value, flag, read_count, offset, saved, mval, shown, last, crossed, stale>>
      /\ pc' = "operate"
  BY <1>1 DEF Tested, sensor, slot, heating, heatAuto, calib, output, asked
<1>3. events' \in 0 .. MaxEvents
  BY TypedQuery DEF Search, Read, Typed
<1>4. PlainT' BY Zenon, <1>2, <1>3 DEF Typed, PlainT
<1>5. PresenceT'
  <2>1. ctr' \in {0, ctr, ctr + 1} /\ (ctr' = ctr + 1 => ctr <= MaxFailed)
    <3>1. CASE Search
      <4>1. ctr' = 0 \/ ctr' = IF ctr <= MaxSilent THEN ctr + 1 ELSE ctr
        BY Zenon, <3>1 DEF Search
      <4> QED BY <4>1, HumidityAssumption DEF HumidityAssumption, Typed, PresenceT
    <3>2. CASE Read
      <4>1. ctr' = 0 \/ ctr' = IF ctr <= MaxFailed THEN ctr + 1 ELSE ctr
        BY Zenon, <3>2 DEF Read
      <4> QED BY <4>1, HumidityAssumption DEF HumidityAssumption, Typed, PresenceT
    <3> QED BY <3>1, <3>2
  <2>2. ctr' \in 0 .. MaxFailed + 1
    BY <2>1, HumidityAssumption DEF HumidityAssumption, Typed, PresenceT
  <2>3. missed' = 0 \/ missed' = IF missed < MaxFailed THEN missed + 1 ELSE missed
    BY Zenon DEF Search, Read, Missed
  <2>4. missed' \in 0 .. MaxFailed
    BY <2>3, HumidityAssumption DEF HumidityAssumption, Typed, PresenceT
  <2>5. display_state' \in {display_state, PIC_ON_TO_OFF, PIC_OFF_TO_ON}
    BY Zenon DEF Search, Read
  <2>6. display_state' \in {0, 1, 2, 4} \cup 6 .. 10
    BY <2>5 DEF Typed, PresenceT, PIC_ON_TO_OFF, PIC_OFF_TO_ON
  <2>7. hum_exists' \in BOOLEAN /\ known' \in BOOLEAN
    BY Zenon DEF Search, Read, Typed, PresenceT
  <2> QED BY <2>2, <2>4, <2>6, <2>7 DEF PresenceT
<1>6. OrdersT' /\ HeatT' /\ CalibT' BY <1>2 DEF Typed, OrdersT, HeatT, CalibT
<1> QED BY <1>4, <1>5, <1>6 DEF Typed

LEMMA TypedHeat ==
  ASSUME Typed, NEW v \in 0 .. 3, NEW ok \in BOOLEAN, Heat(v, ok)
  PROVE  heater' \in 0 .. 3 /\ lost' \in BOOLEAN /\ events' \in 0 .. MaxEvents
<1>1. heater' \in {heater, v} BY Zenon DEF Heat
<1>2. events' = events \/ (events' = events + 1 /\ events < MaxEvents)
  BY Zenon DEF Heat
<1>3. lost' \in BOOLEAN BY Zenon DEF Heat, Typed, PlainT
<1> QED BY <1>1, <1>2, <1>3, HumidityAssumption DEF Typed, HeatT, PlainT, HumidityAssumption

LEMMA TypedOperation ==
  ASSUME Typed, Operation PROVE Typed'
<1>1. UNCHANGED <<attached, foreign, display_state, hum_exists, known, ctr, missed, auto, autoSaved,
                  read_count, manual, mval, shown, todo, value, last, stale>>
  BY DEF Operation, NoOperation, OperateTemp, TempTaken, OperateHum, SaveLo, SaveHi, HumTaken,
         OperateHeat, HeatTaken, OnlyTask, sensor, presence, heatAuto, output, slot, asked
<1>2. OrdersT' /\ PresenceT' BY <1>1 DEF Typed, OrdersT, PresenceT
<1>3. pc' \in {"sleep", "operate", "temp", "tempLo", "tempHi", "humLo", "humHi", "hum", "heat",
            "update", "refresh", "auto"}
  BY DEF Operation, NoOperation, OperateTemp, TempTaken, OperateHum, SaveLo, SaveHi, HumTaken,
         OperateHeat, HeatTaken, LoOf, HiOf, After, Channels
<1>4. crossed' \in BOOLEAN
  BY Zenon DEF Operation, NoOperation, OperateTemp, TempTaken, OperateHum, SaveLo, SaveHi, HumTaken,
         OperateHeat, HeatTaken, Crosses, asked, Typed, PlainT
<1>5. heater' \in 0 .. 3 /\ heat_status' \in 0 .. 3 /\ lost' \in BOOLEAN /\ events' \in 0 .. MaxEvents
      /\ flag' \in {"none", "temp", "hum", "heater"}
  <2>1. CASE OperateHeat
    <3>1. PICK ok \in BOOLEAN : Heat(value, ok) BY <2>1 DEF OperateHeat
    <3>2. value \in 0 .. 3 BY DEF Typed, HeatT
    <3>3. heater' \in 0 .. 3 /\ lost' \in BOOLEAN /\ events' \in 0 .. MaxEvents
      BY <3>1, <3>2, TypedHeat
    <3> QED BY <2>1, <3>3 DEF OperateHeat, slot, Typed, HeatT
  <2>2. CASE ~OperateHeat
    <3>1. UNCHANGED <<heater, lost, events>>
      BY <2>2 DEF Operation, NoOperation, OperateTemp, TempTaken, OperateHum, SaveLo, SaveHi,
                 HumTaken, HeatTaken, heating
    <3>2. flag' \in {flag, "none"} /\ heat_status' \in {heat_status, value}
      BY <2>2 DEF Operation, NoOperation, OperateTemp, TempTaken, OperateHum, SaveLo, SaveHi,
                 HumTaken, HeatTaken, heating, slot
    <3> QED BY <3>1, <3>2 DEF Typed, HeatT, PlainT
  <2> QED BY <2>1, <2>2
<1>6. PlainT' BY <1>1, <1>3, <1>4, <1>5 DEF Typed, PlainT
<1>7. HeatT' BY <1>1, <1>5 DEF Typed, HeatT
<1>8. offset' \in [Channels -> 0 .. 3]
  <2>1. CASE OperateTemp
    <3>1. Int16(offset["temp"] + value - shown["temp"]) \in 0 .. 3
      BY Wraps DEF Typed, HeatT, CalibT, Channels
    <3> QED BY <2>1, <3>1 DEF OperateTemp, Typed, CalibT
  <2>2. CASE OperateHum
    <3>1. Int16(value - Measured) \in 0 .. 3
      BY Wraps DEF Typed, HeatT, Measured
    <3> QED BY <2>2, <3>1 DEF OperateHum, Typed, CalibT
  <2>3. CASE ~OperateTemp /\ ~OperateHum
    BY <2>3 DEF Operation, NoOperation, TempTaken, SaveLo, SaveHi, HumTaken, OperateHeat, HeatTaken,
               calib, Typed, CalibT
  <2> QED BY <2>1, <2>2, <2>3
<1>9. saved' \in [Channels -> (0 .. 1) \X (0 .. 1)]
  <2>1. CASE SaveLo
    <3>1. PICK c \in Channels : saved' = [saved EXCEPT ![c][1] = Lo(offset[c])]
      BY <2>1 DEF SaveLo
    <3>2. [saved[c] EXCEPT ![1] = Lo(offset[c])] \in (0 .. 1) \X (0 .. 1)
      BY Bits DEF Typed, CalibT
    <3> QED BY <3>1, <3>2 DEF Typed, CalibT
  <2>2. CASE SaveHi
    <3>1. PICK c \in Channels : saved' = [saved EXCEPT ![c][2] = Hi(offset[c])]
      BY <2>2 DEF SaveHi
    <3>2. [saved[c] EXCEPT ![2] = Hi(offset[c])] \in (0 .. 1) \X (0 .. 1)
      BY Bits DEF Typed, CalibT
    <3> QED BY <3>1, <3>2 DEF Typed, CalibT
  <2>3. CASE ~SaveLo /\ ~SaveHi
    BY <2>3 DEF Operation, NoOperation, OperateTemp, TempTaken, OperateHum, HumTaken, OperateHeat,
               HeatTaken, calib, Typed, CalibT
  <2> QED BY <2>1, <2>2, <2>3
<1>10. CalibT' BY <1>1, <1>8, <1>9 DEF Typed, CalibT
<1> QED BY <1>2, <1>6, <1>7, <1>10 DEF Typed

LEMMA TypedUpdate ==
  ASSUME Typed, Update PROVE Typed'
<1>1. UNCHANGED <<attached, foreign, hum_exists, known, ctr, missed, flag, value, heater,
                  heat_status, lost, auto, autoSaved, read_count, offset, saved, manual, todo,
                  events, last, crossed>> /\ stale' = FALSE
  BY DEF Update, Readings, sensor, slot, heating, heatAuto, calib, asked
<1>2. OrdersT' /\ HeatT' BY <1>1 DEF Typed, OrdersT, HeatT
<1>3. shown' \in [Channels -> 0 .. 3]
  <2>1. \A c \in Channels : (IF manual[c] THEN mval[c] ELSE Int16(Measured + offset[c])) \in 0 .. 3
    BY Wraps DEF Typed, CalibT, Measured
  <2> QED BY <2>1 DEF Update, Readings
<1>4. CalibT' BY <1>1, <1>3 DEF Typed, CalibT, Update, Readings
<1>5. pc' \in {"refresh", "auto"} BY Zenon DEF Update
<1>6. PlainT' BY <1>1, <1>5 DEF Typed, PlainT
<1>7. display_state' \in {0, 1, 2, 4} \cup 6 .. 10
  <2>1. Advance(display_state) \in {0, 1, 2, 4} \cup 6 .. 11
    BY DEF Typed, PresenceT, Advance, PIC_INITIAL, PIC_WAITING1, PIC_ON_TO_OFF, PIC_WAIT_OFF_TO_ON
  <2>2. display_state' = IF Advance(display_state) = PIC_WAITING_END THEN PIC_NORMAL
                         ELSE Advance(display_state)
    BY Zenon DEF Update
  <2> QED BY <2>1, <2>2 DEF PIC_WAITING_END, PIC_NORMAL
<1>8. PresenceT' BY Zenon, <1>1, <1>7 DEF Typed, PresenceT
<1> QED BY <1>2, <1>4, <1>6, <1>8 DEF Typed

LEMMA TypedRefresh ==
  ASSUME Typed, Refresh PROVE Typed'
<1>1. UNCHANGED <<attached, display_state, hum_exists, known, ctr, missed, flag, value, heater,
                  heat_status, lost, auto, autoSaved, read_count, manual, mval, shown, todo,
                  events>> /\ pc' = "auto" /\ foreign' = FALSE
  BY DEF Refresh, presence, slot, heating, heatAuto, output
<1>2. OrdersT' /\ HeatT' /\ PresenceT' BY <1>1 DEF Typed, OrdersT, HeatT, PresenceT
<1>3. CalibT'
  <2>1. Saved(0) \in (0 .. 1) \X (0 .. 1) BY Bits
  <2>2. Zero \in [Channels -> 0 .. 3] BY DEF Zero
  <2>3. \/ offset' = Zero /\ saved' = [c \in Channels |-> Saved(0)]
        \/ UNCHANGED <<offset, saved>>
    BY Zenon DEF Refresh, calib
  <2> QED BY <1>1, <2>1, <2>2, <2>3 DEF Typed, CalibT
<1>4. stale' \in BOOLEAN /\ crossed' \in BOOLEAN
  BY Zenon DEF Refresh, asked, Typed, PlainT
<1>5. last' \in {last, Nothing} BY Zenon DEF Refresh, asked
<1>6. last' \in [c : Channels \cup {"none"}, v : 0 .. 3] BY <1>5 DEF Nothing, Typed, PlainT
<1>7. PlainT' BY <1>1, <1>4, <1>6 DEF Typed, PlainT
<1> QED BY <1>2, <1>3, <1>7 DEF Typed

LEMMA TypedAutoHeat ==
  ASSUME Typed, AutoHeat PROVE Typed'
<1>1. UNCHANGED <<attached, foreign, display_state, hum_exists, known, ctr, missed, flag, value,
                  auto, autoSaved, offset, saved, manual, mval, shown, todo, last, crossed, stale>>
      /\ pc' = "sleep"
  BY DEF AutoHeat, sensor, presence, slot, heatAuto, calib, output, asked
<1>2. OrdersT' /\ CalibT' /\ PresenceT' BY <1>1 DEF Typed, OrdersT, CalibT, PresenceT
<1>3. \/ UNCHANGED <<heater, heat_status, lost, events>>
      \/ Switch(0) \/ Switch(1)
  BY Zenon DEF AutoHeat, Heating, heating
<1>4. read_count' \in {0, read_count} \/ Count(HeatAfter) \/ Count(HeatFor)
  BY Zenon DEF AutoHeat, Heating, Switch
<1>5. read_count' \in 0 .. (IF HeatAfter > HeatFor THEN HeatAfter ELSE HeatFor)
  BY <1>4, HumidityAssumption DEF Count, Typed, HeatT, HumidityAssumption
<1>6. heater' \in 0 .. 3 /\ heat_status' \in 0 .. 3 /\ lost' \in BOOLEAN /\ events' \in 0 .. MaxEvents
  <2>1. CASE UNCHANGED <<heater, heat_status, lost, events>>
    BY <2>1 DEF Typed, HeatT, PlainT
  <2>2. ASSUME NEW v \in {0, 1}, Switch(v)
        PROVE  heater' \in 0 .. 3 /\ heat_status' \in 0 .. 3 /\ lost' \in BOOLEAN
               /\ events' \in 0 .. MaxEvents
    <3>1. PICK ok \in BOOLEAN : Heat(v, ok) BY Zenon, <2>2 DEF Switch
    <3>2. v \in 0 .. 3 OBVIOUS
    <3>3. heater' \in 0 .. 3 /\ lost' \in BOOLEAN /\ events' \in 0 .. MaxEvents
      BY <3>1, <3>2, TypedHeat
    <3>4. heat_status' \in {heat_status, v} BY Zenon, <2>2 DEF Switch
    <3> QED BY <3>2, <3>3, <3>4 DEF Typed, HeatT
  <2> QED BY <1>3, <2>1, <2>2
<1>7. PlainT' BY <1>1, <1>6 DEF Typed, PlainT
<1>8. HeatT' BY <1>1, <1>5, <1>6 DEF Typed, HeatT
<1> QED BY <1>2, <1>7, <1>8 DEF Typed

LEMMA TypedSwap ==
  ASSUME Typed, Swap PROVE Typed'
<1>1. UNCHANGED <<display_state, hum_exists, known, ctr, missed, flag, value, heat_status, auto,
                  autoSaved, read_count, offset, saved, manual, mval, shown, pc, todo, last,
                  crossed, stale>> /\ heater' = 0 /\ lost' = FALSE
  BY DEF Swap, presence, slot, heatAuto, calib, output, asked
<1>2. OrdersT' /\ CalibT' /\ PresenceT' /\ HeatT'
  BY <1>1 DEF Typed, OrdersT, CalibT, PresenceT, HeatT
<1>3. attached' \in BOOLEAN /\ foreign' \in BOOLEAN BY Zenon DEF Swap
<1>4. events' \in 0 .. MaxEvents BY HumidityAssumption DEF Swap, Typed, PlainT, HumidityAssumption
<1>5. PlainT' BY <1>1, <1>3, <1>4 DEF Typed, PlainT
<1> QED BY <1>2, <1>5 DEF Typed

LEMMA TypedStep == Typed /\ [Next]_vars => Typed'
<1> SUFFICES ASSUME Typed, [Next]_vars PROVE Typed'
  OBVIOUS
<1>1. CASE Search \/ Read BY <1>1, TypedPass
<1>2. CASE Operation BY <1>2, TypedOperation
<1>3. CASE Update BY <1>3, TypedUpdate
<1>4. CASE SoftReset
  BY <1>4, TypedBoot DEF SoftReset, Typed, PlainT
<1>5. CASE Refresh BY <1>5, TypedRefresh
<1>6. CASE AutoHeat BY <1>6, TypedAutoHeat
<1>7. CASE Swap BY <1>7, TypedSwap
<1>8. CASE Restart
  <2>1. events' \in 0 .. MaxEvents
    BY <1>8, HumidityAssumption DEF Restart, Typed, PlainT, HumidityAssumption
  <2> QED BY <1>8, <2>1, TypedBoot DEF Restart
<1>9. ASSUME NEW w \in Clients, Call(w) PROVE Typed'
  <2>1. OrdersT' /\ PlainT' BY <1>9, CallOrders DEF Typed
  <2>2. UNCHANGED <<presence, slot, heating, read_count, calib, mval, shown>>
    BY <1>9 DEF Call, output
  <2>3. PresenceT' /\ HeatT' /\ CalibT'
    BY <2>2 DEF Typed, PresenceT, HeatT, CalibT, presence, slot, heating, calib
  <2> QED BY <2>1, <2>3 DEF Typed
<1>10. ASSUME NEW w \in Clients, Step(w) PROVE Typed'
  <2>1. OrdersT' /\ PlainT' /\ HeatT' /\ CalibT' BY <1>10, StepOrders DEF Typed
  <2>2. UNCHANGED presence BY <1>10 DEF Step
  <2>3. PresenceT' BY <2>2 DEF Typed, PresenceT, presence
  <2> QED BY <2>1, <2>3 DEF Typed
<1>11. CASE UNCHANGED vars
  BY <1>11 DEF Typed, OrdersT, PlainT, HeatT, CalibT, PresenceT, vars, sensor, presence, slot,
              heating, heatAuto, calib, output, asked
<1> QED BY Zenon, <1>1, <1>2, <1>3, <1>4, <1>5, <1>6, <1>7, <1>8, <1>9, <1>10, <1>11 DEF Next, Task

(* The variables have their types: whatever is ordered, the numbers fit the  *)
(* bytes they are kept in, and counters stop at their limits.              *)
THEOREM TypeCorrect == Spec => []TypeOK
<1>1. Typed => TypeOK
  <2> SUFFICES ASSUME Typed PROVE TypeOK
    OBVIOUS
  <2>1. \A s \in Seq(TypedWrites) : s \in Seq(Writes)
    <3>1. TypedWrites \subseteq Writes BY DEF TypedWrites
    <3> QED BY <3>1
  <2>2. todo \in [Clients -> Seq(Writes)] BY <2>1 DEF Typed, OrdersT
  <2> QED BY Zenon, <2>2 DEF Typed, PlainT, HeatT, CalibT, PresenceT, TypeOK
<1> QED BY TypedInit, TypedStep, <1>1, PTL DEF Spec
=============================================================================
