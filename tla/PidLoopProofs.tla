--------------------------- MODULE PidLoopProofs ----------------------------
(* What is proved about PidLoop, for every limit, gain and setting. *)
EXTENDS PidLoop, TLAPS

LEMMA Quotient ==
  ASSUME NEW a \in Int, NEW b \in Nat
  PROVE  Quot(a, b) \in Int
<1>1. CASE b = 0 BY <1>1 DEF Quot
<1>2. CASE b # 0
  <2>1. a \div b \in Int /\ (-a) \div b \in Int BY <1>2
  <2> QED BY <2>1, <1>2 DEF Quot
<1> QED BY <1>1, <1>2

LEMMA Word ==
  ASSUME NEW n \in Int, PidAssumption
  PROVE  /\ Int32(n) \in Int
         /\ -WordMax <= n /\ n < WordMax => Int32(n) = n
<1> DEFINE m == n + WordMax
           k == 2 * WordMax
<1>1. m \in Int /\ k \in Nat \ {0} /\ WordMax \in Nat BY DEF PidAssumption
<1>2. Int32(n) = (m % k) - WordMax BY DEF Int32
<1>3. m % k \in Int
  <2> HIDE DEF m, k
  <2> QED BY <1>1
<1>4. ASSUME -WordMax <= n, n < WordMax PROVE m % k = m
  <2>1. 0 <= m /\ m < k BY <1>1, <1>4
  <2> HIDE DEF m, k
  <2> QED BY <1>1, <2>1
<1>5. -WordMax <= n /\ n < WordMax => Int32(n) = n BY <1>1, <1>2, <1>4
<1> HIDE DEF m, k
<1> QED BY <1>1, <1>2, <1>3, <1>5

LEMMA Clamped ==
  ASSUME NEW n \in Int, PidAssumption
  PROVE  Clamp(n) \in Nat
BY DEF Clamp, PidAssumption

LEMMA SignKept ==
  ASSUME NEW n \in Int, TypeOK
  PROVE  Signed(n) \in Int
BY DEF Signed, TypeOK, Controllers

LEMMA ProportionalType ==
  ASSUME NEW e \in Int, TypeOK, PidAssumption
  PROVE  Proportional(e) \in Int
<1> DEFINE erp == Quot(Int32(Gain * e), con.prop)
<1>1. con.prop \in Nat BY DEF TypeOK, Controllers, Words
<1>2. Int32(Gain * e) \in Int
  <2>1. Gain * e \in Int BY DEF PidAssumption
  <2> QED BY <2>1, Word
<1>3. erp \in Int BY <1>1, <1>2, Quotient
<1>4. (IF erp > OutMax THEN OutMax ELSE erp) \in Int BY <1>3 DEF PidAssumption
<1> QED BY <1>4, SignKept DEF Proportional

LEMMA AreaType ==
  ASSUME NEW s \in Int, PidAssumption
  PROVE  Area(s) \in Int
BY DEF Area, PidAssumption

LEMMA SumType ==
  ASSUME TypeOK, PidAssumption
  PROVE  Sum \in Int
<1>1. con.sample_time \div 2 \in Int BY DEF TypeOK, Controllers, PidAssumption
<1>2. error_area \in Int /\ old_err + err \in Int BY DEF TypeOK, PidAssumption
<1>3. error_area + (old_err + err) * (con.sample_time \div 2) \in Int BY <1>1, <1>2
<1> QED BY <1>3, Word DEF Sum

LEMMA DerivativeType ==
  ASSUME TypeOK, PidAssumption
  PROVE  Derivative \in Int
<1> DEFINE od == -Quot(Int32(Gain * old_err), con.prop)
           x == Signed(od * con.rate)
<1>1. con.prop \in Nat /\ con.rate \in Nat /\ con.sample_time \in Nat /\ old_err \in Int
  BY DEF TypeOK, Controllers, Words, PidAssumption
<1>2. Int32(Gain * old_err) \in Int
  <2>1. Gain * old_err \in Int BY <1>1 DEF PidAssumption
  <2> QED BY <2>1, Word
<1>3. od \in Int
  <2>1. Quot(Int32(Gain * old_err), con.prop) \in Int BY <1>1, <1>2, Quotient
  <2> QED BY <2>1
<1>4. x \in Int
  <2> HIDE DEF od
  <2>1. od * con.rate \in Int BY <1>3, <1>1
  <2> QED BY <2>1, SignKept
<1>5. con.sample_time * RateTime \in Nat BY <1>1 DEF PidAssumption
<1>6. Quot(Int32(x), con.sample_time * RateTime) \in Int
  <2> HIDE DEF x
  <2> QED BY <1>4, <1>5, Word, Quotient
<1> QED BY <1>6 DEF Derivative

LEMMA LoadedType ==
  ASSUME NEW e \in Eeprom, PidAssumption
  PROVE  Loaded(e) \in Controllers
<1>1. e.lo + 2 * e.hi \in Words BY DEF Eeprom, Byte, Words
<1>2. \A w \in Words : w * Scale \in 0 .. MaxErr
  <2> TAKE w \in Words
  <2>1. w = 0 \/ w = 1 \/ w = 2 \/ w = 3 BY DEF Words
  <2> QED BY <2>1 DEF PidAssumption
<1>3. 0 \in 0 .. MaxSample /\ 0 \in 0 .. MaxErr BY DEF PidAssumption
<1> QED BY <1>1, <1>2, <1>3 DEF Loaded, Controllers, Eeprom, Byte, Words
-----------------------------------------------------------------------------
LEMMA PendingType == TypeOK => \A w \in Clients : Pending(w) \subseteq Fields
BY DEF TypeOK, Pending, Writes, Fields

LEMMA InitTyped == PidAssumption /\ Init => TypeOK
<1> SUFFICES ASSUME PidAssumption, Init PROVE TypeOK
  OBVIOUS
<1>1. eeprom \in Eeprom BY DEF Init, Eeprom, Byte, Words
<1>2. con \in Controllers BY <1>1, LoadedType DEF Init
<1>3. 0 \in -MaxErr .. MaxErr /\ 0 \in 0 .. MaxEvents BY DEF PidAssumption
<1>4. old_err \in -MaxErr .. MaxErr /\ err \in -MaxErr .. MaxErr /\ events \in 0 .. MaxEvents
  BY <1>3 DEF Init
<1>5. EEP_SetPoint \in Words /\ error_area \in Int /\ op \in Int /\ oi \in Int /\ asked \in Nat
  BY DEF Init, Words
<1>6. todo \in [Clients -> Seq(Writes)] BY DEF Init, Idle
<1>7. /\ Set_Flag \in BOOLEAN /\ overtaken \in BOOLEAN /\ stretched \in BOOLEAN
      /\ crossed \subseteq Fields /\ measured \in Inputs /\ pc = "sleep"
  BY Zenon DEF Init, PidAssumption
<1> QED BY <1>1, <1>2, <1>4, <1>5, <1>6, <1>7 DEF TypeOK

LEMMA Counted ==
  ASSUME PidAssumption, events \in 0 .. MaxEvents, events < MaxEvents
  PROVE  events + 1 \in 0 .. MaxEvents
BY DEF PidAssumption

(* The types are inductive by themselves. *)
LEMMA StepTyped == PidAssumption /\ TypeOK /\ [Next]_vars => TypeOK'
<1> SUFFICES ASSUME PidAssumption, TypeOK, [Next]_vars PROVE TypeOK'
  OBVIOUS
<1> USE DEF Saving
<1>1. CASE Restart
  <2>1. con' \in Controllers BY <1>1, LoadedType DEF Restart, TypeOK
  <2>2. eeprom.lo + 2 * eeprom.hi \in Words BY DEF TypeOK, Eeprom, Byte, Words
  <2>3. old_err' \in -MaxErr .. MaxErr /\ err' \in -MaxErr .. MaxErr
    BY <1>1 DEF Restart, PidAssumption
  <2>4. todo' \in [Clients -> Seq(Writes)] BY <1>1 DEF Restart, Idle
  <2>5. EEP_SetPoint' \in Words BY <1>1, <2>2 DEF Restart
  <2>6. /\ eeprom' \in Eeprom /\ measured' \in Inputs /\ pc' = "sleep" /\ Set_Flag' = FALSE
        /\ overtaken' = FALSE /\ stretched' = FALSE /\ crossed' = {}
    BY <1>1 DEF Restart, TypeOK
  <2>7. error_area' \in Int /\ op' \in Int /\ oi' \in Int /\ asked' \in Nat BY <1>1 DEF Restart
  <2>8. events' \in 0 .. MaxEvents BY <1>1, Counted DEF Restart, TypeOK
  <2> QED BY <2>1, <2>3, <2>4, <2>5, <2>6, <2>7, <2>8 DEF TypeOK
<1>2. CASE Turn
  <2>1. measured' \in Inputs /\ events' \in 0 .. MaxEvents
    <3>1. CASE UNCHANGED <<measured, events>> BY <3>1 DEF TypeOK
    <3>2. CASE /\ events < MaxEvents /\ events' = events + 1
               /\ measured' \in Inputs \ {measured}
      BY <3>2, Counted DEF TypeOK
    <3> QED BY <1>2, <3>1, <3>2 DEF Turn
  <2>2. con' \in Controllers BY <1>2, <2>1 DEF Turn, TypeOK, Controllers, PidAssumption
  <2> QED BY <1>2, <2>1, <2>2 DEF Turn, TypeOK, aux, setting, locals, history
<1>3. CASE TestFlag
  <2>1. \A w \in Clients : Pending(w) \subseteq Fields BY PendingType
  <2>2. crossed' \subseteq Fields BY <1>3, <2>1 DEF TestFlag, TypeOK
  <2> QED BY <1>3, <2>2 DEF TestFlag, TypeOK, aux, locals
<1>4. CASE Save
  <2>1. eeprom' \in Eeprom
    <3>1. con.action \in Byte /\ con.prop \in Words /\ con.reset \in Words
      BY DEF TypeOK, Controllers, Byte
    <3>2. Hi(EEP_SetPoint) \in Byte /\ Lo(EEP_SetPoint) \in Byte
      BY DEF TypeOK, Words, Hi, Lo, Byte
    <3> QED BY <1>4, <3>1, <3>2 DEF Save, Put, TypeOK, Eeprom
  <2>2. pc' \in {"saveSetpoint", "saveLo", "saveProp", "saveReset", "begin"} BY <1>4 DEF Save
  <2> QED BY <1>4, <2>1, <2>2 DEF Save, TypeOK, aux, locals, history
<1>5. CASE SaveSetpoint
  <2>1. con.setpoint \in Nat BY DEF TypeOK, Controllers
  <2>2. con.setpoint \div Scale \in Int BY <2>1 DEF PidAssumption
  <2>3. (con.setpoint \div Scale) % 4 \in Words BY <2>2 DEF Words
  <2> QED BY <1>5, <2>3 DEF SaveSetpoint, TypeOK, aux, locals, history
<1>6. CASE Test
  <2>1. con.input - con.setpoint \in -MaxErr .. MaxErr
    BY DEF TypeOK, Controllers, PidAssumption
  <2>2. Proportional(con.input - con.setpoint) \in Int BY <2>1, ProportionalType DEF PidAssumption
  <2>3. err' \in -MaxErr .. MaxErr /\ op' \in Int BY <1>6, <2>1, <2>2 DEF Test, TypeOK
  <2> QED BY <1>6, <2>3 DEF Test, TypeOK, aux, setting, history
<1>7. CASE Integral
  <2>1. error_area' \in Int BY <1>7, SumType, AreaType DEF Integral
  <2>2. con.reset * error_area' \in Int BY <2>1 DEF TypeOK, Controllers, Words
  <2>3. Int32(Signed(con.reset * error_area')) \in Int BY <2>2, SignKept, Word
  <2>4. oi' \in Int BY <1>7, <2>3, Quotient DEF Integral, PidAssumption
  <2> QED BY <1>7, <2>1, <2>4 DEF Integral, TypeOK, setting
<1>8. CASE Output
  <2> DEFINE out == Clamp(op + con.bias + Derivative)
  <2>1. op + con.bias + Derivative \in Int BY DerivativeType DEF TypeOK, Controllers
  <2>2. out \in Nat BY <2>1, Clamped
  <2>3. out + oi \in Int BY <2>2 DEF TypeOK
  <2>4. Clamp(out + oi) \in Nat BY <2>3, Clamped
  <2>5. (IF con.reset > 0 THEN Clamp(out + oi) ELSE out) \in Nat BY <2>2, <2>4
  <2>6. con' = [con EXCEPT !.value = IF con.reset > 0 THEN Clamp(out + oi) ELSE out]
    BY <1>8 DEF Output
  <2>7. con' \in Controllers BY <2>5, <2>6 DEF TypeOK, Controllers
  <2>8. old_err' \in -MaxErr .. MaxErr /\ err' \in -MaxErr .. MaxErr /\ op' \in Int /\ oi' \in Int
    BY <1>8 DEF Output, TypeOK, PidAssumption
  <2> QED BY <1>8, <2>7, <2>8 DEF Output, TypeOK, setting, history
<1>9. CASE BlockWrite
  <2>1. con' \in Controllers /\ asked' \in Nat
    BY <1>9 DEF BlockWrite, PidAssumption, Controllers
  <2> QED BY <1>9, <2>1 DEF BlockWrite, TypeOK, aux, locals
<1>10. ASSUME NEW w \in Clients, Register(w) PROVE TypeOK'
  <2>1. PICK v \in Values :
          \/ /\ con' = [con EXCEPT !.setpoint = v * Scale] /\ EEP_SetPoint' = v
             /\ todo' = [todo EXCEPT ![w] = <<W("lo", Lo(v)), W("hi", Hi(v))>>]
          \/ /\ \/ /\ con' = [con EXCEPT !.action = IF v > 0 THEN 1 ELSE 0]
                   /\ todo' = [todo EXCEPT ![w] = <<W("action", con'.action)>>]
                \/ con' = [con EXCEPT !.prop = v] /\ todo' = [todo EXCEPT ![w] = <<W("prop", v)>>]
                \/ con' = [con EXCEPT !.reset = v] /\ todo' = [todo EXCEPT ![w] = <<W("reset", v)>>]
             /\ UNCHANGED EEP_SetPoint
    BY <1>10 DEF Register
  <2>2. v \in Words BY DEF PidAssumption
  <2>3. v * Scale \in 0 .. MaxErr
    <3>1. v = 0 \/ v = 1 \/ v = 2 \/ v = 3 BY <2>2 DEF Words
    <3> QED BY <3>1 DEF PidAssumption
  <2>4. con' \in Controllers BY <2>1, <2>2, <2>3 DEF TypeOK, Controllers
  <2>5. EEP_SetPoint' \in Words BY <2>1, <2>2 DEF TypeOK
  <2>6. Lo(v) \in Byte /\ Hi(v) \in Byte BY <2>2 DEF Lo, Hi, Byte, Words
  <2>7. todo' \in [Clients -> Seq(Writes)]
    <3>1. W("lo", Lo(v)) \in Writes /\ W("hi", Hi(v)) \in Writes BY <2>6 DEF W, Writes
    <3>2. W("prop", v) \in Writes /\ W("reset", v) \in Writes BY <2>2 DEF W, Writes
    <3>3. W("action", con'.action) \in Writes BY <2>4 DEF W, Writes, Byte, Controllers
    <3>4. \A x \in Seq(Writes) : [todo EXCEPT ![w] = x] \in [Clients -> Seq(Writes)] BY DEF TypeOK
    <3>5. <<W("lo", Lo(v)), W("hi", Hi(v))>> \in Seq(Writes) BY <3>1
    <3>6. <<W("prop", v)>> \in Seq(Writes) /\ <<W("reset", v)>> \in Seq(Writes) BY <3>2
    <3>7. <<W("action", con'.action)>> \in Seq(Writes) BY <3>3
    <3> QED BY Zenon, <2>1, <3>4, <3>5, <3>6, <3>7
  <2>8. events' \in 0 .. MaxEvents BY <1>10, Counted DEF Register, TypeOK
  <2>9. crossed' \subseteq Fields
    <3>1. Pending(w)' \subseteq Fields BY <2>7 DEF Pending, Writes, Fields
    <3>2. crossed' \subseteq crossed \cup Pending(w)' BY <1>10 DEF Register
    <3> QED BY <3>1, <3>2 DEF TypeOK
  <2> QED BY <1>10, <2>4, <2>5, <2>7, <2>8, <2>9 DEF Register, TypeOK, aux, locals
<1>11. ASSUME NEW w \in Clients, Store(w) PROVE TypeOK'
  <2>1. todo[w] \in Seq(Writes) /\ todo[w] # <<>> BY <1>11 DEF Store, TypeOK
  <2>2. Head(todo[w]) \in Writes /\ Tail(todo[w]) \in Seq(Writes) BY <2>1
  <2>3. todo' \in [Clients -> Seq(Writes)] BY <1>11, <2>2 DEF Store, TypeOK
  <2>4. eeprom' = [eeprom EXCEPT ![Head(todo[w]).field] = Head(todo[w]).b] BY <1>11 DEF Store, Put
  <2>5. eeprom' \in Eeprom BY <2>2, <2>4 DEF TypeOK, Eeprom, Writes
  <2> QED BY <1>11, <2>3, <2>5 DEF Store, TypeOK, aux, locals, history
<1>13. CASE Begin
  <2>1. Sample \in 0 .. MaxSample BY DEF PidAssumption
  <2>2. con' \in Controllers BY <1>13, <2>1 DEF Begin, TypeOK, Controllers
  <2> QED BY <1>13, <2>2 DEF Begin, TypeOK, aux, setting, locals, history
<1>12. CASE UNCHANGED vars
  BY <1>12 DEF vars, aux, setting, locals, history, TypeOK
<1> QED
  BY <1>1, <1>2, <1>3, <1>4, <1>5, <1>6, <1>7, <1>8, <1>9, <1>10, <1>11, <1>12, <1>13 DEF Next, Task

(* The variables have their types. *)
THEOREM TypeCorrect == Spec => []TypeOK
<1>1. Init => TypeOK BY InitTyped, PidAssumption
<1>2. TypeOK /\ [Next]_vars => TypeOK' BY StepTyped, PidAssumption
<1> QED BY <1>1, <1>2, PTL DEF Spec
-----------------------------------------------------------------------------
(* Where the integral does not stop at a limit it was on the other side     *)
(* before, so that it is within one step of 0 then.                        *)
LEMMA CutOff ==
  ASSUME NEW s \in Int, NEW m \in Int, PidAssumption, TypeOK, AreaMax <= m,
         error_area - m <= s, s <= error_area + m
  PROVE  Area(s) \in -m .. m
<1>1. error_area \in Int BY DEF TypeOK
<1>2. AreaMax \in Nat BY DEF PidAssumption
<1>3. CASE error_area >= 0 /\ s > AreaMax
  BY <1>3, <1>2 DEF Area
<1>4. CASE error_area < 0 /\ s < -AreaMax
  <2>1. Area(s) = -AreaMax BY <1>4, <1>1 DEF Area
  <2> QED BY <2>1, <1>2
<1>5. CASE ~(error_area >= 0 /\ s > AreaMax) /\ ~(error_area < 0 /\ s < -AreaMax)
  <2>1. Area(s) = s BY <1>5 DEF Area
  <2>2. s <= m BY <1>5, <1>1, <1>2
  <2>3. -m <= s BY <1>5, <1>1, <1>2
  <2> QED BY <2>1, <2>2, <2>3
<1> QED BY <1>3, <1>4, <1>5

LEMMA Products ==
  ASSUME NEW a \in Int, NEW b \in Int, NEW c \in Nat, a <= b
  PROVE  a * c <= b * c /\ c * a <= c * b
OBVIOUS

(* What a sample time adds is at most what it adds to the bound.            *)
Factor == con.sample_time \div 2
Step == (old_err + err) * Factor

LEMMA Factors ==
  ASSUME PidAssumption, TypeOK
  PROVE  /\ Factor \in Nat /\ MaxSample \div 2 \in Nat /\ Factor <= MaxSample \div 2
         /\ Sample \div 2 = 1
<1>1. con.sample_time \in 0 .. MaxSample /\ MaxSample \in Nat BY DEF TypeOK, Controllers, PidAssumption
<1>2. Sample = 2 \/ Sample = 3 BY DEF PidAssumption
<1>3. Sample \div 2 = 1 BY <1>2
<1> QED BY <1>1, <1>3 DEF Factor

LEMMA Limits ==
  ASSUME PidAssumption, NEW t \in Int, t \div 2 \in Nat
  PROVE  /\ Most(t) \in Nat /\ AreaMax <= Most(t) /\ 2 * MaxErr * (t \div 2) <= Most(t)
         /\ Most(t) = AreaMax \/ Most(t) = 2 * MaxErr * (t \div 2)
<1> DEFINE f == t \div 2
<1>1. AreaMax \in Nat /\ MaxErr \in Nat BY DEF PidAssumption
<1>2. 2 * MaxErr * f \in Nat BY <1>1
<1>3. Most(t) = Larger(AreaMax, 2 * MaxErr * f) BY DEF Most
<1> HIDE DEF f
<1> QED BY <1>1, <1>2, <1>3 DEF Larger, f

LEMMA SampleLimit ==
  ASSUME PidAssumption, TypeOK
  PROVE  /\ Most(Sample) \in Nat /\ AreaMax <= Most(Sample) /\ 2 * MaxErr <= Most(Sample)
         /\ Most(MaxSample) \in Nat /\ Most(Sample) <= Most(MaxSample)
<1>1. Sample \in Int /\ MaxSample \in Int /\ MaxErr \in Nat BY DEF PidAssumption
<1>2. /\ Most(Sample) \in Nat /\ AreaMax <= Most(Sample) /\ 2 * MaxErr * 1 <= Most(Sample)
      /\ Most(Sample) = AreaMax \/ Most(Sample) = 2 * MaxErr * 1
  BY <1>1, Factors, Limits
<1>3. MaxSample \div 2 \in Nat /\ 1 <= MaxSample \div 2
  BY Factors DEF PidAssumption
<1>4. 2 * MaxErr * 1 <= 2 * MaxErr * (MaxSample \div 2)
  <2> DEFINE g == MaxSample \div 2
  <2>1. g \in Nat /\ 1 <= g /\ 2 * MaxErr \in Nat BY <1>1, <1>3
  <2> HIDE DEF g
  <2>2. 1 * (2 * MaxErr) <= g * (2 * MaxErr) BY <2>1, Products
  <2>3. 2 * MaxErr * 1 <= 2 * MaxErr * g BY <2>1, <2>2, <1>1
  <2> QED BY <2>3 DEF g
<1>5. /\ AreaMax <= Most(MaxSample) /\ 2 * MaxErr * (MaxSample \div 2) <= Most(MaxSample)
      /\ Most(MaxSample) \in Nat
  BY <1>1, <1>3, Limits
<1>6. Most(Sample) <= Most(MaxSample)
  <2> DEFINE n == 2 * MaxErr * (MaxSample \div 2)
             m == Most(MaxSample)
  <2>1. n \in Int BY <1>1, <1>3
  <2>2. n <= m /\ m \in Nat /\ 2 * MaxErr * 1 <= n /\ AreaMax <= m BY <1>4, <1>5
  <2>3. 2 * MaxErr * 1 \in Int BY <1>1
  <2> HIDE DEF n, m
  <2>4. 2 * MaxErr * 1 <= m BY <2>1, <2>2, <2>3
  <2> QED BY <1>2, <2>2, <2>4 DEF m
<1> QED BY <1>1, <1>2, <1>5, <1>6

LEMMA StepFits ==
  ASSUME PidAssumption, TypeOK
  PROVE  /\ Step \in Int /\ -Most(MaxSample) <= Step /\ Step <= Most(MaxSample)
         /\ Factor = 1 => -Most(Sample) <= Step /\ Step <= Most(Sample)
<1> DEFINE d == old_err + err
           g == MaxSample \div 2
           M == 2 * MaxErr
<1>1. /\ d \in Int /\ M \in Nat /\ -M <= d /\ d <= M
  BY DEF TypeOK, PidAssumption
<1>2. Factor \in Nat /\ g \in Nat /\ Factor <= g BY Factors
<1>3. /\ Most(MaxSample) \in Nat /\ M * g <= Most(MaxSample)
      /\ Most(Sample) \in Nat /\ M <= Most(Sample)
  <2>1. MaxSample \in Int BY DEF PidAssumption
  <2> QED BY <2>1, <1>2, Limits, SampleLimit
<1>4. Step = d * Factor BY DEF Step
<1> HIDE DEF d, g, M
<1>5. d * Factor <= M * Factor /\ (-M) * Factor <= d * Factor BY <1>1, <1>2, Products
<1>6. M * Factor <= M * g BY <1>1, <1>2, Products
<1>7. (-M) * Factor = -(M * Factor) /\ M * Factor \in Int /\ M * g \in Int /\ d * Factor \in Int
  BY <1>1, <1>2
<1>8. Factor = 1 => d * Factor = d BY <1>1
<1> QED BY <1>1, <1>3, <1>4, <1>5, <1>6, <1>7, <1>8

(* The sum is a word, and so what is added.                                 *)
Within ==
  /\ error_area \in -Most(MaxSample) .. Most(MaxSample)
  /\ ~stretched => error_area \in -Most(Sample) .. Most(Sample)

LEMMA SumFits ==
  ASSUME PidAssumption, ErrorsFit, TypeOK, Within
  PROVE  Sum = error_area + Step /\ error_area + Step \in Int
<1> DEFINE m == Most(MaxSample)
<1>1. m \in Nat BY SampleLimit
<1>2. Step \in Int /\ -m <= Step /\ Step <= m BY StepFits
<1>3. error_area \in Int /\ -m <= error_area /\ error_area <= m BY <1>1 DEF Within
<1>4. 2 * m < WordMax /\ WordMax \in Nat BY DEF ErrorsFit, PidAssumption
<1> HIDE DEF m
<1>5. /\ error_area + Step \in Int
      /\ -WordMax <= error_area + Step /\ error_area + Step < WordMax
  BY <1>1, <1>2, <1>3, <1>4
<1>6. Int32(error_area + Step) = error_area + Step BY <1>5, Word
<1> QED BY <1>5, <1>6 DEF Sum, Step, Factor

LEMMA AreaStays ==
  ASSUME PidAssumption, ErrorsFit, TypeOK, Within, Integral
  PROVE  Within'
<1>1. error_area' = Area(error_area + Step) /\ stretched' = (con.sample_time # Sample)
  BY SumFits DEF Integral
<1>2. /\ Step \in Int /\ -Most(MaxSample) <= Step /\ Step <= Most(MaxSample)
      /\ Factor = 1 => -Most(Sample) <= Step /\ Step <= Most(Sample)
  BY StepFits
<1>3. /\ Most(MaxSample) \in Int /\ AreaMax <= Most(MaxSample)
      /\ Most(Sample) \in Int /\ AreaMax <= Most(Sample) /\ AreaMax \in Int /\ error_area \in Int
  <2>1. AreaMax \in Int /\ error_area \in Int BY DEF PidAssumption, TypeOK
  <2> HIDE DEF Most
  <2> QED BY <2>1, SampleLimit
<1>4. Area(error_area + Step) \in -Most(MaxSample) .. Most(MaxSample)
  <2>1. /\ error_area + Step \in Int /\ error_area - Most(MaxSample) <= error_area + Step
        /\ error_area + Step <= error_area + Most(MaxSample)
    BY <1>2, <1>3
  <2> QED BY <2>1, <1>3, CutOff
<1>5. ASSUME con.sample_time = Sample PROVE Area(error_area + Step) \in -Most(Sample) .. Most(Sample)
  <2>1. Factor = 1 BY <1>5, Factors DEF Factor
  <2>2. /\ error_area + Step \in Int /\ error_area - Most(Sample) <= error_area + Step
        /\ error_area + Step <= error_area + Most(Sample)
    BY <2>1, <1>2, <1>3
  <2> QED BY <2>2, <1>3, CutOff
<1> QED BY <1>1, <1>4, <1>5 DEF Within, Most, Larger

LEMMA StepWithin ==
  PidAssumption /\ ErrorsFit /\ TypeOK /\ Within /\ [Next]_vars => Within'
<1> SUFFICES ASSUME PidAssumption, ErrorsFit, TypeOK, Within, [Next]_vars PROVE Within'
  OBVIOUS
<1>1. CASE Integral BY <1>1, AreaStays
<1>2. CASE Restart
  <2>1. Most(MaxSample) \in Nat /\ Most(Sample) \in Nat
    BY SampleLimit
  <2> QED BY <1>2, <2>1 DEF Restart, Within, Most, Larger
<1>3. CASE UNCHANGED <<error_area, stretched>>
  BY <1>3 DEF Within, Most, Larger
<1>4. Integral \/ Restart \/ UNCHANGED <<error_area, stretched>>
  BY Zenon DEF Next, Task, Turn, TestFlag, Save, SaveSetpoint, Begin, Test, Output, BlockWrite,
               Register, Store, vars, aux, history
<1> QED BY <1>1, <1>2, <1>3, <1>4

LEMMA ProductFits ==
  ASSUME PidAssumption, ErrorsFit, TypeOK, NEW a \in -Most(Sample) .. Most(Sample)
  PROVE  Int32(con.reset * a) = con.reset * a /\ Int32(-(con.reset * a)) = -(con.reset * a)
<1>1. con.reset \in Words BY DEF TypeOK, Controllers
<1>2. con.reset = 0 \/ con.reset = 1 \/ con.reset = 2 \/ con.reset = 3 BY <1>1 DEF Words
<1>3. Most(Sample) \in Nat /\ 3 * Most(Sample) < WordMax /\ WordMax \in Nat
  BY SampleLimit DEF ErrorsFit, PidAssumption
<1>4. /\ con.reset * a \in Int
      /\ -WordMax < con.reset * a /\ con.reset * a < WordMax
  BY <1>2, <1>3
<1>5. /\ -(con.reset * a) \in Int /\ -WordMax <= -(con.reset * a) /\ -(con.reset * a) < WordMax
      /\ -WordMax <= con.reset * a
  BY <1>3, <1>4
<1> QED BY <1>4, <1>5, Word

LEMMA AlwaysWithin == ASSUME ErrorsFit PROVE Spec => []Within
<1>1. Init => Within
  <2> SUFFICES ASSUME Init PROVE Within
    OBVIOUS
  <2>1. Most(MaxSample) \in Nat /\ Most(Sample) \in Nat
    BY InitTyped, PidAssumption, SampleLimit
  <2> QED BY <2>1 DEF Init, Within
<1>2. TypeOK /\ Within /\ [Next]_vars => Within' BY StepWithin, PidAssumption, ErrorsFit
<1> QED BY <1>1, <1>2, TypeCorrect, PTL DEF Spec

(* The error sum never passes the limit, or one step if that is more, on    *)
(* either side, although each side is only tested when it was there; and    *)
(* with the sample time of the task its product with the reset is a word.  *)
THEOREM AreaIsBounded == ASSUME ErrorsFit PROVE Spec => []AreaBounded
<1>1. TypeOK /\ Within => AreaBounded
  BY PidAssumption, ErrorsFit, ProductFits DEF Within, AreaBounded
<1> QED BY <1>1, AlwaysWithin, TypeCorrect, PTL
-----------------------------------------------------------------------------
(* The step that the argument for Unwinds repeats: as long as the errors    *)
(* are on one side the integral moves there, also where it is past a limit, *)
(* until it reaches the limit of that side; its share of the output has its *)
(* sign, heeding the action, and never takes the output to the other side   *)
(* of what the other terms ask for.  A sample time written in the middle   *)
(* may keep the integral where it is, but not move it the other way.       *)
MovesWithErrors ==
  /\ old_err + err > 0 => error_area' >= error_area \/ error_area' = AreaMax
  /\ old_err + err < 0 => error_area' <= error_area \/ error_area' = -AreaMax
  /\ con.sample_time = Sample =>
       /\ old_err + err > 0 => error_area' > error_area \/ error_area' = AreaMax
       /\ old_err + err < 0 => error_area' < error_area \/ error_area' = -AreaMax
       /\ Signed(error_area') >= 0 => oi' >= 0
       /\ Signed(error_area') <= 0 => oi' <= 0

Straightforward == Clamp(op + con.bias + Derivative)
AddsItsShare ==
  /\ oi >= 0 => con'.value >= Straightforward
  /\ oi <= 0 => con'.value <= Straightforward

GivesWay == (Integral => MovesWithErrors) /\ (Output => AddsItsShare)

LEMMA AreaMoves ==
  ASSUME PidAssumption, TypeOK, NEW d \in Int
  PROVE  /\ d >= 0 => Area(error_area + d) >= error_area \/ Area(error_area + d) = AreaMax
         /\ d <= 0 => Area(error_area + d) <= error_area \/ Area(error_area + d) = -AreaMax
         /\ d > 0 => Area(error_area + d) > error_area \/ Area(error_area + d) = AreaMax
         /\ d < 0 => Area(error_area + d) < error_area \/ Area(error_area + d) = -AreaMax
BY DEF Area, PidAssumption, TypeOK

LEMMA StepSign ==
  ASSUME PidAssumption, TypeOK
  PROVE  /\ old_err + err > 0 => Step >= 0
         /\ old_err + err < 0 => Step <= 0
         /\ con.sample_time = Sample => Step = old_err + err
<1> DEFINE d == old_err + err
<1>1. d \in Int /\ Factor \in Nat BY Factors DEF TypeOK, PidAssumption
<1>2. con.sample_time = Sample => Factor = 1 BY Factors DEF Factor
<1>3. Step = d * Factor BY DEF Step
<1> HIDE DEF d
<1>4. d > 0 => 0 * Factor <= d * Factor BY <1>1, Products
<1>5. d < 0 => d * Factor <= 0 * Factor BY <1>1, Products
<1>6. 0 * Factor = 0 /\ d * 1 = d BY <1>1
<1>7. (d > 0 => Step >= 0) /\ (d < 0 => Step <= 0) BY <1>1, <1>3, <1>4, <1>5, <1>6
<1>8. con.sample_time = Sample => Step = d BY <1>2, <1>3, <1>6
<1> QED BY <1>7, <1>8 DEF d

LEMMA QuotientSign ==
  ASSUME NEW a \in Int, NEW b \in Nat \ {0}
  PROVE  (a >= 0 => Quot(a, b) >= 0) /\ (a <= 0 => Quot(a, b) <= 0)
<1>1. CASE a >= 0
  <2>1. a \div b >= 0 BY <1>1
  <2>2. a = 0 => a \div b = 0 OBVIOUS
  <2> QED BY <1>1, <2>1, <2>2 DEF Quot
<1>2. CASE a < 0
  <2>1. (-a) \div b >= 0 /\ (-a) \div b \in Int BY <1>2
  <2> QED BY <1>2, <2>1 DEF Quot
<1> QED BY <1>1, <1>2

LEMMA ProductSign ==
  ASSUME NEW a \in Int, NEW w \in Words
  PROVE  w * a \in Int /\ (a >= 0 => w * a >= 0) /\ (a <= 0 => w * a <= 0)
<1>1. w = 0 \/ w = 1 \/ w = 2 \/ w = 3 BY DEF Words
<1> QED BY <1>1

LEMMA IntegralMoves ==
  PidAssumption /\ ErrorsFit /\ TypeOK /\ Within /\ Within' /\ Integral => MovesWithErrors
<1> SUFFICES ASSUME PidAssumption, ErrorsFit, TypeOK, Within, Within', Integral PROVE MovesWithErrors
  OBVIOUS
<1> DEFINE a == error_area'
           p == con.reset * a
<1>1. a = Area(error_area + Step) /\ Step \in Int BY SumFits, StepFits DEF Integral
<1>2. /\ Step >= 0 => a >= error_area \/ a = AreaMax
      /\ Step <= 0 => a <= error_area \/ a = -AreaMax
      /\ Step > 0 => a > error_area \/ a = AreaMax
      /\ Step < 0 => a < error_area \/ a = -AreaMax
  <2> HIDE DEF a
  <2> QED BY <1>1, AreaMoves
<1>3. ASSUME con.sample_time = Sample
      PROVE  (Signed(a) >= 0 => oi' >= 0) /\ (Signed(a) <= 0 => oi' <= 0)
  <2>1. a \in -Most(Sample) .. Most(Sample) BY <1>3 DEF Integral, Within, Most, Larger
  <2>2. a \in Int BY <2>1, SampleLimit
  <2>3. oi' = Quot(Int32(Signed(p)), ResetTime) BY DEF Integral
  <2>4. Int32(Signed(p)) = Signed(p)
    <3> HIDE DEF a
    <3>1. Int32(p) = p /\ Int32(-p) = -p BY <2>1, ProductFits
    <3> QED BY <3>1 DEF Signed
  <2>5. con.reset \in Words BY DEF TypeOK, Controllers
  <2>6. p \in Int /\ (a >= 0 => p >= 0) /\ (a <= 0 => p <= 0)
    <3> HIDE DEF a
    <3> QED BY <2>2, <2>5, ProductSign
  <2>7. /\ Signed(p) \in Int
        /\ (Signed(a) >= 0 => Signed(p) >= 0) /\ (Signed(a) <= 0 => Signed(p) <= 0)
    <3> HIDE DEF a, p
    <3>1. CASE con.action > 0 BY <2>2, <2>6, <3>1 DEF Signed
    <3>2. CASE ~(con.action > 0) BY <2>2, <2>6, <3>2 DEF Signed
    <3> QED BY <3>1, <3>2
  <2>8. ResetTime \in Nat \ {0} BY DEF PidAssumption
  <2> HIDE DEF a, p
  <2> QED BY <2>3, <2>4, <2>7, <2>8, QuotientSign
<1> HIDE DEF a
<1>4. /\ old_err + err > 0 => a >= error_area \/ a = AreaMax
      /\ old_err + err < 0 => a <= error_area \/ a = -AreaMax
  BY <1>2, StepSign
<1>5. con.sample_time = Sample =>
        /\ old_err + err > 0 => a > error_area \/ a = AreaMax
        /\ old_err + err < 0 => a < error_area \/ a = -AreaMax
  BY <1>2, StepSign
<1> QED BY <1>3, <1>4, <1>5 DEF MovesWithErrors, a

LEMMA OutputAdds == PidAssumption /\ TypeOK /\ Output => AddsItsShare
<1> SUFFICES ASSUME PidAssumption, TypeOK, Output PROVE AddsItsShare
  OBVIOUS
<1> DEFINE out == Straightforward
<1>1. op + con.bias + Derivative \in Int
  BY DerivativeType DEF TypeOK, Controllers
<1>2. out \in 0 .. OutMax BY <1>1 DEF Straightforward, Clamp, PidAssumption
<1>3. con'.value = IF con.reset > 0 THEN Clamp(out + oi) ELSE out
  BY DEF Output, Straightforward, TypeOK, Controllers
<1>4. oi \in Int /\ OutMax \in Nat BY DEF TypeOK, PidAssumption
<1> HIDE DEF out
<1>5. /\ oi >= 0 => Clamp(out + oi) >= out
      /\ oi <= 0 => Clamp(out + oi) <= out
  BY <1>2, <1>4 DEF Clamp
<1>6. (oi >= 0 => con'.value >= out) /\ (oi <= 0 => con'.value <= out)
  BY <1>2, <1>3, <1>4, <1>5
<1> QED BY <1>6 DEF AddsItsShare, out

(* An integral on the wrong side gives way to errors on the other, sample   *)
(* by sample and from wherever it is, and then never works against them.   *)
THEOREM IntegralGivesWay == ASSUME ErrorsFit PROVE Spec => [][GivesWay]_vars
<1>1. TypeOK /\ Within /\ Within' /\ [Next]_vars => [GivesWay]_vars
  BY PidAssumption, ErrorsFit, IntegralMoves, OutputAdds DEF GivesWay
<1> QED BY <1>1, AlwaysWithin, TypeCorrect, PTL DEF Spec
-----------------------------------------------------------------------------
(* A computation that ends under a manual setting began before that came.   *)
Computing == pc \in {"integral", "output"} /\ con.auto_manual = 1 => overtaken
Manual == ManualHolds /\ Computing

LEMMA InitManual == Init => Manual
BY DEF Init, Manual, ManualHolds, Computing, Loaded

LEMMA StepManual == TypeOK /\ Manual /\ [Next]_vars => Manual'
<1> SUFFICES ASSUME TypeOK, Manual, [Next]_vars PROVE Manual'
  OBVIOUS
<1> USE DEF Manual, ManualHolds, Computing
<1>1. CASE Restart
  BY <1>1 DEF Restart, Loaded
<1>2. CASE Turn
  <2>1. con'.auto_manual = con.auto_manual /\ con'.value = con.value
    BY <1>2 DEF Turn, TypeOK, Controllers
  <2> QED BY <1>2, <2>1 DEF Turn, history
<1>3. CASE TestFlag
  BY <1>3 DEF TestFlag
<1>4. CASE Save
  BY <1>4 DEF Save, history
<1>5. CASE SaveSetpoint
  BY <1>5 DEF SaveSetpoint, history
<1>6. CASE Test
  BY <1>6 DEF Test, history
<1>7. CASE Integral
  BY <1>7 DEF Integral, history
<1>8. CASE Output
  <2>1. con'.auto_manual = con.auto_manual BY <1>8 DEF Output, TypeOK, Controllers
  <2>2. con.auto_manual = 1 => overtaken BY <1>8 DEF Output
  <2> QED BY <1>8, <2>1, <2>2 DEF Output, history
<1>9. CASE BlockWrite
  <2>1. con'.value = asked' BY <1>9 DEF BlockWrite
  <2>2. pc' \in {"integral", "output"} => overtaken' BY <1>9 DEF BlockWrite
  <2> QED BY <2>1, <2>2
<1>10. ASSUME NEW w \in Clients, Register(w) PROVE Manual'
  <2>1. con'.auto_manual = con.auto_manual /\ con'.value = con.value
    BY <1>10 DEF Register, TypeOK, Controllers
  <2> QED BY <1>10, <2>1 DEF Register
<1>11. ASSUME NEW w \in Clients, Store(w) PROVE Manual'
  BY <1>11 DEF Store, history
<1>13. CASE Begin
  <2>1. con'.auto_manual = con.auto_manual /\ con'.value = con.value
    BY <1>13 DEF Begin, TypeOK, Controllers
  <2> QED BY <1>13, <2>1 DEF Begin, history
<1>12. CASE UNCHANGED vars
  BY <1>12 DEF vars, history
<1> QED
  BY <1>1, <1>2, <1>3, <1>4, <1>5, <1>6, <1>7, <1>8, <1>9, <1>10, <1>11, <1>12, <1>13 DEF Next, Task

(* A manual output stays as written, unless it came during a computation.   *)
THEOREM ManualIsHeld == Spec => []ManualHolds
<1>1. Init => Manual BY InitManual
<1>2. TypeOK /\ Manual /\ [Next]_vars => Manual' BY StepManual
<1>3. Manual => ManualHolds BY DEF Manual
<1> QED BY <1>1, <1>2, <1>3, TypeCorrect, PTL DEF Spec
-----------------------------------------------------------------------------
(* A field that only one has written at a time is in the EEPROM, or about   *)
(* to be: a handler still has to store it, or the task, which holds the     *)
(* setpoint as it was written.                                             *)
Due(p) ==
  IF p = "saveAction" THEN Fields
  ELSE IF p \in {"saveSetpoint", "saveHi"} THEN {"lo", "hi", "prop", "reset"}
  ELSE IF p = "saveLo" THEN {"lo", "prop", "reset"}
  ELSE IF p = "saveProp" THEN {"prop", "reset"}
  ELSE IF p = "saveReset" THEN {"reset"} ELSE {}

Ordered(f) == \A w \in Clients : \A i \in DOMAIN todo[w] : todo[w][i].field = f => todo[w][i].b = Stored[f]
Alone(f)   == pc \in Saving => \A w \in Clients : f \notin Pending(w)
Split(f)   == pc \in {"saveHi", "saveLo"} => /\ f = "lo" => Lo(EEP_SetPoint) = Stored[f]
                                             /\ f = "hi" => Hi(EEP_SetPoint) = Stored[f]
Safe(f)    == eeprom[f] = Stored[f] \/ f \in Due(pc) \/ \E w \in Clients : f \in Pending(w)

Tended(f) == Ordered(f) /\ Alone(f) /\ Split(f) /\ Safe(f)
SavedInv  == ~Set_Flag => \A f \in Fields \ crossed : Tended(f)

LEMMA Unscaled ==
  ASSUME NEW w \in Words, PidAssumption
  PROVE  (w * Scale) \div Scale = w
<1>1. Scale \in Nat \ {0} BY DEF PidAssumption
<1>2. (0 * Scale) \div Scale = 0 /\ (1 * Scale) \div Scale = 1 /\ (2 * Scale) \div Scale = 2
      /\ (3 * Scale) \div Scale = 3
  BY <1>1, SMTT(60)
<1> QED BY <1>2 DEF Words

LEMMA LastBits == \A n \in Nat : Lo(n % 4) = Lo(n) /\ Hi(n % 4) = Hi(n)
BY SMT DEF Lo, Hi

LEMMA Halves == \A a \in Byte, b \in Byte : /\ a + 2 * b \in Words
                                           /\ Lo(a + 2 * b) = a /\ Hi(a + 2 * b) = b
BY SMT DEF Lo, Hi, Byte, Words

(* What was just loaded is what is stored. *)
LEMMA LoadedIsStored ==
  ASSUME PidAssumption, eeprom \in Eeprom, con = Loaded(eeprom)
  PROVE  \A f \in Fields : eeprom[f] = Stored[f]
<1>1. eeprom.lo \in Byte /\ eeprom.hi \in Byte BY DEF Eeprom
<1>2. (con.setpoint) \div Scale = eeprom.lo + 2 * eeprom.hi
  <2>1. con.setpoint = (eeprom.lo + 2 * eeprom.hi) * Scale BY DEF Loaded
  <2>2. eeprom.lo + 2 * eeprom.hi \in Words BY <1>1, Halves
  <2> QED BY <2>1, <2>2, Unscaled
<1>3. Stored.lo = eeprom.lo /\ Stored.hi = eeprom.hi BY <1>1, <1>2, Halves DEF Stored
<1>4. Stored.action = eeprom.action /\ Stored.prop = eeprom.prop /\ Stored.reset = eeprom.reset
  BY DEF Stored, Loaded
<1> QED BY <1>3, <1>4 DEF Fields

LEMMA InitSaved == PidAssumption /\ Init => SavedInv
<1> SUFFICES ASSUME PidAssumption, Init PROVE SavedInv
  OBVIOUS
<1>1. eeprom \in Eeprom BY DEF Init, Eeprom, Byte, Words
<1>2. con = Loaded(eeprom) /\ todo = Idle /\ pc = "sleep" BY DEF Init
<1> QED
  BY <1>1, <1>2, LoadedIsStored
  DEF SavedInv, Tended, Ordered, Alone, Split, Safe, Saving, Idle

(* The steps that neither store nor change a setting. *)
LEMMA SavedKept ==
  ASSUME SavedInv, UNCHANGED <<eeprom, todo, EEP_SetPoint, Set_Flag, crossed>>, Stored' = Stored,
         pc' = pc \/ (pc \notin Saving /\ pc' \notin Saving)
  PROVE  SavedInv'
<1>1. Due(pc') = Due(pc) BY DEF Due, Saving
<1>2. pc' \in Saving => pc \in Saving OBVIOUS
<1>3. pc' \in {"saveHi", "saveLo"} => pc = pc' BY DEF Saving
<1> QED
  BY <1>1, <1>2, <1>3 DEF SavedInv, Tended, Ordered, Alone, Split, Safe, Pending

(* A save begins when the flag is found set; all is due. *)
LEMMA SavedTestFlag ==
  ASSUME TypeOK, SavedInv, TestFlag
  PROVE  SavedInv'
<1>1. UNCHANGED <<eeprom, todo, EEP_SetPoint, con>> /\ pc = "flag" /\ Set_Flag' = FALSE
  BY DEF TestFlag
<1>2. Stored' = Stored /\ \A w \in Clients : Pending(w)' = Pending(w)
  BY <1>1 DEF Stored, Pending
<1>3. CASE Set_Flag
  <2> SUFFICES ASSUME NEW f \in Fields \ crossed' PROVE Tended(f)'
    BY DEF SavedInv
  <2>1. pc' = "saveAction" /\ crossed' = UNION {Pending(w) : w \in Clients}
    BY <1>3 DEF TestFlag
  <2>2. \A w \in Clients : f \notin Pending(w)' BY <1>2, <2>1
  <2>3. f \in Due(pc') BY <2>1 DEF Due
  <2>4. Ordered(f)' BY <2>2 DEF Ordered, Pending
  <2> QED BY <2>1, <2>2, <2>3, <2>4 DEF Tended, Alone, Split, Safe
<1>4. CASE ~Set_Flag
  <2>1. pc' = "begin" /\ crossed' = crossed BY <1>4 DEF TestFlag
  <2>2. Set_Flag' = Set_Flag BY <1>1, <1>4 DEF TypeOK
  <2> QED BY <1>1, <1>2, <2>1, <2>2, SavedKept DEF Saving
<1> QED BY <1>3, <1>4

LEMMA SavedSave ==
  ASSUME TypeOK, SavedInv, Save
  PROVE  SavedInv'
<1>1. UNCHANGED <<todo, EEP_SetPoint, Set_Flag, crossed, con>> BY DEF Save, history
<1> SUFFICES ASSUME ~Set_Flag', NEW f \in Fields \ crossed' PROVE Tended(f)'
  BY DEF SavedInv
<1>2. Tended(f) /\ f \in Fields BY <1>1 DEF SavedInv
<1>3. pc \in Saving BY DEF Save, Saving
<1>4. Stored' = Stored /\ \A w \in Clients : Pending(w)' = Pending(w)
  BY <1>1 DEF Stored, Pending
<1>5. \A w \in Clients : f \notin Pending(w) BY <1>2, <1>3 DEF Tended, Alone
<1>6. eeprom[f] = Stored[f] \/ f \in Due(pc) BY <1>2, <1>5 DEF Tended, Safe
<1>7. DOMAIN eeprom = Fields BY DEF TypeOK, Eeprom, Fields
<1>8. eeprom'[f] = Stored[f] \/ f \in Due(pc')
  <2>1. CASE pc = "saveAction"
    BY <2>1, <1>2, <1>6, <1>7 DEF Save, Put, Stored, Fields, Due
  <2>2. CASE pc = "saveHi"
    <3>1. f = "hi" => Hi(EEP_SetPoint) = Stored[f] BY <2>2, <1>2 DEF Tended, Split
    <3> QED BY <2>2, <3>1, <1>2, <1>6, <1>7 DEF Save, Put, Fields, Due
  <2>3. CASE pc = "saveLo"
    <3>1. f = "lo" => Lo(EEP_SetPoint) = Stored[f] BY <2>3, <1>2 DEF Tended, Split
    <3> QED BY <2>3, <3>1, <1>2, <1>6, <1>7 DEF Save, Put, Fields, Due
  <2>4. CASE pc = "saveProp"
    BY <2>4, <1>2, <1>6, <1>7 DEF Save, Put, Stored, Fields, Due
  <2>5. CASE pc = "saveReset"
    BY <2>5, <1>2, <1>6, <1>7 DEF Save, Put, Stored, Fields, Due
  <2> QED BY <2>1, <2>2, <2>3, <2>4, <2>5 DEF Save
<1>9. Ordered(f)' BY <1>1, <1>2, <1>4 DEF Tended, Ordered
<1>10. Split(f)'
  <2>1. pc' \in {"saveHi", "saveLo"} => pc = "saveHi" BY DEF Save
  <2> QED BY <2>1, <1>1, <1>2, <1>4 DEF Tended, Split
<1> QED BY <1>4, <1>5, <1>8, <1>9, <1>10 DEF Tended, Alone, Safe

LEMMA SavedSetpoint ==
  ASSUME PidAssumption, TypeOK, SavedInv, SaveSetpoint
  PROVE  SavedInv'
<1>1. UNCHANGED <<todo, Set_Flag, crossed, con, eeprom>> /\ pc = "saveSetpoint" /\ pc' = "saveHi"
      /\ EEP_SetPoint' = (con.setpoint \div Scale) % 4
  BY DEF SaveSetpoint, history
<1>2. con.setpoint \div Scale \in Nat
  <2>1. con.setpoint \in Nat /\ Scale \in Nat \ {0} BY DEF TypeOK, Controllers, PidAssumption
  <2> QED BY <2>1
<1>3. Lo(EEP_SetPoint') = Stored["lo"] /\ Hi(EEP_SetPoint') = Stored["hi"]
  BY <1>1, <1>2, LastBits DEF Stored
<1>4. Stored' = Stored /\ \A w \in Clients : Pending(w)' = Pending(w)
  BY <1>1 DEF Stored, Pending
<1>5. Due(pc') = Due(pc) /\ pc \in Saving BY <1>1 DEF Due, Saving
<1>6. Lo(EEP_SetPoint)' = Lo(EEP_SetPoint') /\ Hi(EEP_SetPoint)' = Hi(EEP_SetPoint')
  BY DEF Lo, Hi
<1> SUFFICES ASSUME ~Set_Flag', NEW f \in Fields \ crossed' PROVE Tended(f)'
  BY DEF SavedInv
<1>7. Tended(f) BY <1>1 DEF SavedInv
<1>8. Split(f)' BY <1>3, <1>4, <1>6 DEF Split
<1> QED BY <1>1, <1>4, <1>5, <1>7, <1>8 DEF Tended, Ordered, Alone, Safe

(* A handler orders what it has just set, for its own fields only. *)
LEMMA RegisterOrders ==
  ASSUME PidAssumption, TypeOK, NEW w \in Clients, Register(w)
  PROVE  /\ \A i \in DOMAIN todo'[w] : todo'[w][i].b = Stored'[todo'[w][i].field]
         /\ \A f \in Fields \ Pending(w)' : Stored'[f] = Stored[f]
         /\ UNCHANGED EEP_SetPoint \/ {"lo", "hi"} \subseteq Pending(w)'
         /\ \A c \in Clients \ {w} : todo'[c] = todo[c]
<1>1. PICK v \in Values :
       \/ /\ con' = [con EXCEPT !.setpoint = v * Scale]
          /\ todo' = [todo EXCEPT ![w] = <<W("lo", Lo(v)), W("hi", Hi(v))>>]
       \/ /\ \/ /\ con' = [con EXCEPT !.action = IF v > 0 THEN 1 ELSE 0]
                /\ todo' = [todo EXCEPT ![w] = <<W("action", con'.action)>>]
             \/ con' = [con EXCEPT !.prop = v] /\ todo' = [todo EXCEPT ![w] = <<W("prop", v)>>]
             \/ con' = [con EXCEPT !.reset = v] /\ todo' = [todo EXCEPT ![w] = <<W("reset", v)>>]
          /\ UNCHANGED EEP_SetPoint
  BY DEF Register
<1>2. v \in Words /\ con \in Controllers /\ todo \in [Clients -> Seq(Writes)]
  BY DEF TypeOK, PidAssumption
<1>3. \A x \in Seq(Writes), c \in Clients :
        [todo EXCEPT ![w] = x][w] = x /\ (c # w => [todo EXCEPT ![w] = x][c] = todo[c])
  BY <1>2
<1>4. \A c \in Clients \ {w} : todo'[c] = todo[c] BY <1>1, <1>2
<1>5. Pending(w)' = {todo'[w][i].field : i \in DOMAIN todo'[w]} BY DEF Pending
<1>6. CASE /\ con' = [con EXCEPT !.setpoint = v * Scale]
           /\ todo' = [todo EXCEPT ![w] = <<W("lo", Lo(v)), W("hi", Hi(v))>>]
  <2>1. con'.setpoint \div Scale = v BY <1>6, <1>2, Unscaled DEF Controllers
  <2>2. Stored'["lo"] = Lo(v) /\ Stored'["hi"] = Hi(v) BY <2>1 DEF Stored, Lo, Hi
  <2>3. /\ Stored'["action"] = Stored["action"] /\ Stored'["prop"] = Stored["prop"]
        /\ Stored'["reset"] = Stored["reset"]
    BY <1>6, <1>2 DEF Stored, Controllers
  <2>4. todo'[w] = <<W("lo", Lo(v)), W("hi", Hi(v))>> BY <1>6, <1>2
  <2>5. DOMAIN todo'[w] = 1 .. 2 /\ todo'[w][1] = W("lo", Lo(v)) /\ todo'[w][2] = W("hi", Hi(v))
    BY <2>4
  <2>6. \A i \in DOMAIN todo'[w] : todo'[w][i].b = Stored'[todo'[w][i].field] BY <2>2, <2>5 DEF W
  <2>7. "lo" \in Pending(w)' /\ "hi" \in Pending(w)' BY <1>5, <2>5 DEF W
  <2> QED BY <1>4, <2>3, <2>6, <2>7 DEF Fields
<1>7. ASSUME NEW g \in Fields, NEW b, Stored' = [Stored EXCEPT ![g] = b],
             todo' = [todo EXCEPT ![w] = <<W(g, b)>>], UNCHANGED EEP_SetPoint
      PROVE  /\ \A i \in DOMAIN todo'[w] : todo'[w][i].b = Stored'[todo'[w][i].field]
             /\ \A f \in Fields \ Pending(w)' : Stored'[f] = Stored[f]
             /\ UNCHANGED EEP_SetPoint
  <2>1. DOMAIN Stored = Fields BY DEF Stored, Fields
  <2>2. DOMAIN todo'[w] = 1 .. 1 /\ todo'[w][1] = W(g, b) BY <1>7, <1>2
  <2>3. Stored'[g] = b /\ \A f \in Fields \ {g} : Stored'[f] = Stored[f] BY <1>7, <2>1
  <2>4. g \in Pending(w)' BY <1>5, <2>2 DEF W
  <2> QED BY <1>7, <2>2, <2>3, <2>4 DEF W
<1>8. CASE /\ con' = [con EXCEPT !.action = IF v > 0 THEN 1 ELSE 0] /\ UNCHANGED EEP_SetPoint
           /\ todo' = [todo EXCEPT ![w] = <<W("action", con'.action)>>]
  <2>1. con'.setpoint = con.setpoint /\ con'.prop = con.prop /\ con'.reset = con.reset
    BY <1>8, <1>2 DEF Controllers
  <2>2. Stored' = [Stored EXCEPT !["action"] = con'.action] BY <2>1 DEF Stored, Lo, Hi
  <2> QED BY <2>2, <1>4, <1>7, <1>8 DEF Fields
<1>9. CASE /\ con' = [con EXCEPT !.prop = v] /\ UNCHANGED EEP_SetPoint
           /\ todo' = [todo EXCEPT ![w] = <<W("prop", v)>>]
  <2>1. /\ con'.setpoint = con.setpoint /\ con'.action = con.action /\ con'.reset = con.reset
        /\ con'.prop = v
    BY <1>9, <1>2 DEF Controllers
  <2>2. Stored' = [Stored EXCEPT !["prop"] = v] BY <2>1 DEF Stored, Lo, Hi
  <2> QED BY <2>2, <1>4, <1>7, <1>9 DEF Fields
<1>10. CASE /\ con' = [con EXCEPT !.reset = v] /\ UNCHANGED EEP_SetPoint
            /\ todo' = [todo EXCEPT ![w] = <<W("reset", v)>>]
  <2>1. /\ con'.setpoint = con.setpoint /\ con'.action = con.action /\ con'.prop = con.prop
        /\ con'.reset = v
    BY <1>10, <1>2 DEF Controllers
  <2>2. Stored' = [Stored EXCEPT !["reset"] = v] BY <2>1 DEF Stored, Lo, Hi
  <2> QED BY <2>2, <1>4, <1>7, <1>10 DEF Fields
<1> QED BY Zenon, <1>1, <1>6, <1>8, <1>9, <1>10

LEMMA SavedRegister ==
  ASSUME PidAssumption, TypeOK, SavedInv, NEW w \in Clients, Register(w)
  PROVE  SavedInv'
<1>1. todo[w] = <<>> /\ UNCHANGED <<Set_Flag, eeprom, pc>> BY DEF Register
<1>2. crossed' = (crossed \ Pending(w)')
                  \cup {f \in Pending(w)' : pc \in Saving \/ \E c \in Clients \ {w} : f \in Pending(c)}
  BY DEF Register
<1>3. /\ \A i \in DOMAIN todo'[w] : todo'[w][i].b = Stored'[todo'[w][i].field]
      /\ \A f \in Fields \ Pending(w)' : Stored'[f] = Stored[f]
      /\ UNCHANGED EEP_SetPoint \/ {"lo", "hi"} \subseteq Pending(w)'
      /\ \A c \in Clients \ {w} : todo'[c] = todo[c]
  BY RegisterOrders
<1>4. \A c \in Clients \ {w} : Pending(c)' = Pending(c) BY <1>3 DEF Pending
<1>5. Pending(w) = {} BY <1>1 DEF Pending
<1> SUFFICES ASSUME ~Set_Flag', NEW f \in Fields \ crossed' PROVE Tended(f)'
  BY DEF SavedInv
<1>6. CASE f \in Pending(w)'
  <2>1. pc \notin Saving /\ \A c \in Clients \ {w} : f \notin Pending(c) BY <1>2, <1>6
  <2>2. \A c \in Clients \ {w} : f \notin Pending(c)' BY <1>4, <2>1
  <2>3. Ordered(f)'
    <3> SUFFICES ASSUME NEW c \in Clients, NEW i \in DOMAIN todo'[c], todo'[c][i].field = f
                 PROVE  todo'[c][i].b = Stored'[f]
      BY DEF Ordered
    <3>1. f \in Pending(c)' BY DEF Pending
    <3>2. c = w BY <2>2, <3>1
    <3> QED BY <1>3, <3>2
  <2>4. Alone(f)' /\ Split(f)' BY <1>1, <2>1 DEF Alone, Split, Saving
  <2>5. Safe(f)' BY <1>6 DEF Safe
  <2> QED BY <2>3, <2>4, <2>5 DEF Tended
<1>7. CASE f \notin Pending(w)'
  <2>1. f \notin crossed BY <1>2, <1>7
  <2>2. Tended(f) BY <1>1, <2>1 DEF SavedInv
  <2>3. Stored'[f] = Stored[f] BY <1>3, <1>7
  <2>4. Ordered(f)'
    <3> SUFFICES ASSUME NEW c \in Clients, NEW i \in DOMAIN todo'[c], todo'[c][i].field = f
                 PROVE  todo'[c][i].b = Stored'[f]
      BY DEF Ordered
    <3>1. f \in Pending(c)' BY DEF Pending
    <3>2. c # w BY <1>7, <3>1
    <3>3. todo'[c] = todo[c] BY <1>3, <3>2
    <3> QED BY <2>2, <2>3, <3>3 DEF Tended, Ordered
  <2>5. \A c \in Clients : f \in Pending(c)' <=> f \in Pending(c) BY <1>4, <1>5, <1>7
  <2>6. Alone(f)' BY <1>1, <2>2, <2>5 DEF Tended, Alone
  <2>7. Split(f)'
    <3>1. f \in {"lo", "hi"} => EEP_SetPoint' = EEP_SetPoint BY <1>3, <1>7
    <3> QED BY <1>1, <2>2, <2>3, <3>1 DEF Tended, Split, Lo, Hi
  <2>8. Safe(f)' BY <1>1, <2>2, <2>3, <2>5 DEF Tended, Safe
  <2> QED BY <2>4, <2>6, <2>7, <2>8 DEF Tended
<1> QED BY <1>6, <1>7

LEMMA SavedStore ==
  ASSUME TypeOK, SavedInv, NEW w \in Clients, Store(w)
  PROVE  SavedInv'
<1>1. /\ UNCHANGED <<EEP_SetPoint, Set_Flag, crossed, con, pc>> /\ todo[w] # <<>>
      /\ todo' = [todo EXCEPT ![w] = Tail(todo[w])]
      /\ eeprom' = [eeprom EXCEPT ![Head(todo[w]).field] = Head(todo[w]).b]
  BY DEF Store, history, Put
<1>2. todo \in [Clients -> Seq(Writes)] /\ DOMAIN eeprom = Fields BY DEF TypeOK, Eeprom, Fields
<1>3. Stored' = Stored BY <1>1 DEF Stored
<1>4. /\ Head(todo[w]) = todo[w][1] /\ 1 \in DOMAIN todo[w] /\ todo[w][1].field \in Fields
      /\ todo'[w] = Tail(todo[w]) /\ \A c \in Clients \ {w} : todo'[c] = todo[c]
  <2>1. todo[w] \in Seq(Writes) /\ todo[w] # <<>> BY <1>1, <1>2
  <2>2. Head(todo[w]) = todo[w][1] /\ 1 \in DOMAIN todo[w] /\ todo[w][1] \in Writes BY <2>1
  <2> QED BY <1>1, <1>2, <2>2 DEF Writes, Fields
<1>5. \A i \in DOMAIN todo'[w] : i + 1 \in DOMAIN todo[w] /\ todo'[w][i] = todo[w][i + 1]
  <2>1. todo[w] \in Seq(Writes) /\ todo[w] # <<>> BY <1>1, <1>2
  <2> QED BY <2>1, <1>4
<1>6. \A i \in DOMAIN todo[w] : i # 1 => i - 1 \in DOMAIN todo'[w] /\ todo'[w][i - 1] = todo[w][i]
  <2>1. todo[w] \in Seq(Writes) /\ todo[w] # <<>> BY <1>1, <1>2
  <2> QED BY <2>1, <1>4
<1> SUFFICES ASSUME ~Set_Flag', NEW f \in Fields \ crossed' PROVE Tended(f)'
  BY DEF SavedInv
<1>7. Tended(f) BY <1>1 DEF SavedInv
<1>8. ASSUME NEW c \in Clients, f \in Pending(c)' PROVE f \in Pending(c)
  <2>1. PICK i \in DOMAIN todo'[c] : todo'[c][i].field = f BY <1>8 DEF Pending
  <2>2. CASE c = w
    <3>1. i + 1 \in DOMAIN todo[w] /\ todo[w][i + 1].field = f BY <2>1, <2>2, <1>5
    <3> QED BY <3>1, <2>2 DEF Pending
  <2>3. CASE c # w BY <2>1, <2>3, <1>4 DEF Pending
  <2> QED BY <2>2, <2>3
<1>9. Ordered(f)'
  <2> SUFFICES ASSUME NEW c \in Clients, NEW i \in DOMAIN todo'[c], todo'[c][i].field = f
               PROVE  todo'[c][i].b = Stored[f]
    BY <1>3 DEF Ordered
  <2>1. CASE c = w BY <2>1, <1>5, <1>7 DEF Tended, Ordered
  <2>2. CASE c # w BY <2>2, <1>4, <1>7 DEF Tended, Ordered
  <2> QED BY <2>1, <2>2
<1>10. Alone(f)' /\ Split(f)'
  BY <1>1, <1>3, <1>7, <1>8 DEF Tended, Alone, Split, Lo, Hi
<1>11. Safe(f)'
  <2>1. CASE f = todo[w][1].field
    <3>1. todo[w][1].b = Stored[f] BY <2>1, <1>4, <1>7 DEF Tended, Ordered
    <3>2. eeprom'[f] = Stored[f] BY <2>1, <3>1, <1>1, <1>2, <1>4
    <3> QED BY <3>2, <1>3 DEF Safe
  <2>2. CASE f # todo[w][1].field
    <3>1. eeprom'[f] = eeprom[f] BY <2>2, <1>1, <1>2, <1>4
    <3>2. ASSUME NEW c \in Clients, f \in Pending(c) PROVE f \in Pending(c)'
      <4>1. PICK i \in DOMAIN todo[c] : todo[c][i].field = f BY <3>2 DEF Pending
      <4>2. CASE c = w
        <5>1. i - 1 \in DOMAIN todo'[w] /\ todo'[w][i - 1].field = f BY <4>1, <4>2, <2>2, <1>6
        <5> QED BY <5>1, <4>2 DEF Pending
      <4>3. CASE c # w BY <4>1, <4>3, <1>4 DEF Pending
      <4> QED BY <4>2, <4>3
    <3> QED BY <3>1, <3>2, <1>1, <1>3, <1>7 DEF Tended, Safe
  <2> QED BY <2>1, <2>2
<1> QED BY <1>9, <1>10, <1>11 DEF Tended

LEMMA StepSaved == PidAssumption /\ TypeOK /\ SavedInv /\ [Next]_vars => SavedInv'
<1> SUFFICES ASSUME PidAssumption, TypeOK, SavedInv, [Next]_vars PROVE SavedInv'
  OBVIOUS
<1>0. con \in Controllers BY DEF TypeOK
<1>1. CASE Turn
  <2>1. Stored' = Stored BY <1>1, <1>0 DEF Turn, Stored, Controllers, Lo, Hi
  <2> QED BY <1>1, <2>1, SavedKept DEF Turn, setting, history, Saving
<1>2. CASE TestFlag BY <1>2, SavedTestFlag
<1>3. CASE Save BY <1>3, SavedSave
<1>4. CASE SaveSetpoint BY <1>4, SavedSetpoint
<1>5. CASE Begin \/ Test \/ Integral
  <2>1. Stored' = Stored
    BY <1>5, <1>0 DEF Begin, Test, Integral, Stored, Controllers, Lo, Hi
  <2> QED BY <1>5, <2>1, SavedKept DEF Begin, Test, Integral, setting, history, Saving
<1>6. CASE Output
  <2>1. Stored' = Stored BY <1>6, <1>0 DEF Output, Stored, Controllers, Lo, Hi
  <2> QED BY <1>6, <2>1, SavedKept DEF Output, setting, history, Saving
<1>7. CASE BlockWrite
  <2>1. Set_Flag' = TRUE BY <1>7 DEF BlockWrite
  <2> QED BY <2>1 DEF SavedInv
<1>8. ASSUME NEW w \in Clients, Register(w) PROVE SavedInv' BY <1>8, SavedRegister
<1>9. ASSUME NEW w \in Clients, Store(w) PROVE SavedInv' BY <1>9, SavedStore
<1>10. CASE Restart
  <2>1. todo' = Idle /\ pc' = "sleep" /\ con' = Loaded(eeprom') /\ eeprom' \in Eeprom
    BY <1>10 DEF Restart, TypeOK
  <2>2. \A f \in Fields : eeprom'[f] = Stored'[f]
    <3>1. (PidAssumption /\ eeprom \in Eeprom /\ con = Loaded(eeprom)
            => \A f \in Fields : eeprom[f] = Stored[f])'
      BY LoadedIsStored, PTL
    <3> QED BY <2>1, <3>1 DEF Loaded
  <2> QED
    BY <2>1, <2>2 DEF SavedInv, Tended, Ordered, Alone, Split, Safe, Saving, Idle
<1>11. CASE UNCHANGED vars
  <2>1. Stored' = Stored BY <1>11 DEF vars, Stored
  <2> QED BY <1>11, <2>1, SavedKept DEF vars, setting, history
<1> QED BY <1>1, <1>2, <1>3, <1>4, <1>5, <1>6, <1>7, <1>8, <1>9, <1>10, <1>11 DEF Next, Task

(* What a restart would load is what is used, once no save is due and no    *)
(* handler is at work, but for the fields that two wrote at the same time. *)
THEOREM SettingsAreKept == Spec => []Kept
<1>1. Init => SavedInv BY InitSaved, PidAssumption
<1>2. TypeOK /\ SavedInv /\ [Next]_vars => SavedInv' BY StepSaved, PidAssumption
<1>3. TypeOK /\ SavedInv => Kept
  <2> SUFFICES ASSUME TypeOK, SavedInv, ~Set_Flag, pc \notin Saving, todo = Idle,
                      NEW f \in Fields \ crossed
               PROVE  eeprom[f] = Stored[f]
    BY DEF Kept
  <2>1. \A w \in Clients : Pending(w) = {} BY DEF Pending, Idle
  <2>2. Due(pc) = {} BY DEF Due, Saving
  <2> QED BY <2>1, <2>2 DEF SavedInv, Tended, Safe
<1> QED BY <1>1, <1>2, <1>3, TypeCorrect, PTL DEF Spec
=============================================================================
