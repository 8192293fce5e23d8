-------------------------- MODULE Co2SensorProofs ---------------------------
(***************************************************************************)
(* The poll of the CO2 module for every length of an answer, room, limit    *)
(* and number of faults: types, the count of online sensors, that silence   *)
(* takes the reading away, and that a reading is one answer.  For the       *)
(* buffer, that is restarted by each poll, the last follows from what it    *)
(* holds; for the queue, that is not, from a numbering of all bytes that    *)
(* the module ever sent (StreamInv).                                       *)
(***************************************************************************)
EXTENDS Co2Sensor, FiniteSetTheorems, TLAPS

(* The variables that have nothing to do with bytes. *)
PlainTyped ==
  /\ kind \in Kinds
  /\ type \in Types /\ stored \in Types \cup {255} /\ byte \in Types /\ clientByte \in Types
  /\ rate \in {"ogm", "temco"} /\ status \in BOOLEAN /\ manual \in BOOLEAN
  /\ silent \in 0 .. MaxSilent
  /\ id \in Addresses /\ online \subseteq Addresses
  /\ tested \in Addresses /\ strays \in Nat
  /\ pc \in {"sleep", "ogm", "temco", "none", "set", "plus", "clear", "minus", "cycle", "rate",
            "store"}
  /\ client \in {"idle", "store", "rate"}
  /\ faults \in 0 .. MaxFaults /\ late \in 0 .. MaxLate /\ changes \in 0 .. MaxChanges

(* What was measured is shown for as many failures as are forgiven; an      *)
(* answer clears the counter first, and is shown when it has been counted.  *)
CountInv ==
  /\ fail \in 0 .. ExistCtr /\ unanswered \in 0 .. ExistCtr + 1
  /\ reading \in {"exception", "measured", "manual"}
  /\ fail = IF pc \in {"set", "plus"} THEN 0
            ELSE IF unanswered > ExistCtr THEN ExistCtr ELSE unanswered
  /\ Expires

(* The bit that was tested is still what the test found it to be: only the  *)
(* task changes it.                                                         *)
OnlineInv ==
  /\ IsFiniteSet(online) /\ ctr \in 0 .. 255 /\ Counted
  /\ pc = "set" => tested \notin online
  /\ pc = "clear" => tested \in online

(* The bytes. *)
BytesTyped ==
  /\ \A s \in {queue, recv} : s \in Seq(Bytes) /\ Len(s) <= BufLen
  /\ flight \in Seq(Bytes) /\ data \in Seq(Bytes)
  /\ size \in {0, AnswerLen, AnswerLen + 1} /\ tag \in BOOLEAN /\ odd \in BOOLEAN
  /\ gone \in 0 .. AnswerLen /\ goneThen \in 0 .. AnswerLen

LEMMA KindsOfTypes == \A t : KindOf(t) \in {"ogm", "temco", "none"}
BY DEF KindOf
-----------------------------------------------------------------------------
LEMMA BootTyped ==
  ASSUME SensorAssumption, stored \in Types \cup {255}
  PROVE  BootType \in Types /\ BootRate \in {"ogm", "temco"}
BY DEF BootType, BootRate, Types

LEMMA RateTyped ==
  ASSUME rate \in {"ogm", "temco"}, NEW t, Rate(t)
  PROVE  rate' \in {"ogm", "temco"}
BY KindsOfTypes DEF Rate

LEMMA InitPlain == SensorAssumption /\ Init => PlainTyped /\ CountInv /\ OnlineInv
<1> SUFFICES ASSUME SensorAssumption, Init PROVE PlainTyped /\ CountInv /\ OnlineInv
  OBVIOUS
<1>1. type \in Types /\ rate \in {"ogm", "temco"} BY BootTyped DEF Init
<1>2. PlainTyped
  <2>1. 0 \in Types /\ 0 \in Addresses /\ 0 \in 0 .. MaxSilent /\ 0 \in 0 .. MaxFaults
        /\ 0 \in 0 .. MaxLate /\ 0 \in 0 .. MaxChanges
    BY DEF Types, SensorAssumption
  <2> QED BY Zenon, <1>1, <2>1 DEF Init, PlainTyped
<1>3. CountInv BY DEF Init, CountInv, Expires, SensorAssumption
<1>4. OnlineInv
  <2>1. IsFiniteSet({}) /\ Cardinality({}) = 0 BY FS_EmptySet
  <2>2. (0 + 0 - 0 - 0) % 256 = 0 /\ 0 \in -0 .. 0 BY SMT
  <2>3. Counted BY <2>1, <2>2 DEF Init, Counted, Lag
  <2> QED BY <2>1, <2>3 DEF Init, OnlineInv
<1> QED BY <1>2, <1>3, <1>4

(* Where the bits stay, and the count, the statement about both stays.      *)
LEMMA OnlineKept ==
  ASSUME OnlineInv, UNCHANGED <<online, ctr, strays>>, Lag' = Lag,
         pc' = "set" => tested' \notin online, pc' = "clear" => tested' \in online
  PROVE  OnlineInv'
<1>1. Counted' BY DEF OnlineInv, Counted
<1> QED BY <1>1 DEF OnlineInv

LEMMA ShownTyped ==
  ASSUME SensorAssumption, PlainTyped, Shown
  PROVE  /\ silent' \in 0 .. MaxSilent /\ status' \in BOOLEAN /\ tested' \in Addresses
         /\ byte' \in Types /\ pc' \in {"store", "sleep"}
<1>1. silent' \in 0 .. MaxSilent /\ tested' \in Addresses BY DEF Shown, SensorAssumption
<1>2. status' \in BOOLEAN BY Zenon DEF Shown
<1>3. type \in Types /\ byte \in Types BY DEF PlainTyped
<1>4. (byte' = type /\ pc' = "store") \/ (byte' = byte /\ pc' = "sleep") BY Zenon DEF Shown
<1> QED BY <1>1, <1>2, <1>3, <1>4

(* Whether the test finds the bit set or not, an answer is noted. *)
LEMMA AnsweredPlain ==
  ASSUME SensorAssumption, PlainTyped, CountInv, OnlineInv, Answered, late' = late,
         pc \in {"ogm", "temco"}
  PROVE  PlainTyped' /\ CountInv' /\ OnlineInv'
<1>1. UNCHANGED <<type, stored, rate, id, online, strays, manual, client, clientByte, changes, kind,
                  faults, ctr>>
  BY DEF Answered, Shown, Later, others
<1>2. silent' \in 0 .. MaxSilent /\ status' \in BOOLEAN /\ tested' \in Addresses /\ byte' \in Types
  <2>1. CASE Shown
    BY <2>1, ShownTyped
  <2>2. CASE Later("set")
    <3>1. silent' \in 0 .. MaxSilent /\ tested' \in Addresses /\ byte' \in Types
      BY <2>2 DEF Later, PlainTyped
    <3>2. status' \in BOOLEAN BY Zenon, <2>2 DEF Later, PlainTyped
    <3> QED BY <3>1, <3>2
  <2> QED BY <2>1, <2>2 DEF Answered
<1>3. pc' \in {"store", "sleep"} \/ (pc' = "set" /\ tested' = id /\ id \notin online)
  BY DEF Answered, Shown, Later
<1>4. PlainTyped' BY <1>1, <1>2, <1>3 DEF PlainTyped
<1>5. CountInv' BY DEF Answered, Shown, Later, CountInv, Expires, SensorAssumption
<1>6. OnlineInv' BY <1>1, <1>3, OnlineKept DEF Lag
<1> QED BY <1>4, <1>5, <1>6

LEMMA SilentPlain ==
  ASSUME SensorAssumption, PlainTyped, CountInv, OnlineInv, Silent, late' \in 0 .. MaxLate,
         pc \in {"ogm", "temco", "none"}
  PROVE  PlainTyped' /\ CountInv' /\ OnlineInv'
<1> USE DEF Silent, Forgiven, Lost, Leave, Missed, Later
<1>1. UNCHANGED <<type, stored, rate, status, id, online, strays, manual, client, clientByte, changes,
                  kind, faults, ctr>>
  BY DEF others
<1>2. silent' \in 0 .. MaxSilent /\ tested' \in Addresses /\ byte' \in Types
  BY DEF PlainTyped, SensorAssumption
<1>3. pc' \in {"cycle", "sleep"} \/ (pc' = "clear" /\ tested' = id /\ id \in online) OBVIOUS
<1>4. PlainTyped' BY <1>1, <1>2, <1>3 DEF PlainTyped
<1>5. CountInv'
  <2>1. fail = IF unanswered > ExistCtr THEN ExistCtr ELSE unanswered BY DEF CountInv
  <2>2. pc' \notin {"set", "plus"} BY <1>3
  <2> QED BY <2>1, <2>2 DEF CountInv, Expires, SensorAssumption
<1>6. OnlineInv' BY <1>1, <1>3, OnlineKept DEF Lag
<1> QED BY <1>4, <1>5, <1>6

(* The bit of the address of now is set, or cleared: as the one tested was,  *)
(* or of another address, which may have been so before.                    *)
LEMMA BitPlain ==
  ASSUME SensorAssumption, PlainTyped, CountInv, OnlineInv, SetBit \/ ClearBit
  PROVE  PlainTyped' /\ CountInv' /\ OnlineInv'
<1>1. UNCHANGED <<search, fail, reading, id, ctr, unanswered, tested, manual, byte, client,
                  clientByte, changes, bounds>>
  BY DEF SetBit, ClearBit, others
<1>2. /\ online' = IF pc = "set" THEN online \cup {id} ELSE online \ {id}
      /\ Stray /\ strays \in Nat
      /\ pc \in {"set", "clear"} /\ pc' = IF pc = "set" THEN "plus" ELSE "minus"
  BY DEF SetBit, ClearBit, PlainTyped
<1>3. PlainTyped' BY <1>1, <1>2 DEF PlainTyped, Stray, search, bounds
<1>4. CountInv' BY <1>1, <1>2 DEF CountInv, Expires
<1>5. /\ IsFiniteSet(online') /\ IsFiniteSet(online) /\ Cardinality(online) \in Nat
      /\ Cardinality(online') =
           IF pc = "set" THEN IF id \in online THEN Cardinality(online) ELSE Cardinality(online) + 1
           ELSE IF id \in online THEN Cardinality(online) - 1 ELSE Cardinality(online)
  BY <1>2, FS_AddElement, FS_RemoveElement, FS_CardinalityType DEF OnlineInv
<1>6. Counted'
  <2>1. PICK d \in -strays .. strays : (ctr + Lag - Cardinality(online) - d) % 256 = 0
    BY DEF OnlineInv, Counted
  <2> DEFINE e == IF pc = "set" /\ id \in online THEN d + 1
                  ELSE IF pc = "clear" /\ id \notin online THEN d - 1 ELSE d
  <2>2. e \in -strays' .. strays'
    BY <1>2 DEF Stray, OnlineInv
  <2>3. Lag = 0 /\ Lag' = IF pc = "set" THEN 1 ELSE -1 BY <1>2 DEF Lag
  <2>4. ctr' + Lag' - Cardinality(online') - e = ctr + Lag - Cardinality(online) - d
    BY <1>1, <1>2, <1>5, <2>3 DEF OnlineInv
  <2> QED BY <2>1, <2>2, <2>4 DEF Counted
<1>7. OnlineInv' BY <1>1, <1>2, <1>5, <1>6 DEF OnlineInv
<1> QED BY <1>3, <1>4, <1>7

LEMMA Wraps ==
  ASSUME NEW c \in 0 .. 255, NEW x \in Int
  PROVE  /\ (c + 1) % 256 \in 0 .. 255 /\ (c + 255) % 256 \in 0 .. 255
         /\ (c + 1 + x) % 256 = 0 => (((c + 1) % 256) + x) % 256 = 0
         /\ (c - 1 + x) % 256 = 0 => (((c + 255) % 256) + x) % 256 = 0
BY SMT

(* The count follows. *)
LEMMA CountPlain ==
  ASSUME SensorAssumption, PlainTyped, CountInv, OnlineInv, CountUp \/ CountDown
  PROVE  PlainTyped' /\ CountInv' /\ OnlineInv'
<1>1. UNCHANGED <<type, stored, rate, id, online, strays, fail, manual, client, clientByte, changes,
                  bounds>>
  BY DEF CountUp, CountDown, Shown, Missed, others
<1>2. /\ silent' \in 0 .. MaxSilent /\ status' \in BOOLEAN /\ tested' \in Addresses
      /\ byte' \in Types /\ pc' \in {"store", "sleep", "cycle"}
  <2>1. CASE CountUp BY <2>1, ShownTyped DEF CountUp
  <2>2. CASE CountDown
    <3>1. silent' \in 0 .. MaxSilent /\ tested' \in Addresses /\ byte' \in Types
          /\ pc' \in {"sleep", "cycle"}
      BY <2>2 DEF CountDown, Missed, PlainTyped, SensorAssumption
    <3>2. status' \in BOOLEAN BY Zenon, <2>2 DEF CountDown, Missed, PlainTyped
    <3> QED BY <3>1, <3>2
  <2> QED BY <2>1, <2>2
<1>3. PlainTyped' BY <1>1, <1>2 DEF PlainTyped, bounds
<1>4. CountInv'
  <2>1. CASE CountUp BY <2>1, <1>2 DEF CountUp, Shown, CountInv, Expires, SensorAssumption
  <2>2. CASE CountDown BY <2>2, <1>2 DEF CountDown, Missed, CountInv, Expires
  <2> QED BY <2>1, <2>2
<1>5. ctr' \in 0 .. 255 /\ Counted'
  <2>1. PICK d \in -strays .. strays : (ctr + Lag - Cardinality(online) - d) % 256 = 0
    BY DEF OnlineInv, Counted
  <2>2. PICK x \in Int : x = -Cardinality(online) - d
    BY FS_CardinalityType DEF OnlineInv, PlainTyped
  <2>3. ctr \in 0 .. 255 /\ Cardinality(online) \in Nat /\ d \in Int
    BY FS_CardinalityType DEF OnlineInv, PlainTyped
  <2>4. Lag' = 0 BY <1>2 DEF Lag
  <2>5. CASE CountUp
    <3>1. Lag = 1 /\ ctr' = (ctr + 1) % 256 BY <2>5 DEF CountUp, Lag
    <3>2. (ctr + 1 + x) % 256 = 0
      <4>1. ctr + 1 + x = ctr + Lag - Cardinality(online) - d BY <2>2, <2>3, <3>1
      <4> QED BY <2>1, <4>1
    <3>3. ctr' \in 0 .. 255 /\ (ctr' + x) % 256 = 0 BY <2>3, <3>1, <3>2, Wraps
    <3>4. ctr' + x = ctr' + Lag' - Cardinality(online)' - d BY <1>1, <2>2, <2>3, <2>4, <3>3
    <3> QED BY <1>1, <3>3, <3>4 DEF Counted
  <2>6. CASE CountDown
    <3>1. Lag = -1 /\ ctr' = (ctr + 255) % 256 BY <2>6 DEF CountDown, Lag
    <3>2. (ctr - 1 + x) % 256 = 0
      <4>1. ctr - 1 + x = ctr + Lag - Cardinality(online) - d BY <2>2, <2>3, <3>1
      <4> QED BY <2>1, <4>1
    <3>3. ctr' \in 0 .. 255 /\ (ctr' + x) % 256 = 0 BY <2>3, <3>1, <3>2, Wraps
    <3>4. ctr' + x = ctr' + Lag' - Cardinality(online)' - d BY <1>1, <2>2, <2>3, <2>4, <3>3
    <3> QED BY <1>1, <3>3, <3>4 DEF Counted
  <2> QED BY <2>5, <2>6
<1>6. OnlineInv' BY <1>1, <1>2, <1>5 DEF OnlineInv
<1> QED BY <1>3, <1>4, <1>6

LEMMA PlainKept ==
  ASSUME PlainTyped, CountInv, OnlineInv,
         UNCHANGED <<search, shown, manual, task, client, clientByte, changes, bounds>>
  PROVE  PlainTyped' /\ CountInv' /\ OnlineInv'
<1>1. UNCHANGED <<pc, byte, id, online, ctr, tested, strays, fail, reading, unanswered>>
  BY DEF shown, task, counted
<1>2. PlainTyped' /\ CountInv' BY <1>1 DEF PlainTyped, CountInv, Expires, search, bounds
<1>3. OnlineInv' BY <1>1, OnlineKept DEF OnlineInv, Lag
<1> QED BY <1>2, <1>3

(* What is shown stays, outside the judgement of a poll. *)
LEMMA ShownKept ==
  ASSUME CountInv, OnlineInv, UNCHANGED shown,
         pc' = pc \/ {pc, pc'} \cap {"set", "plus", "clear", "minus"} = {}
  PROVE  CountInv' /\ OnlineInv'
<1>1. UNCHANGED <<id, online, ctr, tested, strays, fail, reading, unanswered>> BY DEF shown, counted
<1>2. CountInv' BY <1>1 DEF CountInv, Expires
<1>3. OnlineInv' BY <1>1, OnlineKept DEF OnlineInv, Lag
<1> QED BY <1>2, <1>3

LEMMA StepPlain ==
  SensorAssumption /\ PlainTyped /\ CountInv /\ OnlineInv /\ [Next]_vars
    => PlainTyped' /\ CountInv' /\ OnlineInv'
<1> SUFFICES ASSUME SensorAssumption, PlainTyped, CountInv, OnlineInv, [Next]_vars
             PROVE  PlainTyped' /\ CountInv' /\ OnlineInv'
  OBVIOUS
<1>1. CASE Manual
  <2>1. UNCHANGED <<search, id, online, ctr, tested, strays, fail, unanswered, manual, pc, byte,
                    client, clientByte, changes, bounds>>
    BY <1>1 DEF Manual, others, counted, task
  <2>2. PlainTyped' BY <2>1 DEF PlainTyped, search, bounds
  <2>3. CountInv' BY <1>1, <2>1 DEF Manual, CountInv, Expires
  <2>4. OnlineInv' BY <2>1, OnlineKept DEF OnlineInv, Lag
  <2> QED BY <2>2, <2>3, <2>4
<1>2. CASE Poll
  <2>1. pc = "sleep" /\ pc' \in {"ogm", "temco", "none"} BY <1>2, KindsOfTypes DEF Poll, Asleep
  <2>2. UNCHANGED <<search, shown, manual, byte, client, clientByte, changes, bounds>>
    BY <1>2 DEF Poll, others
  <2>3. PlainTyped' BY <2>1, <2>2 DEF PlainTyped, search, shown, counted, bounds
  <2>4. CountInv' /\ OnlineInv' BY <2>1, <2>2, ShownKept
  <2> QED BY <2>3, <2>4
<1>3. CASE Byte
  <2>1. faults' \in 0 .. MaxFaults BY <1>3 DEF Byte, PlainTyped, SensorAssumption
  <2>2. UNCHANGED <<search, shown, manual, task, client, clientByte, changes, kind, late>>
    BY <1>3 DEF Byte, others
  <2>3. PlainTyped' BY <2>1, <2>2 DEF PlainTyped, search, shown, counted, task
  <2>4. CountInv' /\ OnlineInv' BY <2>1, <2>2, <2>3, ShownKept DEF task
  <2> QED BY <2>3, <2>4
<1>4. CASE TakeQueue
  <2>1. Answered /\ late' = late /\ pc = "ogm" BY <1>4 DEF TakeQueue
  <2> QED BY <2>1, AnsweredPlain
<1>5. CASE TakeBuffer
  <2>1. Answered /\ late' = late /\ pc = "temco" BY <1>5 DEF TakeBuffer
  <2> QED BY <2>1, AnsweredPlain
<1>6. CASE GiveUp
  <2>1. late' = late \/ (late < MaxLate /\ late' = late + 1) BY Zenon, <1>6 DEF GiveUp
  <2>2. late' \in 0 .. MaxLate BY <2>1 DEF PlainTyped, SensorAssumption
  <2>3. Silent /\ pc \in {"ogm", "temco"} BY <1>6 DEF GiveUp
  <2> QED BY <2>2, <2>3, SilentPlain
<1>7. CASE NoModule
  <2>1. Silent /\ pc = "none" /\ late' \in 0 .. MaxLate BY <1>7 DEF NoModule, PlainTyped
  <2> QED BY <2>1, SilentPlain
<1>8. CASE Cycle
  <2>1. type' \in Types BY <1>8 DEF Cycle, PlainTyped, Types
  <2>2. pc = "cycle" /\ pc' = "rate" BY <1>8 DEF Cycle
  <2>3. UNCHANGED <<stored, rate, status, silent, shown, manual, byte, client, clientByte, changes,
                    bounds>>
    BY <1>8 DEF Cycle, others
  <2>4. PlainTyped' BY <2>1, <2>2, <2>3 DEF PlainTyped, shown, counted, bounds
  <2>5. CountInv' /\ OnlineInv' BY <2>1, <2>2, <2>3, ShownKept DEF task
  <2> QED BY <2>4, <2>5
<1>9. CASE SetRate
  <2>1. rate' \in {"ogm", "temco"} BY <1>9, RateTyped DEF SetRate, PlainTyped
  <2>2. pc = "rate" /\ pc' = "sleep" /\ status' = TRUE /\ silent' = 0 BY <1>9 DEF SetRate
  <2>3. UNCHANGED <<type, stored, shown, manual, byte, client, clientByte, changes, bounds>>
    BY <1>9 DEF SetRate, others
  <2>4. silent' \in 0 .. MaxSilent BY <2>2 DEF SensorAssumption
  <2>5. PlainTyped' BY <2>1, <2>2, <2>3, <2>4 DEF PlainTyped, shown, counted, bounds
  <2>6. CountInv' /\ OnlineInv' BY <2>1, <2>2, <2>3, ShownKept DEF task
  <2> QED BY <2>5, <2>6
<1>10. CASE Store
  <2>1. stored' \in Types \cup {255} /\ pc = "store" /\ pc' = "sleep" BY <1>10 DEF Store, PlainTyped
  <2>2. UNCHANGED <<type, rate, status, silent, shown, manual, byte, client, clientByte, changes,
                    bounds>>
    BY <1>10 DEF Store, others
  <2>3. PlainTyped' BY <2>1, <2>2 DEF PlainTyped, shown, counted, bounds
  <2>4. CountInv' /\ OnlineInv' BY <2>1, <2>2, <2>3, ShownKept DEF task
  <2> QED BY <2>3, <2>4
<1>11. CASE ClientStore
  <2>1. stored' \in Types \cup {255} /\ client' = "rate" BY <1>11 DEF ClientStore, PlainTyped
  <2>2. UNCHANGED <<type, rate, status, silent, shown, manual, task, clientByte, changes, bounds>>
    BY <1>11 DEF ClientStore
  <2>3. PlainTyped' BY <2>1, <2>2 DEF PlainTyped, shown, counted, task, bounds
  <2>4. CountInv' /\ OnlineInv' BY <2>1, <2>2, <2>3, ShownKept DEF task
  <2> QED BY <2>3, <2>4
<1>12. CASE ClientRate
  <2>1. rate' \in {"ogm", "temco"} /\ client' = "idle"
    BY <1>12, RateTyped DEF ClientRate, PlainTyped
  <2>2. UNCHANGED <<type, stored, status, silent, shown, manual, task, clientByte, changes, bounds>>
    BY <1>12 DEF ClientRate
  <2>3. PlainTyped' BY <2>1, <2>2 DEF PlainTyped, shown, counted, task, bounds
  <2>4. CountInv' /\ OnlineInv' BY <2>1, <2>2, <2>3, ShownKept DEF task
  <2> QED BY <2>3, <2>4
<1>13. CASE ClientType
  <2>1. type' \in Types /\ clientByte' \in Types /\ client' = "store" BY <1>13 DEF ClientType
  <2>2. changes' \in 0 .. MaxChanges BY <1>13 DEF ClientType, Change, PlainTyped, SensorAssumption
  <2>3. UNCHANGED <<stored, rate, status, silent, shown, manual, task, bounds>>
    BY <1>13 DEF ClientType
  <2>4. PlainTyped' BY <2>1, <2>2, <2>3 DEF PlainTyped, shown, counted, task, bounds
  <2>5. CountInv' /\ OnlineInv' BY <2>1, <2>2, <2>3, ShownKept DEF task
  <2> QED BY <2>4, <2>5
<1>14. CASE ClientManual
  <2>1. manual' \in BOOLEAN BY Zenon, <1>14 DEF ClientManual
  <2>2. changes' \in 0 .. MaxChanges BY <1>14 DEF ClientManual, Change, PlainTyped, SensorAssumption
  <2>3. UNCHANGED <<search, shown, task, client, clientByte, bounds>> BY <1>14 DEF ClientManual
  <2>4. PlainTyped' BY <2>1, <2>2, <2>3 DEF PlainTyped, search, shown, counted, task, bounds
  <2>5. CountInv' /\ OnlineInv' BY <2>1, <2>2, <2>3, ShownKept DEF task
  <2> QED BY <2>4, <2>5
<1>15. CASE ClientAddress
  <2>1. id' \in Addresses BY <1>15 DEF ClientAddress
  <2>2. changes' \in 0 .. MaxChanges
    BY <1>15 DEF ClientAddress, Change, PlainTyped, SensorAssumption
  <2>3. UNCHANGED <<search, fail, reading, counted, unanswered, manual, task, client, clientByte,
                    bounds>>
    BY <1>15 DEF ClientAddress
  <2>4. PlainTyped' BY <2>1, <2>2, <2>3 DEF PlainTyped, search, counted, task, bounds
  <2>5. UNCHANGED <<online, ctr, tested, strays, pc>> BY <2>3 DEF counted, task
  <2>6. CountInv' BY <2>3, <2>5 DEF CountInv, Expires
  <2>7. OnlineInv' BY <2>5, OnlineKept DEF OnlineInv, Lag
  <2> QED BY <2>4, <2>6, <2>7
<1>16. CASE Restart
  <2>1. type' \in Types /\ rate' \in {"ogm", "temco"}
    BY <1>16, BootTyped DEF Restart, PlainTyped
  <2>2. changes' \in 0 .. MaxChanges BY <1>16 DEF Restart, PlainTyped, SensorAssumption
  <2>3. /\ 0 \in Types /\ 0 \in Addresses /\ 0 \in 0 .. MaxSilent
    BY DEF Types, SensorAssumption
  <2>4. UNCHANGED <<stored, bounds>> BY <1>16 DEF Restart
  <2>5. PlainTyped' BY Zenon, <1>16, <2>1, <2>2, <2>3, <2>4 DEF Restart, PlainTyped, bounds
  <2>6. CountInv' BY <1>16 DEF Restart, CountInv, Expires, SensorAssumption
  <2>7. OnlineInv'
    <3>1. IsFiniteSet({}) /\ Cardinality({}) = 0 BY FS_EmptySet
    <3>2. (0 + 0 - 0 - 0) % 256 = 0 /\ 0 \in -0 .. 0 BY SMT
    <3>3. Counted' BY <1>16, <3>1, <3>2 DEF Restart, Counted, Lag
    <3> QED BY <1>16, <3>1, <3>3 DEF Restart, OnlineInv
  <2> QED BY <2>5, <2>6, <2>7
<1>17. CASE SetBit \/ ClearBit BY <1>17, BitPlain
<1>18. CASE CountUp \/ CountDown BY <1>18, CountPlain
<1>19. CASE UNCHANGED vars
  BY <1>19, PlainKept DEF vars, others
<1> QED
  BY Zenon, <1>1, <1>2, <1>3, <1>4, <1>5, <1>6, <1>7, <1>8, <1>9, <1>10, <1>11, <1>12, <1>13, <1>14,
     <1>15, <1>16, <1>17, <1>18, <1>19 DEF Next, Task, Client
-----------------------------------------------------------------------------
(* What arrives during a poll is of that poll, or garbled. *)
Now == {0} \X (1 .. AnswerLen)
Heard == {Junk} \cup Now

(* The buffer holds nothing from before the poll of a TEMCO module, and an  *)
(* answer is only announced when its length has come.                      *)
BufferInv ==
  /\ flight \in Seq(Now)
  /\ pc = "temco" => recv \in Seq(Heard)
  /\ tag => size > 1 /\ Len(recv) >= size

BytesInv == BytesTyped /\ BufferInv /\ Fresh

LEMMA HeardAreBytes == Now \subseteq Bytes /\ Heard \subseteq Bytes /\ Junk \in Bytes /\ Junk \in Heard
BY DEF Now, Heard, Bytes

LEMMA AnswerTyped == SensorAssumption => Answer \in Seq(Now) /\ Answer \in Seq(Bytes)
<1> SUFFICES ASSUME SensorAssumption PROVE Answer \in Seq(Now) /\ Answer \in Seq(Bytes)
  OBVIOUS
<1>1. AnswerLen \in Nat BY DEF SensorAssumption
<1>2. Answer \in [1 .. AnswerLen -> Now] BY DEF Answer, Now
<1>3. Answer \in [1 .. AnswerLen -> Bytes] BY <1>2, HeardAreBytes
<1> QED BY <1>1, <1>2, <1>3

LEMMA OlderTyped ==
  ASSUME NEW s \in Seq(Bytes)
  PROVE  Older(s) \in Seq(Bytes) /\ Len(Older(s)) = Len(s)
<1>1. DOMAIN s = 1 .. Len(s) /\ Len(s) \in Nat OBVIOUS
<1>2. \A i \in 1 .. Len(s) : s[i] \in Bytes OBVIOUS
<1>3. \A b \in Bytes : b # Junk => <<IF b[1] = 0 THEN 1 ELSE 2, b[2]>> \in Bytes
  BY DEF Bytes, Junk
<1>4. Older(s) \in [1 .. Len(s) -> Bytes]
  BY <1>1, <1>2, <1>3, HeardAreBytes DEF Older
<1>5. Older(s) \in Seq(Bytes) BY <1>1, <1>4
<1>6. DOMAIN Older(s) = 1 .. Len(s) BY <1>4
<1> QED BY <1>1, <1>5, <1>6

(* A buffer without gaps and garbled bytes that is long enough holds just   *)
(* the answer to the poll.                                                 *)
LEMMA Between == ASSUME NEW m \in Nat, NEW n \in Nat, m >= n, m <= n PROVE m = n
OBVIOUS

LEMMA WholeAnswer ==
  ASSUME SensorAssumption, recv \in Seq(Heard), Len(recv) >= AnswerLen, OneAnswer(recv),
         \A i \in DOMAIN recv : recv[i] # Junk
  PROVE  recv = Answer
<1>1. AnswerLen \in Nat /\ AnswerLen > 2 BY DEF SensorAssumption
<1>2. DOMAIN recv = 1 .. Len(recv) /\ Len(recv) \in Nat OBVIOUS
<1>3. PICK age \in 0 .. 2 : \A i \in DOMAIN recv : recv[i] \in {Junk, <<age, i>>}
  BY DEF OneAnswer
<1>4. \A i \in 1 .. Len(recv) : recv[i] = <<age, i>> /\ recv[i] \in Now
  BY <1>2, <1>3 DEF Heard
<1>5. \A i \in 1 .. Len(recv) : recv[i] = <<0, i>> /\ i <= AnswerLen BY <1>4 DEF Now
<1>6. Len(recv) <= AnswerLen
  <2>1. Len(recv) \in 1 .. Len(recv) BY <1>1, <1>2
  <2> QED BY <2>1, <1>5
<1>7. Len(recv) = AnswerLen BY Zenon, <1>1, <1>2, <1>6, Between
<1>8. DOMAIN recv = 1 .. AnswerLen /\ recv \in [1 .. AnswerLen -> Heard] BY <1>2, <1>7
<1>9. \A i \in 1 .. AnswerLen : recv[i] = Answer[i] BY <1>5, <1>7 DEF Answer
<1>10. Answer \in [1 .. AnswerLen -> Now] BY DEF Answer, Now
<1> QED BY Zenon, <1>8, <1>9 DEF Answer

LEMMA MissTyped ==
  ASSUME SensorAssumption, gone \in 0 .. AnswerLen, NEW n \in Nat, Miss(n)
  PROVE  gone' \in 0 .. AnswerLen
BY DEF Miss, SensorAssumption

LEMMA InitBytes == SensorAssumption /\ Init => BytesInv
<1> SUFFICES ASSUME SensorAssumption, Init PROVE BytesInv
  OBVIOUS
<1>1. /\ queue = <<>> /\ recv = <<>> /\ flight = <<>> /\ data = <<>> /\ size = 0
      /\ tag = FALSE /\ odd = FALSE /\ gone = 0 /\ goneThen = 0
  BY DEF Init
<1>2. BytesTyped
  <2>1. \A s \in {queue, recv} : s \in Seq(Bytes) /\ Len(s) <= BufLen
    <3>1. <<>> \in Seq(Bytes) /\ Len(<<>>) <= BufLen BY DEF SensorAssumption
    <3> QED BY <1>1, <3>1
  <2>2. flight \in Seq(Bytes) /\ data \in Seq(Bytes) BY <1>1
  <2>3. gone \in 0 .. AnswerLen /\ goneThen \in 0 .. AnswerLen BY <1>1 DEF SensorAssumption
  <2> QED BY Zenon, <1>1, <2>1, <2>2, <2>3 DEF BytesTyped
<1>3. BufferInv BY <1>1 DEF BufferInv
<1>4. Fresh BY <1>1 DEF Fresh
<1> QED BY <1>2, <1>3, <1>4 DEF BytesInv

(* A byte enters a receiver. *)
LEMMA Arrived ==
  ASSUME SensorAssumption, BytesInv, NEW b \in Heard, Arrive(b)
  PROVE  /\ \A s \in {queue', recv'} : s \in Seq(Bytes) /\ Len(s) <= BufLen
         /\ size' \in {0, AnswerLen, AnswerLen + 1} /\ tag' \in BOOLEAN /\ odd' \in BOOLEAN
         /\ gone' \in 0 .. AnswerLen
         /\ pc = "temco" => recv' \in Seq(Heard)
         /\ tag' => size' > 1 /\ Len(recv') >= size'
<1> USE DEF BytesInv, BytesTyped, BufferInv
<1>1. b \in Bytes BY HeardAreBytes
<1>2. BufLen \in Nat /\ AnswerLen \in Nat /\ AnswerLen > 2 BY DEF SensorAssumption
<1>3. CASE ToQueue(b)
  <2>1. queue' \in Seq(Bytes) /\ Len(queue') <= BufLen BY <1>1, <1>2, <1>3 DEF ToQueue
  <2>2. gone' \in 0 .. AnswerLen
    <3>1. Miss(0) \/ Miss(1) BY <1>3 DEF ToQueue
    <3> QED BY <3>1, MissTyped
  <2>3. UNCHANGED <<recv, size, tag, odd>> BY <1>3 DEF ToQueue, buffer
  <2> QED BY <2>1, <2>2, <2>3
<1>4. CASE ToBuffer(b)
  <2> DEFINE got == IF Len(recv) < BufLen THEN Append(recv, b) ELSE <<>>
  <2>1. recv' = got /\ queue' = queue /\ Miss(1) BY <1>4 DEF ToBuffer
  <2>2. got \in Seq(Bytes) /\ Len(got) <= BufLen BY <1>1, <1>2
  <2>3. pc = "temco" => got \in Seq(Heard) BY <1>2
  <2>4. got = <<>> \/ Len(got) = Len(recv) + 1 BY <1>1
  <2>5. size' \in {AnswerLen, AnswerLen + 1} \/ size' = size BY <1>4 DEF ToBuffer
  <2>6. Len(got) # 1 => size' = size BY <1>4 DEF ToBuffer
  <2>7. odd' \in BOOLEAN BY Zenon, <1>4 DEF ToBuffer
  <2>8. tag' = ((tag /\ got # <<>>) \/ (Len(got) > 1 /\ Len(got) = size /\ ~odd'))
    BY Zenon, <1>4 DEF ToBuffer
  <2>9. tag' \in BOOLEAN BY Zenon, <2>8
  <2> HIDE DEF got
  <2>10. tag' => size' > 1 /\ Len(got) >= size'
    <3>1. Len(recv) \in Nat /\ Len(got) \in Nat BY <2>2
    <3>2. CASE tag /\ got # <<>>
      <4>1. size > 1 /\ Len(recv) >= size BY <3>2
      <4>2. Len(got) = Len(recv) + 1 BY <2>4, <3>2
      <4> QED BY <4>1, <4>2, <3>1, <2>6, <1>2
    <3>3. CASE Len(got) > 1 /\ Len(got) = size
      BY <3>1, <3>3, <2>6
    <3> QED BY Zenon, <2>8, <3>2, <3>3
  <2>11. gone' \in 0 .. AnswerLen BY <2>1, MissTyped
  <2> QED BY <2>1, <2>2, <2>3, <2>5, <2>7, <2>9, <2>10, <2>11
<1> QED BY <1>3, <1>4 DEF Arrive

(* Nothing happens to the bytes; the task may leave a poll. *)
LEMMA BytesKept ==
  ASSUME BytesInv, UNCHANGED <<queue, buffer, flight, data, history, kind>>,
         pc' = "temco" => pc = "temco"
  PROVE  BytesInv'
<1>1. UNCHANGED <<queue, recv, size, tag, odd, flight, data, gone, goneThen, kind>>
  BY DEF buffer, history
<1>2. BytesTyped' BY <1>1 DEF BytesInv, BytesTyped
<1>3. BufferInv' BY <1>1 DEF BytesInv, BufferInv
<1>4. Fresh' BY <1>1 DEF BytesInv, Fresh, Answer
<1> QED BY <1>2, <1>3, <1>4 DEF BytesInv

LEMMA PollBytes ==
  ASSUME SensorAssumption, BytesInv, Poll
  PROVE  BytesInv'
<1>1. queue' = Older(queue) BY DEF Poll
<1>2. UNCHANGED <<size, odd, data, goneThen, kind>> BY DEF Poll, bounds
<1>3. queue \in Seq(Bytes) /\ recv \in Seq(Bytes) /\ Len(queue) <= BufLen /\ Len(recv) <= BufLen
  BY DEF BytesInv, BytesTyped
<1>4. queue' \in Seq(Bytes) /\ Len(queue') <= BufLen BY <1>1, <1>3, OlderTyped
<1>5. flight' \in Seq(Now) /\ flight' \in Seq(Bytes)
  <2>1. flight' = Answer \/ flight' = <<>> BY DEF Poll
  <2>2. Answer \in Seq(Now) /\ Answer \in Seq(Bytes) BY AnswerTyped
  <2>3. <<>> \in Seq(Now) /\ <<>> \in Seq(Bytes) OBVIOUS
  <2> QED BY Zenon, <2>1, <2>2, <2>3
<1>6. gone' \in 0 .. AnswerLen BY DEF Poll, BytesInv, BytesTyped, SensorAssumption
<1>7. CASE KindOf(type) = "temco"
  <2>1. recv' = <<>> /\ tag' = FALSE BY <1>7 DEF Poll
  <2>2. recv' \in Seq(Bytes) /\ Len(recv') <= BufLen /\ recv' \in Seq(Heard)
    BY <2>1 DEF SensorAssumption
  <2>3. BytesTyped' BY <1>2, <1>4, <1>5, <1>6, <2>1, <2>2 DEF BytesInv, BytesTyped
  <2>4. BufferInv' BY <1>5, <2>1, <2>2 DEF BufferInv
  <2>5. Fresh' BY <1>2 DEF BytesInv, Fresh, Answer
  <2> QED BY <2>3, <2>4, <2>5 DEF BytesInv
<1>8. CASE KindOf(type) # "temco"
  <2>1. recv' = Older(recv) /\ tag' = tag /\ pc' # "temco" BY <1>8 DEF Poll
  <2>2. recv' \in Seq(Bytes) /\ Len(recv') = Len(recv) BY <1>3, <2>1, OlderTyped
  <2>3. Len(recv') <= BufLen BY <1>3, <2>2
  <2>4. BytesTyped' BY <1>2, <1>4, <1>5, <1>6, <2>1, <2>2, <2>3 DEF BytesInv, BytesTyped
  <2>5. BufferInv' BY <1>2, <1>5, <2>1, <2>2 DEF BytesInv, BufferInv
  <2>6. Fresh' BY <1>2 DEF BytesInv, Fresh, Answer
  <2> QED BY <2>4, <2>5, <2>6 DEF BytesInv
<1> QED BY <1>7, <1>8

LEMMA ByteBytes ==
  ASSUME SensorAssumption, BytesInv, Byte
  PROVE  BytesInv'
<1>1. flight # <<>> /\ flight' = Tail(flight) BY DEF Byte
<1>2. UNCHANGED <<pc, data, goneThen, kind>> BY DEF Byte, task
<1>3. flight \in Seq(Now) /\ flight \in Seq(Bytes) BY DEF BytesInv, BytesTyped, BufferInv
<1>4. flight' \in Seq(Now) /\ flight' \in Seq(Bytes) BY <1>1, <1>3
<1>5. Head(flight) \in Heard BY <1>1, <1>3 DEF Heard
<1>6. Fresh' BY <1>2 DEF BytesInv, Fresh, Answer
<1>7. CASE \E b \in Heard : Arrive(b)
  <2>1. PICK b \in Heard : Arrive(b) BY <1>7
  <2>2. /\ \A s \in {queue', recv'} : s \in Seq(Bytes) /\ Len(s) <= BufLen
        /\ size' \in {0, AnswerLen, AnswerLen + 1} /\ tag' \in BOOLEAN /\ odd' \in BOOLEAN
        /\ gone' \in 0 .. AnswerLen
        /\ pc = "temco" => recv' \in Seq(Heard)
        /\ tag' => size' > 1 /\ Len(recv') >= size'
    BY <2>1, Arrived
  <2>3. BytesTyped' BY <1>2, <1>4, <2>2 DEF BytesInv, BytesTyped
  <2>4. BufferInv' BY <1>2, <1>4, <2>2 DEF BufferInv
  <2> QED BY <1>6, <2>3, <2>4 DEF BytesInv
<1>8. CASE Miss(1) /\ UNCHANGED <<queue, buffer>>
  <2>1. gone' \in 0 .. AnswerLen BY <1>8, MissTyped DEF BytesInv, BytesTyped
  <2>2. UNCHANGED <<queue, recv, size, tag, odd>> BY <1>8 DEF buffer
  <2>3. BytesTyped' BY <1>2, <1>4, <2>1, <2>2 DEF BytesInv, BytesTyped
  <2>4. BufferInv' BY <1>2, <1>4, <2>2 DEF BytesInv, BufferInv
  <2> QED BY <1>6, <2>3, <2>4 DEF BytesInv
<1>9. \/ Arrive(IF rate = kind THEN Head(flight) ELSE Junk)
      \/ Arrive(Junk)
      \/ Miss(1) /\ UNCHANGED <<queue, buffer>>
  BY Zenon DEF Byte
<1>10. (IF rate = kind THEN Head(flight) ELSE Junk) \in Heard BY <1>5, HeardAreBytes
<1> QED BY Zenon, <1>7, <1>8, <1>9, <1>10, HeardAreBytes

LEMMA QueueBytes ==
  ASSUME SensorAssumption, BytesInv, TakeQueue
  PROVE  BytesInv'
<1>1. UNCHANGED <<recv, size, tag, flight, gone, kind>> BY DEF TakeQueue, Answered
<1>2. queue' = <<>> /\ odd' = TRUE /\ pc' # "temco"
  BY DEF TakeQueue, Answered, Shown, Later
<1>3. queue' \in Seq(Bytes) /\ Len(queue') <= BufLen BY <1>2 DEF SensorAssumption
<1>4. CASE kind = "ogm" /\ data' = SubSeq(queue, 1, AnswerLen) /\ goneThen' = gone
  <2>1. data' \in Seq(Bytes)
    <3>1. queue \in Seq(Bytes) /\ Len(queue) >= AnswerLen /\ AnswerLen \in Nat
      BY DEF BytesInv, BytesTyped, TakeQueue, SensorAssumption
    <3> QED BY <1>4, <3>1
  <2>2. BytesTyped' BY <1>1, <1>2, <1>3, <1>4, <2>1 DEF BytesInv, BytesTyped
  <2>3. Fresh' BY <1>1, <1>4 DEF Fresh
  <2>4. BufferInv' BY <1>1, <1>2 DEF BytesInv, BufferInv
  <2> QED BY <2>2, <2>3, <2>4 DEF BytesInv
<1>5. CASE UNCHANGED <<data, goneThen>>
  <2>1. BytesTyped' BY <1>1, <1>2, <1>3, <1>5 DEF BytesInv, BytesTyped
  <2>2. Fresh' BY <1>1, <1>5 DEF BytesInv, Fresh, Answer
  <2>3. BufferInv' BY <1>1, <1>2 DEF BytesInv, BufferInv
  <2> QED BY <2>1, <2>2, <2>3 DEF BytesInv
<1> QED BY Zenon, <1>4, <1>5 DEF TakeQueue, HeaderFits

LEMMA BufferBytes ==
  ASSUME SensorAssumption, BytesInv, TakeBuffer
  PROVE  BytesInv'
<1>1. UNCHANGED <<queue, size, odd, flight, gone, goneThen, kind>>
  BY DEF TakeBuffer, Answered, history
<1>2. recv' = <<>> /\ tag' = FALSE BY DEF TakeBuffer
<1>3. recv' \in Seq(Bytes) /\ Len(recv') <= BufLen /\ recv' \in Seq(Heard)
  BY <1>2 DEF SensorAssumption
<1>4. data' = data \/ data' = Answer
  <2>1. CASE size = AnswerLen /\ OneAnswer(recv) /\ \A i \in DOMAIN recv : recv[i] # Junk
    <3>1. pc = "temco" /\ tag BY DEF TakeBuffer
    <3>2. recv \in Seq(Heard) /\ Len(recv) >= AnswerLen BY <2>1, <3>1 DEF BytesInv, BufferInv
    <3>3. recv = Answer BY <2>1, <3>2, WholeAnswer
    <3> QED BY <2>1, <3>3 DEF TakeBuffer
  <2>2. CASE ~(size = AnswerLen /\ OneAnswer(recv) /\ \A i \in DOMAIN recv : recv[i] # Junk)
    BY <2>2 DEF TakeBuffer
  <2> QED BY <2>1, <2>2
<1>5. data' \in Seq(Bytes) BY <1>4, AnswerTyped DEF BytesInv, BytesTyped
<1>6. BytesTyped' BY <1>1, <1>2, <1>3, <1>5 DEF BytesInv, BytesTyped
<1>7. BufferInv' BY <1>1, <1>2, <1>3 DEF BytesInv, BufferInv
<1>8. Fresh' BY <1>1, <1>4 DEF BytesInv, Fresh, Answer
<1> QED BY <1>6, <1>7, <1>8 DEF BytesInv

LEMMA GiveUpBytes ==
  ASSUME SensorAssumption, BytesInv, GiveUp
  PROVE  BytesInv'
<1>1. UNCHANGED <<queue, size, odd, flight, data, gone, goneThen, kind>> BY DEF GiveUp, Silent
<1>2. pc' # "temco" BY DEF GiveUp, Silent, Forgiven, Lost, Leave, Missed, Later
<1>3. CASE recv' = <<>> /\ tag' = FALSE
  <2>1. recv' \in Seq(Bytes) /\ Len(recv') <= BufLen BY <1>3 DEF SensorAssumption
  <2>2. BytesTyped' BY <1>1, <1>3, <2>1 DEF BytesInv, BytesTyped
  <2>3. BufferInv' BY <1>1, <1>2, <1>3 DEF BytesInv, BufferInv
  <2>4. Fresh' BY <1>1 DEF BytesInv, Fresh, Answer
  <2> QED BY <2>2, <2>3, <2>4 DEF BytesInv
<1>4. CASE UNCHANGED <<recv, tag>>
  BY <1>1, <1>2, <1>4, BytesKept DEF buffer, history
<1> QED BY <1>3, <1>4 DEF GiveUp

LEMMA RestartBytes ==
  ASSUME SensorAssumption, BytesInv, Restart
  PROVE  BytesInv'
<1>1. /\ queue' = <<>> /\ recv' = <<>> /\ flight' = <<>> /\ data' = <<>> /\ size' = 0
      /\ tag' = FALSE /\ odd' = FALSE /\ gone' = 0 /\ goneThen' = 0 /\ pc' = "sleep"
  BY DEF Restart
<1>2. BytesTyped'
  <2>1. \A s \in {queue', recv'} : s \in Seq(Bytes) /\ Len(s) <= BufLen
    <3>1. <<>> \in Seq(Bytes) /\ Len(<<>>) <= BufLen BY DEF SensorAssumption
    <3> QED BY <1>1, <3>1
  <2>2. flight' \in Seq(Bytes) /\ data' \in Seq(Bytes) BY <1>1
  <2>3. gone' \in 0 .. AnswerLen /\ goneThen' \in 0 .. AnswerLen BY <1>1 DEF SensorAssumption
  <2> QED BY Zenon, <1>1, <2>1, <2>2, <2>3 DEF BytesTyped
<1>3. BufferInv' BY <1>1 DEF BufferInv
<1>4. Fresh' BY <1>1 DEF Fresh
<1> QED BY <1>2, <1>3, <1>4 DEF BytesInv

LEMMA StepBytes == SensorAssumption /\ BytesInv /\ [Next]_vars => BytesInv'
<1> SUFFICES ASSUME SensorAssumption, BytesInv, [Next]_vars PROVE BytesInv'
  OBVIOUS
<1>1. CASE Poll BY <1>1, PollBytes
<1>2. CASE Byte BY <1>2, ByteBytes
<1>3. CASE TakeQueue BY <1>3, QueueBytes
<1>4. CASE TakeBuffer BY <1>4, BufferBytes
<1>5. CASE GiveUp BY <1>5, GiveUpBytes
<1>6. CASE Restart BY <1>6, RestartBytes
<1>7. CASE Manual BY <1>7, BytesKept DEF Manual, task, bounds
<1>8. CASE NoModule
  BY <1>8, BytesKept DEF NoModule, Silent, Forgiven, Lost, Leave, Missed, Later, history
<1>9. CASE Cycle BY <1>9, BytesKept DEF Cycle, bounds
<1>10. CASE SetRate BY <1>10, BytesKept DEF SetRate, bounds
<1>11. CASE Store BY <1>11, BytesKept DEF Store, bounds
<1>12. CASE ClientStore BY <1>12, BytesKept DEF ClientStore, task, bounds
<1>13. CASE ClientRate BY <1>13, BytesKept DEF ClientRate, task, bounds
<1>14. CASE ClientType BY <1>14, BytesKept DEF ClientType, task, bounds
<1>15. CASE ClientManual BY <1>15, BytesKept DEF ClientManual, task, bounds
<1>16. CASE ClientAddress BY <1>16, BytesKept DEF ClientAddress, task, bounds
<1>17. CASE SetBit BY <1>17, BytesKept DEF SetBit, bounds
<1>18. CASE ClearBit BY <1>18, BytesKept DEF ClearBit, bounds
<1>19. CASE CountUp BY <1>19, BytesKept DEF CountUp, Shown, bounds
<1>20. CASE CountDown BY <1>20, BytesKept DEF CountDown, Missed, bounds
<1>21. CASE UNCHANGED vars BY <1>21, BytesKept DEF vars, task, bounds
<1> QED
  BY Zenon, <1>1, <1>2, <1>3, <1>4, <1>5, <1>6, <1>7, <1>8, <1>9, <1>10, <1>11, <1>12, <1>13, <1>14,
     <1>15, <1>16, <1>17, <1>18, <1>19, <1>20, <1>21 DEF Next, Task, Client
-----------------------------------------------------------------------------
Inv == PlainTyped /\ CountInv /\ OnlineInv /\ BytesInv

LEMMA Invariance == Spec => []Inv
<1>1. Init => Inv BY InitPlain, InitBytes, SensorAssumption DEF Inv
<1>2. Inv /\ [Next]_vars => Inv' BY StepPlain, StepBytes, SensorAssumption DEF Inv
<1> QED BY <1>1, <1>2, PTL DEF Spec

(* The variables have their types; neither receiver is written beyond its   *)
(* end, and the module type is one of the list.                            *)
THEOREM TypeCorrect == Spec => []TypeOK
<1>1. Inv => TypeOK
  <2> SUFFICES ASSUME Inv PROVE TypeOK
    OBVIOUS
  <2>1. ctr \in 0 .. 255 BY DEF Inv, OnlineInv
  <2> QED BY Zenon, <2>1 DEF Inv, PlainTyped, CountInv, BytesInv, BytesTyped, TypeOK
<1> QED BY <1>1, Invariance, PTL

(* After ExistCtr + 1 polls without an answer nothing measured is shown.    *)
THEOREM SilenceExpires == Spec => []Expires
<1>1. Inv => Expires BY DEF Inv, CountInv
<1> QED BY <1>1, Invariance, PTL

(* Answers and silent polls are those of the watch, a manual value replaces *)
(* a measured one, and no other step changes what is shown.                *)
LEMMA WatchKept ==
  ASSUME UNCHANGED <<reading, unanswered>>
  PROVE  UNCHANGED Watch!vars
BY DEF Watch!vars

LEMMA WatchSilent ==
  ASSUME SensorAssumption, CountInv, Silent, pc \in {"ogm", "temco", "none"}
  PROVE  Watch!Miss
<1>1. ExistCtr \in Nat BY DEF SensorAssumption
<1>2. unanswered' = IF unanswered < ExistCtr + 1 THEN unanswered + 1 ELSE unanswered
  BY <1>1 DEF CountInv, Silent
<1>3. CASE fail < ExistCtr
  <2>1. reading' = reading /\ unanswered < ExistCtr BY <1>1, <1>3 DEF CountInv, Silent, Forgiven
  <2> QED BY <1>1, <1>2, <2>1 DEF CountInv, Watch!Miss
<1>4. CASE ~(fail < ExistCtr)
  <2>1. unanswered \in Nat /\ unanswered >= ExistCtr BY <1>1, <1>4 DEF CountInv
  <2>2. unanswered' >= ExistCtr + 1 BY <1>1, <1>2, <2>1
  <2>3. (reading' = "measured") = FALSE BY <1>4 DEF Silent, Lost
  <2> QED BY <1>2, <2>2, <2>3 DEF Watch!Miss
<1> QED BY <1>3, <1>4

LEMMA WatchStep == SensorAssumption /\ CountInv /\ [Next]_vars => [Watch!Next]_(Watch!vars)
<1> SUFFICES ASSUME SensorAssumption, CountInv, [Next]_vars PROVE [Watch!Next]_(Watch!vars)
  OBVIOUS
<1>1. CASE TakeQueue \/ TakeBuffer \/ CountUp
  <2>1. Shown \/ UNCHANGED <<reading, unanswered>>
    BY <1>1 DEF TakeQueue, TakeBuffer, Answered, CountUp
  <2>2. CASE Shown
    <3>1. Watch!Answer BY <2>2 DEF Shown, Watch!Answer
    <3> QED BY <3>1 DEF Watch!Next
  <2>3. CASE UNCHANGED <<reading, unanswered>> BY <2>3, WatchKept
  <2> QED BY <2>1, <2>2, <2>3
<1>2. CASE GiveUp \/ NoModule
  <2>1. Watch!Miss BY <1>2, WatchSilent DEF GiveUp, NoModule
  <2> QED BY <2>1 DEF Watch!Next
<1>3. CASE Manual
  <2>1. Watch!Replace BY <1>3 DEF Manual, Watch!Replace
  <2> QED BY <2>1 DEF Watch!Next
<1>4. CASE Restart
  <2>1. Watch!Boot BY <1>4 DEF Restart, Watch!Boot
  <2> QED BY <2>1 DEF Watch!Next
<1>5. CASE Poll \/ Byte \/ SetBit \/ ClearBit \/ CountDown \/ Cycle \/ SetRate \/ Store
  <2>1. UNCHANGED <<reading, unanswered>>
    BY <1>5 DEF Poll, Byte, SetBit, ClearBit, CountDown, Cycle, SetRate, Store, shown
  <2> QED BY <2>1, WatchKept
<1>6. CASE Client \/ ClientType \/ ClientManual \/ ClientAddress
  <2>1. UNCHANGED <<reading, unanswered>>
    BY <1>6 DEF Client, ClientStore, ClientRate, ClientType, ClientManual, ClientAddress, shown
  <2> QED BY <2>1, WatchKept
<1>7. CASE UNCHANGED vars
  <2>1. UNCHANGED <<reading, unanswered>> BY <1>7 DEF vars, shown
  <2> QED BY <2>1, WatchKept
<1> QED BY <1>1, <1>2, <1>3, <1>4, <1>5, <1>6, <1>7 DEF Next, Task

(* For every number of failures that are forgiven, a measured value is      *)
(* shown from an answer on and no longer than they last, and is not given   *)
(* up before, whatever clients change and the line loses meanwhile.        *)
THEOREM ImplementsWatch == Spec => WatchSpec
<1>1. Init => Watch!Init BY DEF Init, Watch!Init
<1>2. Inv /\ [Next]_vars => [Watch!Next]_(Watch!vars) BY WatchStep, SensorAssumption DEF Inv
<1> QED BY <1>1, <1>2, Invariance, PTL DEF Spec, WatchSpec, Watch!Spec

(* A reading of a TEMCO module is the whole answer to the poll it was taken *)
(* in, whatever was lost, garbled or late before.                          *)
THEOREM ReadingsAreFresh == Spec => []Fresh
<1>1. Inv => Fresh BY DEF Inv, BytesInv
<1> QED BY <1>1, Invariance, PTL

(* The counter is the number of addresses that count as online modulo 256,  *)
(* but for the one just being counted, and one more or less for each bit    *)
(* that was set or cleared at another address than was tested.              *)
THEOREM OnlineIsCounted == Spec => []Counted
<1>1. Inv => Counted BY DEF Inv, OnlineInv, Counted
<1> QED BY <1>1, Invariance, PTL
-----------------------------------------------------------------------------
(* The bytes that the module has sent since the queue was last empty are     *)
(* numbered: byte p of the n-th answer has the number n * AnswerLen + p.     *)
(* Byte i of the queue has the number s[i], of answer a[i], the next byte    *)
(* that the module sends the number t, of answer n.                         *)
Ahead(n) == n * AnswerLen + (IF flight = <<>> THEN 1 ELSE AnswerLen + 1 - Len(flight))

(* The numbers increase, and skip no more than what the queue misses.       *)
Numbered(a, s, n) ==
  /\ n \in Nat /\ a \in [1 .. Len(queue) -> Nat] /\ s \in [1 .. Len(queue) -> Nat]
  /\ \A i \in 1 .. Len(queue) :
       /\ s[i] - a[i] * AnswerLen \in 1 .. AnswerLen
       /\ a[i] <= n /\ (flight = <<>> => a[i] < n)
       /\ Ahead(n) - s[i] >= Len(queue) + 1 - i
  /\ \A i \in 1 .. Len(queue) : \A j \in 1 .. Len(queue) : i <= j => s[j] - s[i] >= j - i
  /\ queue # <<>> => Ahead(n) - s[1] <= Len(queue) + gone

(* A byte that is not garbled has its place, and the age of its answer.     *)
Dated(a, s, n) ==
  /\ \A i \in 1 .. Len(queue) : queue[i] # Junk =>
       queue[i][2] = s[i] - a[i] * AnswerLen /\ (a[i] = n => queue[i][1] = 0)
  /\ \A i \in 1 .. Len(queue) : \A j \in 1 .. Len(queue) :
       queue[i] # Junk /\ queue[j] # Junk /\ a[i] = a[j] => queue[i][1] = queue[j][1]

(* What is on its way is the rest of an answer.                             *)
Rest ==
  /\ Len(flight) <= AnswerLen
  /\ \A k \in 1 .. Len(flight) : flight[k] = <<0, AnswerLen - Len(flight) + k>>

StreamInv ==
  /\ Rest
  /\ gone < AnswerLen => \E a, s, n : Numbered(a, s, n) /\ Dated(a, s, n)

(* An empty queue misses nothing. *)
LEMMA EmptyStream ==
  ASSUME queue = <<>>, Rest PROVE StreamInv
<1>1. Numbered(<<>>, <<>>, 0) /\ Dated(<<>>, <<>>, 0) BY DEF Numbered, Dated
<1> QED BY <1>1 DEF StreamInv

LEMMA StreamKept ==
  ASSUME StreamInv, UNCHANGED <<queue, flight, gone>> PROVE StreamInv'
<1>1. Rest' BY DEF StreamInv, Rest
<1>2. ASSUME gone' < AnswerLen PROVE \E a, s, n : Numbered(a, s, n)' /\ Dated(a, s, n)'
  <2>1. PICK a, s, n : Numbered(a, s, n) /\ Dated(a, s, n) BY <1>2 DEF StreamInv
  <2>2. Ahead(n)' = Ahead(n) BY DEF Ahead
  <2>3. Numbered(a, s, n)' BY Zenon, <2>1, <2>2 DEF Numbered
  <2>4. Dated(a, s, n)' BY <2>1 DEF Dated
  <2> QED BY <2>3, <2>4
<1> QED BY <1>1, <1>2 DEF StreamInv

LEMMA Multiples ==
  ASSUME NEW x \in Int, NEW y \in Int, NEW l \in Nat \ {0}, x * l - y * l < l, y * l - x * l < l
  PROVE  x = y
<1>1. (x - y) * l < l /\ (y - x) * l < l BY SMT
<1>2. CASE x - y >= 1
  <2>1. (x - y) * l >= l BY <1>2, SMT
  <2> QED BY <1>1, <2>1
<1>3. CASE y - x >= 1
  <2>1. (y - x) * l >= l BY <1>3, SMT
  <2> QED BY <1>1, <2>1
<1> QED BY <1>2, <1>3

LEMMA Span ==
  ASSUME NEW t \in Int, NEW s1 \in Int, NEW sl \in Int, NEW q \in Int, NEW g \in Int, NEW l \in Int,
         t - s1 <= q + g, t - sl >= q + 1 - l, g < l
  PROVE  sl - s1 < 2 * l - 1
OBVIOUS

LEMMA Same ==
  ASSUME NEW x \in Int, NEW y \in Int, NEW s1 \in Int, NEW sl \in Int, NEW l \in Int,
         s1 - x = 1, sl - y = l, sl - s1 >= l - 1, sl - s1 < 2 * l - 1
  PROVE  y - x < l /\ x - y < l
OBVIOUS

LEMMA Inside ==
  ASSUME NEW x \in Int, NEW y \in Int, NEW s1 \in Int, NEW sk \in Int, NEW sl \in Int, NEW l \in Int,
         NEW k \in Int, 1 <= k, k <= l, s1 - x = 1, sl - x = l, sk - s1 >= k - 1, sl - sk >= l - k,
         sk - y >= 1, sk - y <= l
  PROVE  sk - x = k /\ y - x < l /\ x - y < l
OBVIOUS

(* An answer's worth of bytes that begins and ends as an answer does is one, *)
(* as long as fewer are missing than an answer has.                        *)
LEMMA OneIsWhole ==
  ASSUME SensorAssumption, queue \in Seq(Bytes), Len(queue) >= AnswerLen, HeaderFits,
         gone < AnswerLen, gone \in Nat, flight \in Seq(Bytes), StreamInv
  PROVE  OneAnswer(SubSeq(queue, 1, AnswerLen))
<1>1. PICK a, s, n : Numbered(a, s, n) /\ Dated(a, s, n) BY DEF StreamInv
<1>2. AnswerLen \in Nat \ {0} /\ AnswerLen > 2 /\ Len(queue) \in Nat BY DEF SensorAssumption
<1>3. 1 \in 1 .. Len(queue) /\ AnswerLen \in 1 .. Len(queue) /\ queue # <<>> BY <1>2
<1>4. queue[1][2] = 1 /\ queue[AnswerLen][2] = AnswerLen BY DEF HeaderFits
<1>5. queue[1] # Junk /\ queue[AnswerLen] # Junk
  BY <1>2, <1>4 DEF Junk
<1>6. \A i \in 1 .. Len(queue) : s[i] \in Int /\ a[i] \in Int /\ a[i] * AnswerLen \in Int
                               /\ s[i] - a[i] * AnswerLen >= 1 /\ s[i] - a[i] * AnswerLen <= AnswerLen
  <2> TAKE i \in 1 .. Len(queue)
  <2>1. s[i] \in Nat /\ a[i] \in Nat BY <1>1 DEF Numbered
  <2>2. a[i] * AnswerLen \in Int BY <2>1, <1>2
  <2>3. s[i] - a[i] * AnswerLen \in 1 .. AnswerLen BY <1>1 DEF Numbered
  <2> QED BY <2>1, <2>2, <2>3, <1>2
<1>7. s[1] - a[1] * AnswerLen = 1 /\ s[AnswerLen] - a[AnswerLen] * AnswerLen = AnswerLen BY <1>1, <1>3, <1>4, <1>5 DEF Dated
<1>8. \A i \in 1 .. Len(queue) : \A j \in 1 .. Len(queue) : i <= j => s[j] - s[i] >= j - i
  BY <1>1 DEF Numbered
<1>9. s[AnswerLen] - s[1] < 2 * AnswerLen - 1
  <2>1. Ahead(n) - s[1] <= Len(queue) + gone BY <1>1, <1>3 DEF Numbered
  <2>2. Ahead(n) - s[AnswerLen] >= Len(queue) + 1 - AnswerLen BY <1>1, <1>3 DEF Numbered
  <2>3. Ahead(n) \in Int
    <3>1. n \in Nat BY <1>1 DEF Numbered
    <3>2. n * AnswerLen \in Int BY <1>2, <3>1
    <3>3. Len(flight) \in Int OBVIOUS
    <3> QED BY <3>2, <3>3, <1>2 DEF Ahead
  <2>4. s[1] \in Int /\ s[AnswerLen] \in Int BY <1>3, <1>6
  <2> QED BY <2>1, <2>2, <2>3, <2>4, <1>2, Span
<1>10. a[AnswerLen] = a[1]
  <2>1. s[AnswerLen] - s[1] >= AnswerLen - 1 BY <1>3, <1>8, <1>2
  <2>2. s[1] \in Int /\ s[AnswerLen] \in Int /\ a[1] \in Int /\ a[AnswerLen] \in Int
        /\ a[1] * AnswerLen \in Int /\ a[AnswerLen] * AnswerLen \in Int
    BY <1>3, <1>6
  <2>3. a[AnswerLen] * AnswerLen - a[1] * AnswerLen < AnswerLen
        /\ a[1] * AnswerLen - a[AnswerLen] * AnswerLen < AnswerLen
    <3> DEFINE x == a[1] * AnswerLen
               y == a[AnswerLen] * AnswerLen
    <3>1. x \in Int /\ y \in Int /\ AnswerLen \in Int BY <2>2, <1>2
    <3>2. s[1] - x = 1 /\ s[AnswerLen] - y = AnswerLen BY <1>7
    <3> HIDE DEF x, y
    <3>3. y - x < AnswerLen /\ x - y < AnswerLen
      BY <2>1, <2>2, <3>1, <3>2, <1>9, Same
    <3> QED BY <3>3 DEF x, y
  <2> QED BY <2>2, <2>3, <1>2, Multiples
<1>11. \A k \in 1 .. AnswerLen : a[k] = a[1] /\ s[k] - a[k] * AnswerLen = k
  <2> TAKE k \in 1 .. AnswerLen
  <2>1. k \in 1 .. Len(queue) /\ 1 <= k /\ k <= AnswerLen /\ k \in Int BY <1>2
  <2>2. s[k] - s[1] >= k - 1 /\ s[AnswerLen] - s[k] >= AnswerLen - k BY <1>3, <1>8, <2>1
  <2>3. /\ s[1] \in Int /\ s[k] \in Int /\ s[AnswerLen] \in Int /\ a[k] \in Int /\ a[1] \in Int
        /\ a[1] * AnswerLen \in Int /\ a[k] * AnswerLen \in Int
        /\ s[k] - a[k] * AnswerLen >= 1 /\ s[k] - a[k] * AnswerLen <= AnswerLen
    BY <1>3, <1>6, <2>1
  <2>4. s[AnswerLen] - a[1] * AnswerLen = AnswerLen BY <1>7, <1>10
  <2>5. s[k] - a[1] * AnswerLen = k /\ a[k] * AnswerLen - a[1] * AnswerLen < AnswerLen
        /\ a[1] * AnswerLen - a[k] * AnswerLen < AnswerLen
    <3> DEFINE x == a[1] * AnswerLen
               y == a[k] * AnswerLen
    <3>1. x \in Int /\ y \in Int /\ AnswerLen \in Int BY <2>3, <1>2
    <3>2. s[1] - x = 1 /\ s[AnswerLen] - x = AnswerLen /\ s[k] - y >= 1 /\ s[k] - y <= AnswerLen
      BY <1>7, <2>3, <2>4
    <3> HIDE DEF x, y
    <3>3. s[k] - x = k /\ y - x < AnswerLen /\ x - y < AnswerLen
      BY <2>1, <2>2, <2>3, <3>1, <3>2, Inside
    <3> QED BY <3>3 DEF x, y
  <2>6. a[k] = a[1] BY <2>3, <2>5, <1>2, Multiples
  <2> QED BY <2>5, <2>6
<1>12. \A k \in 1 .. AnswerLen : queue[k] # Junk => queue[k][2] = k /\ queue[k][1] = queue[1][1]
  <2> TAKE k \in 1 .. AnswerLen
  <2>1. k \in 1 .. Len(queue) BY <1>2
  <2> QED BY <2>1, <1>1, <1>3, <1>5, <1>11 DEF Dated
<1> DEFINE first == SubSeq(queue, 1, AnswerLen)
<1>13. DOMAIN first = 1 .. AnswerLen /\ \A k \in 1 .. AnswerLen : first[k] = queue[k] BY <1>2
<1>14. \A k \in 1 .. AnswerLen : queue[k] \in Bytes BY <1>2
<1>15. queue[1][1] \in 0 .. 2 BY <1>2, <1>5, <1>14 DEF Bytes
<1>16. \A k \in 1 .. AnswerLen : first[k] \in {Junk, <<queue[1][1], k>>}
  BY <1>12, <1>13, <1>14 DEF Bytes
<1> QED BY <1>13, <1>15, <1>16 DEF OneAnswer
-----------------------------------------------------------------------------
LEMMA RestKept ==
  ASSUME SensorAssumption, flight \in Seq(Bytes), Rest, flight # <<>>, flight' = Tail(flight)
  PROVE  /\ Rest' /\ Head(flight) = <<0, AnswerLen + 1 - Len(flight)>>
         /\ Len(flight') = Len(flight) - 1 /\ Len(flight) \in 1 .. AnswerLen
<1>1. Len(flight) \in Nat \ {0} /\ Len(flight') = Len(flight) - 1 /\ AnswerLen \in Nat
  BY DEF SensorAssumption
<1>2. Head(flight) = flight[1] OBVIOUS
<1>3. \A k \in 1 .. Len(flight') : flight'[k] = flight[k + 1] /\ k + 1 \in 1 .. Len(flight)
  BY <1>1
<1>4. Head(flight) = <<0, AnswerLen + 1 - Len(flight)>>
  BY <1>1, <1>2 DEF Rest
<1>5. \A k \in 1 .. Len(flight') : flight'[k] = <<0, AnswerLen - Len(flight') + k>>
  <2> TAKE k \in 1 .. Len(flight')
  <2>1. flight'[k] = <<0, AnswerLen - Len(flight) + (k + 1)>> BY <1>3 DEF Rest
  <2>2. AnswerLen - Len(flight) + (k + 1) = AnswerLen - Len(flight') + k BY <1>1
  <2> QED BY <2>1, <2>2
<1>6. Len(flight') <= AnswerLen /\ Len(flight) <= AnswerLen BY <1>1 DEF Rest
<1> QED BY <1>1, <1>4, <1>5, <1>6 DEF Rest

(* The number of the byte that comes next, after one more has come.         *)
LEMMA AheadNext ==
  ASSUME SensorAssumption, flight \in Seq(Bytes), flight # <<>>, flight' = Tail(flight), NEW n \in Nat,
         NEW m, m = IF Len(flight) = 1 THEN n + 1 ELSE n
  PROVE  /\ m \in Nat /\ n <= m /\ Ahead(m)' = Ahead(n) + 1 /\ Ahead(n) \in Int
         /\ flight' = <<>> => n < m
         /\ Ahead(n) = n * AnswerLen + (AnswerLen + 1 - Len(flight))
<1>1. Len(flight) \in Nat \ {0} /\ Len(flight') = Len(flight) - 1 /\ AnswerLen \in Nat
  BY DEF SensorAssumption
<1>2. flight' = <<>> <=> Len(flight) = 1 BY <1>1
<1>3. n * AnswerLen \in Nat BY <1>1
<1>4. Ahead(n) = n * AnswerLen + (AnswerLen + 1 - Len(flight)) BY DEF Ahead
<1>5. Ahead(m)' = m * AnswerLen + (IF flight' = <<>> THEN 1 ELSE AnswerLen + 1 - Len(flight'))
  BY DEF Ahead
<1>6. CASE Len(flight) = 1
  <2>1. m = n + 1 BY <1>6
  <2>2. m * AnswerLen = n * AnswerLen + AnswerLen BY <2>1, <1>1
  <2>3. Ahead(m)' = m * AnswerLen + 1 BY <1>2, <1>5, <1>6
  <2> QED BY <1>1, <1>3, <1>4, <1>6, <2>1, <2>2, <2>3
<1>7. CASE Len(flight) # 1
  <2>1. m = n BY <1>7
  <2>2. Ahead(m)' = n * AnswerLen + (AnswerLen + 1 - Len(flight')) BY <1>2, <1>5, <1>7, <2>1
  <2> QED BY <1>1, <1>2, <1>3, <1>4, <1>7, <2>1, <2>2
<1> QED BY <1>6, <1>7

(* A byte that is not put into the queue is missing there.                  *)
LEMMA StreamMiss ==
  ASSUME SensorAssumption, flight \in Seq(Bytes), flight # <<>>, flight' = Tail(flight), Rest,
         UNCHANGED queue, queue \in Seq(Bytes), gone \in Nat, gone' = gone + 1,
         NEW a, NEW s, NEW n, Numbered(a, s, n), Dated(a, s, n)
  PROVE  \E b, r, m : Numbered(b, r, m)' /\ Dated(b, r, m)'
<1>1. n \in Nat BY DEF Numbered
<1>2. PICK m : m = IF Len(flight) = 1 THEN n + 1 ELSE n OBVIOUS
<1>3. /\ m \in Nat /\ n <= m /\ Ahead(m)' = Ahead(n) + 1 /\ Ahead(n) \in Int
      /\ flight' = <<>> => n < m
  BY <1>1, <1>2, AheadNext
<1>4. Len(queue) \in Nat /\ Len(queue') = Len(queue) OBVIOUS
<1>5. \A i \in 1 .. Len(queue) : a[i] \in Nat /\ s[i] \in Nat BY DEF Numbered
<1>6. \A i \in 1 .. Len(queue) :
        /\ s[i] - a[i] * AnswerLen \in 1 .. AnswerLen
        /\ a[i] <= n /\ (flight = <<>> => a[i] < n)
        /\ Ahead(n) - s[i] >= Len(queue) + 1 - i
  BY DEF Numbered
<1>7. \A i \in 1 .. Len(queue) :
        /\ a[i] <= m /\ (flight' = <<>> => a[i] < m)
        /\ Ahead(m)' - s[i] >= Len(queue) + 1 - i
  <2> TAKE i \in 1 .. Len(queue)
  <2>1. a[i] \in Nat /\ s[i] \in Nat /\ a[i] <= n /\ Ahead(n) - s[i] >= Len(queue) + 1 - i
    BY <1>5, <1>6
  <2>2. Len(queue) + 1 - i \in Int BY <1>4
  <2>3. Ahead(m)' \in Int BY <1>3
  <2> QED BY <1>1, <1>3, <2>1, <2>2, <2>3
<1>8. queue # <<>> => Ahead(m)' - s[1] <= Len(queue) + gone'
  <2> SUFFICES ASSUME queue # <<>> PROVE Ahead(m)' - s[1] <= Len(queue) + gone'
    OBVIOUS
  <2>1. Ahead(n) - s[1] <= Len(queue) + gone BY DEF Numbered
  <2>2. 1 \in 1 .. Len(queue) BY <1>4
  <2>3. s[1] \in Nat BY <1>5, <2>2
  <2> QED BY <1>3, <1>4, <2>1, <2>3
<1>9. Numbered(a, s, m)'
  BY Zenon, <1>3, <1>6, <1>7, <1>8 DEF Numbered
<1>10. Dated(a, s, m)'
  <2>1. \A i \in 1 .. Len(queue) : a[i] = m => a[i] = n
    <3> TAKE i \in 1 .. Len(queue)
    <3> QED BY <1>1, <1>3, <1>5, <1>6
  <2> QED BY <2>1 DEF Dated
<1> QED BY <1>9, <1>10

(* A byte that is put into the queue has the next number.                   *)
LEMMA StreamQueue ==
  ASSUME SensorAssumption, flight \in Seq(Bytes), flight # <<>>, flight' = Tail(flight), Rest,
         queue \in Seq(Bytes), gone \in Nat, gone' \in Nat, gone' >= gone,
         NEW c \in {Junk, Head(flight)}, queue' = Append(queue, c),
         NEW a, NEW s, NEW n, Numbered(a, s, n), Dated(a, s, n)
  PROVE  \E b, r, m : Numbered(b, r, m)' /\ Dated(b, r, m)'
<1>1. n \in Nat BY DEF Numbered
<1>2. PICK m : m = IF Len(flight) = 1 THEN n + 1 ELSE n OBVIOUS
<1>3. /\ m \in Nat /\ n <= m /\ Ahead(m)' = Ahead(n) + 1 /\ Ahead(n) \in Int
      /\ flight' = <<>> => n < m
      /\ Ahead(n) = n * AnswerLen + (AnswerLen + 1 - Len(flight))
  BY <1>1, <1>2, AheadNext
<1>4. PICK t : t = Ahead(n) OBVIOUS
<1>5. PICK q : q = Len(queue) OBVIOUS
<1>6. q \in Nat /\ Len(queue') = q + 1 /\ t \in Int BY <1>3, <1>4, <1>5
<1>7. Len(flight) \in 1 .. AnswerLen /\ Head(flight) = <<0, AnswerLen + 1 - Len(flight)>>
      /\ AnswerLen \in Nat
  BY RestKept DEF SensorAssumption
<1>8. t - n * AnswerLen = AnswerLen + 1 - Len(flight) /\ t - n * AnswerLen \in 1 .. AnswerLen
      /\ t \in Nat
  <2> DEFINE x == n * AnswerLen
  <2>1. x \in Nat BY <1>1, <1>7
  <2>2. t = x + (AnswerLen + 1 - Len(flight)) BY <1>3, <1>4
  <2> HIDE DEF x
  <2>3. t - x = AnswerLen + 1 - Len(flight) /\ t - x \in 1 .. AnswerLen /\ t \in Nat
    BY <2>1, <2>2, <1>7
  <2> QED BY <2>3 DEF x
<1>0. PICK u : u = Ahead(m)' OBVIOUS
<1>27. u = t + 1 BY <1>0, <1>3, <1>4
<1>9. PICK b : b = [i \in 1 .. q + 1 |-> IF i = q + 1 THEN n ELSE a[i]] OBVIOUS
<1>10. PICK r : r = [i \in 1 .. q + 1 |-> IF i = q + 1 THEN t ELSE s[i]] OBVIOUS
<1>11. /\ b[q + 1] = n /\ r[q + 1] = t
       /\ \A i \in 1 .. q : i \in 1 .. q + 1 /\ b[i] = a[i] /\ r[i] = s[i]
  BY <1>6, <1>9, <1>10
<1>12. \A i \in 1 .. q : /\ a[i] \in Nat /\ s[i] \in Nat
                         /\ s[i] - a[i] * AnswerLen \in 1 .. AnswerLen
                         /\ a[i] <= n /\ t - s[i] >= q + 1 - i
  BY <1>4, <1>5 DEF Numbered
<1>13. b \in [1 .. q + 1 -> Nat] /\ r \in [1 .. q + 1 -> Nat]
  <2>1. \A i \in 1 .. q + 1 : i = q + 1 \/ i \in 1 .. q BY <1>6
  <2> QED BY <2>1, <1>1, <1>8, <1>9, <1>10, <1>12
<1>14. \A i \in 1 .. q + 1 : i = q + 1 \/ i \in 1 .. q BY <1>6
<1>15. \A i \in 1 .. q + 1 : /\ r[i] - b[i] * AnswerLen \in 1 .. AnswerLen
                             /\ b[i] <= m /\ (flight' = <<>> => b[i] < m)
                             /\ u - r[i] >= q + 2 - i
  <2> TAKE i \in 1 .. q + 1
  <2>1. CASE i = q + 1
    <3>1. r[i] = t /\ b[i] = n BY <2>1, <1>11
    <3>2. u - r[i] >= q + 2 - i BY <3>1, <2>1, <1>27, <1>6
    <3> QED BY <3>1, <3>2, <1>1, <1>3, <1>8
  <2>2. CASE i \in 1 .. q
    <3>1. r[i] = s[i] /\ b[i] = a[i] /\ a[i] \in Nat /\ s[i] \in Nat /\ a[i] <= n
          /\ t - s[i] >= q + 1 - i
      BY <2>2, <1>11, <1>12
    <3>2. t + 1 - s[i] >= q + 2 - i BY <3>1, <1>6
    <3>4. u - r[i] >= q + 2 - i BY <3>1, <3>2, <1>27, <1>6
    <3>3. b[i] <= m /\ (flight' = <<>> => b[i] < m) BY <3>1, <1>1, <1>3
    <3> QED BY <3>1, <3>3, <3>4, <2>2, <1>12
  <2> QED BY <2>1, <2>2, <1>14
<1>16. \A i \in 1 .. q + 1 : \A j \in 1 .. q + 1 : i <= j => r[j] - r[i] >= j - i
  <2> SUFFICES ASSUME NEW i \in 1 .. q + 1, NEW j \in 1 .. q + 1, i <= j
               PROVE  r[j] - r[i] >= j - i
    OBVIOUS
  <2>1. CASE j \in 1 .. q
    <3>1. i \in 1 .. q BY <2>1, <1>6
    <3>2. s[j] - s[i] >= j - i BY <3>1, <2>1, <1>5 DEF Numbered
    <3> QED BY <2>1, <3>1, <3>2, <1>11
  <2>2. CASE j = q + 1 /\ i = q + 1 BY <2>2, <1>6, <1>11
  <2>3. CASE j = q + 1 /\ i \in 1 .. q
    <3>1. t - s[i] >= q + 1 - i /\ s[i] \in Int BY <2>3, <1>12
    <3>2. r[j] = t /\ r[i] = s[i] BY <2>3, <1>11
    <3> QED BY <3>1, <3>2, <2>3, <1>6
  <2> QED BY <2>1, <2>2, <2>3, <1>14
<1>17. u - r[1] <= q + 1 + gone'
  <2>1. CASE q = 0
    <3>1. r[1] = t BY <2>1, <1>11
    <3>2. u - t = 1 /\ gone' \in Nat BY <1>27, <1>6
    <3> QED BY <3>1, <3>2, <2>1
  <2>2. CASE q # 0
    <3>1. 1 \in 1 .. q /\ queue # <<>> BY <2>2, <1>5, <1>6
    <3>2. t - s[1] <= q + gone BY <3>1, <1>4, <1>5 DEF Numbered
    <3>3. r[1] = s[1] /\ s[1] \in Nat BY <3>1, <1>11, <1>12
    <3>4. t + 1 - s[1] <= q + 1 + gone'
      <4>1. gone \in Int /\ gone' \in Int /\ gone' >= gone OBVIOUS
      <4> QED BY <3>2, <3>3, <4>1, <1>6
    <3> QED BY <3>3, <3>4, <1>27, <1>6
  <2> QED BY <2>1, <2>2
<1>18. Numbered(b, r, m)'
  <2>1. q + 1 + 1 = q + 2 BY <1>6
  <2>2. \A i \in 1 .. Len(queue') : Ahead(m)' - r[i] >= Len(queue') + 1 - i
    <3> TAKE i \in 1 .. Len(queue')
    <3>1. i \in 1 .. q + 1 BY <1>6
    <3>2. Len(queue') + 1 - i = q + 2 - i BY <1>6
    <3> QED BY <3>1, <3>2, <1>0, <1>15
  <2> QED BY <2>2, <1>0, <1>3, <1>6, <1>13, <1>15, <1>16, <1>17 DEF Numbered
<1>19. /\ queue'[q + 1] = c
       /\ \A i \in 1 .. q : queue'[i] = queue[i]
  BY <1>5
<1>20. c # Junk => c[1] = 0 /\ c[2] = AnswerLen + 1 - Len(flight)
  BY <1>7
<1>21. \A i \in 1 .. q : queue[i] # Junk =>
         queue[i][2] = s[i] - a[i] * AnswerLen /\ (a[i] = n => queue[i][1] = 0)
  BY <1>5 DEF Dated
<1>22. \A i \in 1 .. q + 1 : queue'[i] # Junk =>
         queue'[i][2] = r[i] - b[i] * AnswerLen /\ (b[i] = n => queue'[i][1] = 0)
  <2> TAKE i \in 1 .. q + 1
  <2>1. CASE i = q + 1 BY <2>1, <1>8, <1>11, <1>19, <1>20
  <2>2. CASE i \in 1 .. q BY <2>2, <1>11, <1>19, <1>21
  <2> QED BY <2>1, <2>2, <1>14
<1>23. \A i \in 1 .. q + 1 : b[i] \in Nat /\ b[i] <= n
  <2> TAKE i \in 1 .. q + 1
  <2>1. CASE i = q + 1 BY <2>1, <1>1, <1>11
  <2>2. CASE i \in 1 .. q BY <2>2, <1>11, <1>12
  <2> QED BY <2>1, <2>2, <1>14
<1>24. \A i \in 1 .. q + 1 : queue'[i] # Junk /\ b[i] = m => queue'[i][1] = 0
  <2> TAKE i \in 1 .. q + 1
  <2>1. b[i] = m => b[i] = n BY <1>1, <1>3, <1>23
  <2> QED BY <2>1, <1>22
<1>25. \A i \in 1 .. q + 1 : \A j \in 1 .. q + 1 :
         queue'[i] # Junk /\ queue'[j] # Junk /\ b[i] = b[j] => queue'[i][1] = queue'[j][1]
  <2> SUFFICES ASSUME NEW i \in 1 .. q + 1, NEW j \in 1 .. q + 1,
                      queue'[i] # Junk, queue'[j] # Junk, b[i] = b[j]
               PROVE  queue'[i][1] = queue'[j][1]
    OBVIOUS
  <2>1. CASE i = q + 1 \/ j = q + 1
    <3>1. b[i] = n /\ b[j] = n BY <2>1, <1>11
    <3> QED BY <3>1, <1>22
  <2>2. CASE i \in 1 .. q /\ j \in 1 .. q
    <3>1. queue'[i] = queue[i] /\ queue'[j] = queue[j] /\ a[i] = a[j] BY <2>2, <1>11, <1>19
    <3> QED BY <3>1, <2>2, <1>5 DEF Dated
  <2>3. (i = q + 1 \/ i \in 1 .. q) /\ (j = q + 1 \/ j \in 1 .. q) BY <1>14
  <2> QED BY Zenon, <2>1, <2>2, <2>3
<1>26. Dated(b, r, m)' BY <1>6, <1>22, <1>24, <1>25 DEF Dated
<1> QED BY <1>18, <1>26
-----------------------------------------------------------------------------
LEMMA StreamByte ==
  ASSUME SensorAssumption, BytesInv, StreamInv, Byte PROVE StreamInv'
<1>1. flight # <<>> /\ flight' = Tail(flight) BY DEF Byte
<1>2. flight \in Seq(Bytes) /\ queue \in Seq(Bytes) /\ gone \in Nat /\ AnswerLen \in Nat /\ Rest
  BY DEF BytesInv, BytesTyped, SensorAssumption, StreamInv
<1>3. Rest' BY <1>1, <1>2, RestKept
<1>4. \/ UNCHANGED queue /\ Miss(1)
      \/ \E c \in {Junk, Head(flight)} : ToQueue(c)
  BY DEF Byte, Arrive, ToBuffer
<1>5. ASSUME gone' < AnswerLen
      PROVE  \E b, r, m : Numbered(b, r, m)' /\ Dated(b, r, m)'
  <2>1. CASE UNCHANGED queue /\ Miss(1)
    <3>1. gone' = gone + 1 /\ gone < AnswerLen BY <1>2, <1>5, <2>1 DEF Miss
    <3>2. PICK a, s, n : Numbered(a, s, n) /\ Dated(a, s, n) BY <3>1 DEF StreamInv
    <3> QED BY <1>1, <1>2, <2>1, <3>1, <3>2, StreamMiss
  <2>2. ASSUME NEW c \in {Junk, Head(flight)}, queue' = Append(queue, c), gone' \in {gone, gone + 1}
        PROVE  \E b, r, m : Numbered(b, r, m)' /\ Dated(b, r, m)'
    <3>1. gone' \in Nat /\ gone' >= gone /\ gone < AnswerLen BY <1>2, <1>5, <2>2
    <3>2. PICK a, s, n : Numbered(a, s, n) /\ Dated(a, s, n) BY <3>1 DEF StreamInv
    <3> QED BY <1>1, <1>2, <2>2, <3>1, <3>2, StreamQueue
  <2>3. ASSUME NEW c \in {Junk, Head(flight)}, ToQueue(c)
        PROVE  \E b, r, m : Numbered(b, r, m)' /\ Dated(b, r, m)'
    <3>1. CASE Len(queue) < BufLen
      <4>1. queue' = Append(queue, c) BY <2>3, <3>1 DEF ToQueue
      <4>2. Miss(0) \/ Miss(1) BY <2>3 DEF ToQueue
      <4>3. gone' \in {gone, gone + 1} BY <4>2, <1>2, <1>5 DEF Miss
      <4> QED BY <4>1, <4>3, <2>2
    <3>2. CASE ~(Len(queue) < BufLen)
      <4>1. UNCHANGED queue /\ Miss(1) BY <2>3, <3>2 DEF ToQueue
      <4> QED BY <4>1, <2>1
    <3> QED BY <3>1, <3>2
  <2> QED BY <1>4, <2>1, <2>3
<1> QED BY <1>3, <1>5 DEF StreamInv

LEMMA StreamPoll ==
  ASSUME SensorAssumption, BytesInv, StreamInv, Poll PROVE StreamInv'
<1>1. flight = <<>> /\ queue' = Older(queue) /\ flight' \in {Answer, <<>>}
      /\ gone' = IF queue = <<>> THEN 0 ELSE gone
  BY DEF Poll, Asleep
<1>2. queue \in Seq(Bytes) /\ gone \in Nat /\ AnswerLen \in Nat /\ AnswerLen > 2
  BY DEF BytesInv, BytesTyped, SensorAssumption
<1>3. Answer \in Seq(Now) /\ Len(Answer) = AnswerLen
      /\ \A k \in 1 .. AnswerLen : Answer[k] = <<0, k>>
  BY <1>2, AnswerTyped DEF Answer
<1>4. Rest'
  <2>1. CASE flight' = <<>> BY <2>1, <1>2 DEF Rest
  <2>2. CASE flight' = Answer BY <2>2, <1>2, <1>3 DEF Rest
  <2> QED BY <1>1, <2>1, <2>2
<1>5. Len(queue') = Len(queue) /\ Len(queue) \in Nat BY <1>1, <1>2, OlderTyped
<1>6. CASE queue = <<>>
  <2>1. queue' = <<>> BY <1>6, <1>1 DEF Older
  <2>2. (queue = <<>> /\ Rest => StreamInv)' BY EmptyStream, PTL
  <2> QED BY <1>4, <2>1, <2>2
<1>7. CASE queue # <<>>
  <2>1. gone' = gone BY <1>1, <1>7
  <2>2. ASSUME gone < AnswerLen
        PROVE  \E a, s, n : Numbered(a, s, n)' /\ Dated(a, s, n)'
    <3>1. PICK a, s, n : Numbered(a, s, n) /\ Dated(a, s, n) BY <2>2 DEF StreamInv
    <3>2. n \in Nat /\ n * AnswerLen \in Nat BY <3>1, <1>2 DEF Numbered
    <3>3. Ahead(n)' = Ahead(n)
      <4> DEFINE x == n * AnswerLen
      <4>1. Ahead(n) = x + 1 BY <1>1 DEF Ahead
      <4>2. Ahead(n)' = x + (IF flight' = <<>> THEN 1 ELSE AnswerLen + 1 - Len(flight')) BY DEF Ahead
      <4>3. x \in Nat BY <3>2
      <4> HIDE DEF x
      <4>4. CASE flight' = <<>> BY <4>4, <4>1, <4>2
      <4>5. CASE flight' = Answer
        <5>1. flight' # <<>> BY <4>5, <1>2, <1>3
        <5> QED BY <4>5, <4>1, <4>2, <4>3, <5>1, <1>2, <1>3
      <4> QED BY <1>1, <4>4, <4>5
    <3>4. \A i \in 1 .. Len(queue) : a[i] < n /\ a[i] \in Nat BY <3>1, <1>1 DEF Numbered
    <3>5. Numbered(a, s, n)'
      BY <3>1, <3>3, <3>4, <1>5, <1>7, <2>1 DEF Numbered
    <3>6. \A i \in 1 .. Len(queue) : queue'[i] # Junk =>
            /\ queue[i] # Junk /\ queue'[i][2] = queue[i][2]
            /\ queue'[i][1] = IF queue[i][1] = 0 THEN 1 ELSE 2
      BY <1>1, <1>2 DEF Older
    <3>7. Dated(a, s, n)'
      <4>1. \A i \in 1 .. Len(queue) : queue'[i] # Junk => queue'[i][2] = s[i] - a[i] * AnswerLen
        BY <3>1, <3>6 DEF Dated
      <4>2. \A i \in 1 .. Len(queue) : a[i] # n
        <5> TAKE i \in 1 .. Len(queue)
        <5> QED BY <3>2, <3>4
      <4>3. \A i \in 1 .. Len(queue) : \A j \in 1 .. Len(queue) :
              queue'[i] # Junk /\ queue'[j] # Junk /\ a[i] = a[j] => queue'[i][1] = queue'[j][1]
        BY <3>1, <3>6 DEF Dated
      <4> QED BY <4>1, <4>2, <4>3, <1>5 DEF Dated
    <3> QED BY <3>5, <3>7
  <2> QED BY <1>4, <2>1, <2>2 DEF StreamInv
<1> QED BY <1>6, <1>7

(* The steps of the task and of clients leave the stream, or empty the queue. *)
LEMMA StreamStep == SensorAssumption /\ BytesInv /\ StreamInv /\ [Next]_vars => StreamInv'
<1> SUFFICES ASSUME SensorAssumption, BytesInv, StreamInv, [Next]_vars PROVE StreamInv'
  OBVIOUS
<1>0. (queue = <<>> /\ Rest => StreamInv)' BY EmptyStream, PTL
<1>1. CASE Poll BY <1>1, StreamPoll
<1>2. CASE Byte BY <1>2, StreamByte
<1>3. CASE TakeQueue
  <2>1. queue' = <<>> /\ flight' = flight BY <1>3 DEF TakeQueue
  <2>2. Rest' BY <2>1 DEF StreamInv, Rest
  <2> QED BY <1>0, <2>1, <2>2
<1>4. CASE Restart
  <2>1. queue' = <<>> /\ flight' = <<>> BY <1>4 DEF Restart
  <2>2. Rest' BY <2>1 DEF Rest, SensorAssumption
  <2> QED BY <1>0, <2>1, <2>2
<1>5. CASE TakeBuffer BY <1>5, StreamKept DEF TakeBuffer, history
<1>6. CASE GiveUp BY <1>6, StreamKept DEF GiveUp
<1>7. CASE Manual BY <1>7, StreamKept DEF Manual, history
<1>8. CASE NoModule BY <1>8, StreamKept DEF NoModule
<1>9. CASE SetBit \/ CountUp \/ ClearBit \/ CountDown \/ Cycle \/ SetRate \/ Store
  BY <1>9, StreamKept DEF SetBit, CountUp, ClearBit, CountDown, Cycle, SetRate, Store, history
<1>10. CASE ClientStore \/ ClientRate \/ ClientType \/ ClientManual \/ ClientAddress
  BY <1>10, StreamKept DEF ClientStore, ClientRate, ClientType, ClientManual, ClientAddress, history
<1>11. CASE UNCHANGED vars BY <1>11, StreamKept DEF vars, history
<1> QED
  BY Zenon, <1>1, <1>2, <1>3, <1>4, <1>5, <1>6, <1>7, <1>8, <1>9, <1>10, <1>11 DEF Next, Task, Client

LEMMA WholeStep ==
  ASSUME SensorAssumption, BytesInv, StreamInv, Whole, [Next]_vars PROVE Whole'
<1>1. CASE TakeQueue
  <2>1. CASE UNCHANGED <<data, goneThen>>
    <3>1. kind' = kind BY <1>1 DEF TakeQueue, Answered
    <3> QED BY <2>1, <3>1 DEF Whole, OneAnswer
  <2>2. CASE HeaderFits /\ data' = SubSeq(queue, 1, AnswerLen) /\ goneThen' = gone
    <3>1. gone \in Nat /\ AnswerLen \in Nat /\ queue \in Seq(Bytes) /\ flight \in Seq(Bytes)
      BY DEF BytesInv, BytesTyped, SensorAssumption
    <3>2. CASE gone >= AnswerLen BY <2>2, <3>2 DEF Whole
    <3>3. CASE gone < AnswerLen
      <4>1. Len(queue) >= AnswerLen BY <1>1 DEF TakeQueue
      <4>2. OneAnswer(SubSeq(queue, 1, AnswerLen)) BY <2>2, <3>1, <3>3, <4>1, OneIsWhole
      <4>3. OneAnswer(data') BY <2>2, <4>2
      <4> QED BY <4>3 DEF Whole, OneAnswer
    <3> QED BY <3>1, <3>2, <3>3
  <2> QED BY <1>1, <2>1, <2>2 DEF TakeQueue
<1>2. CASE TakeBuffer
  <2>1. kind' = kind /\ goneThen' = goneThen BY <1>2 DEF TakeBuffer, Answered, history
  <2>2. data' = data \/ (data' = recv /\ OneAnswer(recv)) BY <1>2 DEF TakeBuffer
  <2> QED BY <2>1, <2>2 DEF Whole, OneAnswer
<1>3. CASE Restart
  <2>1. data' = <<>> BY <1>3 DEF Restart
  <2> QED BY <2>1 DEF Whole, OneAnswer
<1>4. CASE UNCHANGED <<kind, data, goneThen>> BY <1>4 DEF Whole, OneAnswer
<1>5. Poll \/ Byte \/ GiveUp \/ Manual \/ NoModule \/ SetBit \/ CountUp \/ ClearBit \/ CountDown
      \/ Cycle \/ SetRate \/ Store \/ Client \/ ClientType \/ ClientManual \/ ClientAddress \/ UNCHANGED vars
      => UNCHANGED <<kind, data, goneThen>>
  BY DEF Poll, Byte, GiveUp, Silent, Manual, NoModule, SetBit, CountUp, ClearBit, CountDown, Cycle,
         SetRate, Store, Client, ClientStore, ClientRate, ClientType, ClientManual, ClientAddress, vars, bounds, history
<1> QED BY Zenon, <1>1, <1>2, <1>3, <1>4, <1>5 DEF Next, Task

(* A reading of an OGM200 is one answer, as long as the queue, since it was  *)
(* last empty, misses fewer bytes than an answer has: although it is never  *)
(* cleared and what waits in it may begin in the middle of an answer.       *)
THEOREM ReadingsAreWhole == Spec => []Whole
<1>1. Init => StreamInv /\ Whole
  <2> SUFFICES ASSUME Init PROVE StreamInv /\ Whole
    OBVIOUS
  <2>1. queue = <<>> /\ flight = <<>> /\ data = <<>> BY DEF Init
  <2>2. Rest BY <2>1, SensorAssumption DEF Rest, SensorAssumption
  <2> QED BY <2>1, <2>2, EmptyStream DEF Whole, OneAnswer
<1>2. Inv /\ StreamInv /\ Whole /\ [Next]_vars => (StreamInv /\ Whole)'
  BY StreamStep, WholeStep, SensorAssumption DEF Inv
<1> QED BY <1>1, <1>2, Invariance, PTL DEF Spec
=============================================================================
