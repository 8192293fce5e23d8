----------------------------- MODULE Co2Sensor ------------------------------
(***************************************************************************)
(* The poll of the internal CO2 module by Co2_task: a request on USART2,   *)
(* the bytes of the answer through one of two receivers, the judgement of  *)
(* the answer, and the search for the type of the module when it is silent. *)
(* Clients change the type, the address and the mode of the output.        *)
(*                                                                         *)
(* The receiver of the types of one kind is the queue qSubSerial; that of  *)
(* the others the buffer subnet_response_buf.  A byte is its place in an   *)
(* answer and the age of the answer: 0 for the poll under way, 1 for the   *)
(* one before, 2 for older ones.                                           *)
(***************************************************************************)
EXTENDS Integers, Sequences, FiniteSets

CONSTANTS
  Kinds,         \* the modules that may be attached: "ogm", "temco"
  AnswerLen,     \* bytes of an answer (12 and 7)
  BufLen,        \* SUB_BUF_LEN, the room of each receiver
  ExistCtr,      \* INTERNAL_CO2_EXIST_CTR
  MaxSilent,     \* silent polls before the next type is tried (20)
  Addresses,     \* addresses a client gives this controller, 0 at boot
  MaxFaults,     \* bound: bytes lost or garbled on the line
  MaxLate,       \* bound: answers later than the task waits
  MaxChanges     \* bound: what clients change, and restarts

ASSUME SensorAssumption ==
  /\ Kinds \subseteq {"ogm", "temco"}
  /\ AnswerLen \in Nat /\ AnswerLen > 2
  /\ BufLen \in Nat /\ BufLen > AnswerLen
  /\ ExistCtr \in Nat /\ MaxSilent \in Nat /\ 0 \in Addresses
  /\ MaxFaults \in Nat /\ MaxLate \in Nat /\ MaxChanges \in Nat

(* CO2_SENSOR_TYPE: NONE, MAYBE_OGM200, MAYBE_TEMCO_CO2, OGM200, TEMCO_CO2 *)
Types     == 0 .. 4
KindOf(t) == IF t \in {1, 3} THEN "ogm" ELSE IF t \in {2, 4} THEN "temco" ELSE "none"

VARIABLES
  kind,              \* the module that is attached
  type, stored,      \* internal_co2_module_type, in RAM and in the EEPROM
  rate,              \* the kind whose bit rate USART2 has
  status, silent,    \* co2_sensor_status, read_co2_ctr
  fail, reading,     \* fail_counter, co2_int
  data,              \* co2_data_temp: the bytes it was computed from
  manual,            \* output_auto_manual & 0x04
  id, online, ctr,   \* scan_db[0].id, current_online, current_online_ctr
  pc, byte,          \* Co2_task, and the type it has fetched
  queue,             \* qSubSerial
  recv, size, tag,   \* subnet_response_buf up to rece_count1, rece_size1, dealwithTag1
  odd,               \* subnet_response_buf[1] is no function code of a read
  flight,            \* bytes on their way from the module
  client, clientByte,   \* Data_Deal in another task, and the type it stores
  faults, late, changes,  \* what the bounds count
  unanswered,        \* history: polls without an answer, at most ExistCtr + 1
  tested, strays,    \* history: the address whose bit was tested, and the bits
                     \* set or cleared at another address than was tested
  crossed,           \* history: a client set the type while the task was storing one
  gone, goneThen     \* history: bytes that the queue misses since it was empty at
                     \* a poll, and those when data was taken, at most AnswerLen

search  == <<type, stored, rate, status, silent>>
counted == <<online, ctr, tested, strays>>
shown   == <<fail, reading, id, counted, unanswered>>
task    == <<pc, byte>>
buffer  == <<recv, size, tag, odd>>
bounds  == <<kind, faults, late>>
history == <<gone, goneThen>>
others  == <<client, clientByte, changes, crossed>>
vars == <<search, shown, data, manual, task, queue, buffer, flight, others, bounds, history>>

Junk == <<0, 0>>            \* a garbled byte: no place and no age
Answer == [i \in 1 .. AnswerLen |-> <<0, i>>]
Older(s) == [i \in DOMAIN s |->
  IF s[i] = Junk THEN Junk ELSE <<IF s[i][1] = 0 THEN 1 ELSE 2, s[i][2]>>]

(* All bytes that are not garbled are in place, from one answer. *)
OneAnswer(s) == \E age \in 0 .. 2 : \A i \in DOMAIN s : s[i] \in {Junk, <<age, i>>}

(* An EEPROM without a type counts as OGM200.  19200 is the bit rate of     *)
(* sub_net_init.                                                           *)
BootType == IF stored = 255 THEN 3 ELSE stored
BootRate == IF KindOf(BootType) = "ogm" THEN "ogm" ELSE "temco"

Init ==
  /\ kind \in Kinds
  /\ stored \in Types \cup {255} /\ type = BootType /\ rate = BootRate
  /\ status = FALSE /\ silent = 0
  /\ fail = 0 /\ reading = "exception" /\ data = <<>> /\ manual = FALSE
  /\ id = 0 /\ online = {} /\ ctr = 0
  /\ pc = "sleep" /\ byte = 0
  /\ queue = <<>> /\ recv = <<>> /\ size = 0 /\ tag = FALSE /\ odd = FALSE
  /\ flight = <<>> /\ client = "idle" /\ clientByte = 0 /\ crossed = FALSE
  /\ faults = 0 /\ late = 0 /\ changes = 0
  /\ unanswered = 0 /\ tested = 0 /\ strays = 0 /\ gone = 0 /\ goneThen = 0

Restart ==
  /\ changes < MaxChanges /\ changes' = changes + 1
  /\ type' = BootType /\ rate' = BootRate
  /\ status' = FALSE /\ silent' = 0
  /\ fail' = 0 /\ reading' = "exception" /\ data' = <<>> /\ manual' = FALSE
  /\ id' = 0 /\ online' = {} /\ ctr' = 0
  /\ pc' = "sleep" /\ byte' = 0
  /\ queue' = <<>> /\ recv' = <<>> /\ size' = 0 /\ tag' = FALSE /\ odd' = FALSE
  /\ flight' = <<>> /\ client' = "idle" /\ clientByte' = 0 /\ crossed' = FALSE
  /\ unanswered' = 0 /\ tested' = 0 /\ strays' = 0 /\ gone' = 0 /\ goneThen' = 0
  /\ UNCHANGED <<stored, bounds>>
-----------------------------------------------------------------------------
(* Every two seconds, co2_request: a manual value replaces the reading, or *)
(* the module is polled.  Answers and writes of clients take less time.    *)
Asleep == pc = "sleep" /\ flight = <<>> /\ client = "idle"

Manual ==
  /\ Asleep /\ manual
  /\ reading' = "manual"
  /\ UNCHANGED <<search, fail, id, counted, unanswered, data, manual, task, queue,
                 buffer, flight, others, bounds, history>>

(* Variant: the buffer is not restarted by a poll. *)
Poll_NoRestart ==
  /\ Asleep /\ ~manual
  /\ pc' = KindOf(type)
  /\ queue' = Older(queue) /\ recv' = Older(recv)
  /\ flight' = IF KindOf(type) = kind /\ rate = kind THEN Answer ELSE <<>>
  /\ gone' = IF queue = <<>> THEN 0 ELSE gone
  /\ UNCHANGED <<search, shown, data, manual, byte, size, tag, odd, others, bounds, goneThen>>

(* The module understands requests of its own kind at its own bit rate.  A *)
(* poll clears the buffer, and not the queue.                              *)
Poll ==
  /\ Asleep /\ ~manual
  /\ pc' = KindOf(type)
  /\ queue' = Older(queue)
  /\ IF KindOf(type) = "temco"
     THEN recv' = <<>> /\ tag' = FALSE
     ELSE recv' = Older(recv) /\ tag' = tag
  /\ flight' = IF KindOf(type) = kind /\ rate = kind THEN Answer ELSE <<>>
  /\ gone' = IF queue = <<>> THEN 0 ELSE gone
  /\ UNCHANGED <<search, shown, data, manual, byte, size, odd, others, bounds, goneThen>>
-----------------------------------------------------------------------------
(* USART2_IRQHandler: a byte goes to the receiver of the current type.     *)

Miss(n) == gone' = IF gone + n < AnswerLen THEN gone + n ELSE AnswerLen

ToQueue(b) ==
  /\ queue' = IF Len(queue) < BufLen THEN Append(queue, b) ELSE queue
  /\ Miss(IF Len(queue) < BufLen /\ b # Junk THEN 0 ELSE 1)
  /\ UNCHANGED buffer

(* A full buffer starts again, without the byte.  The first byte fixes the *)
(* length to wait for, from a second byte that is an old one.              *)
ToBuffer(b) ==
  LET got == IF Len(recv) < BufLen THEN Append(recv, b) ELSE <<>>
  IN /\ recv' = got
     /\ IF Len(got) = 1
        THEN size' \in {AnswerLen} \cup IF odd THEN {AnswerLen + 1} ELSE {}
        ELSE size' = size
     /\ odd' = IF Len(got) = 2 THEN kind = "ogm" \/ b[2] # 2 ELSE odd
     /\ tag' = ((tag /\ got # <<>>) \/ (Len(got) > 1 /\ Len(got) = size /\ ~odd'))
     /\ Miss(1)
     /\ UNCHANGED queue

Arrive(b) == IF KindOf(type) = "ogm" THEN ToQueue(b) ELSE ToBuffer(b)

Byte ==
  /\ flight # <<>> /\ flight' = Tail(flight)
  /\ \/ Arrive(IF rate = kind THEN Head(flight) ELSE Junk) /\ UNCHANGED faults
     \/ faults < MaxFaults /\ faults' = faults + 1 /\ Arrive(Junk)
     \/ faults < MaxFaults /\ faults' = faults + 1 /\ Miss(1) /\ UNCHANGED <<queue, buffer>>
  /\ UNCHANGED <<search, shown, data, manual, task, others, kind, late, goneThen>>
-----------------------------------------------------------------------------
(* request_internal_co2 judges the poll.  It tests the bit of the address,  *)
(* then sets or clears it, then counts, and reads the address each time; a  *)
(* client, in a task of higher priority, may change it in between.          *)

Later(step) ==
  /\ pc' = step /\ tested' = id
  /\ UNCHANGED <<type, stored, rate, status, silent, byte, id, online, ctr, strays>>

(* The rest of a poll that is answered: the type is stored when it was      *)
(* found by trying.                                                         *)
Shown ==
  /\ reading' = "measured" /\ unanswered' = 0
  /\ silent' = 0 /\ status' = FALSE
  /\ IF status THEN pc' = "store" /\ byte' = type ELSE pc' = "sleep" /\ byte' = byte
  /\ tested' = 0 /\ UNCHANGED <<type, stored, rate, id, online, strays>>

Answered ==
  /\ fail' = 0
  /\ IF id \in online
     THEN Shown /\ UNCHANGED ctr
     ELSE Later("set") /\ UNCHANGED <<reading, unanswered>>
  /\ UNCHANGED <<manual, others, kind, faults>>

(* The rest of one that is not. *)
Missed ==
  /\ IF silent < MaxSilent
     THEN silent' = silent + 1 /\ pc' = "sleep" /\ byte' = byte
     ELSE silent' = silent /\ pc' = "cycle" /\ byte' = type
  /\ tested' = 0 /\ UNCHANGED <<type, stored, rate, status, id, online, strays>>

(* Variant: it is not tested whether the sensor is counted. *)
Leave_Always == Later("clear")

Leave == IF id \in online THEN Later("clear") ELSE Missed /\ UNCHANGED ctr

Forgiven == fail' = fail + 1 /\ Missed /\ UNCHANGED <<reading, ctr>>
Lost     == reading' = "exception" /\ Leave /\ UNCHANGED fail

(* Variant: one more silent poll is forgiven. *)
Silent_Patient ==
  /\ unanswered' = IF unanswered > ExistCtr THEN unanswered ELSE unanswered + 1
  /\ IF fail <= ExistCtr THEN Forgiven ELSE Lost
  /\ UNCHANGED <<data, manual, others, kind, faults, goneThen>>

Silent ==
  /\ unanswered' = IF unanswered > ExistCtr THEN unanswered ELSE unanswered + 1
  /\ IF fail < ExistCtr THEN Forgiven ELSE Lost
  /\ UNCHANGED <<data, manual, others, kind, faults, goneThen>>

Stray == strays' = IF id = tested THEN strays ELSE strays + 1

SetBit ==
  /\ pc = "set" /\ pc' = "plus"
  /\ online' = online \cup {id} /\ Stray
  /\ UNCHANGED <<search, fail, reading, id, ctr, unanswered, tested, data, manual, byte, queue,
                 buffer, flight, others, bounds, history>>

(* The count is a byte. *)
CountUp ==
  /\ pc = "plus" /\ ctr' = (ctr + 1) % 256
  /\ Shown
  /\ UNCHANGED <<fail, data, manual, queue, buffer, flight, others, bounds, history>>

ClearBit ==
  /\ pc = "clear" /\ pc' = "minus"
  /\ online' = online \ {id} /\ Stray
  /\ UNCHANGED <<search, fail, reading, id, ctr, unanswered, tested, data, manual, byte, queue,
                 buffer, flight, others, bounds, history>>

CountDown ==
  /\ pc = "minus" /\ ctr' = (ctr + 255) % 256
  /\ Missed
  /\ UNCHANGED <<fail, reading, unanswered, data, manual, queue, buffer, flight, others, bounds,
                 history>>

(* Variant: the last byte is not looked at. *)
HeaderFits_NoEnd == kind = "ogm" /\ \A i \in {1, 2} : queue[i][2] = i

(* wait_subnet_response sees a whole answer's worth of bytes: all that wait *)
(* are taken, and receive_internal_co2_ppm looks at four of the first.      *)
HeaderFits == kind = "ogm" /\ \A i \in {1, 2, AnswerLen} : queue[i][2] = i

TakeQueue ==
  /\ pc = "ogm" /\ Len(queue) >= AnswerLen
  /\ queue' = <<>> /\ odd' = TRUE
  /\ IF KindOf(type) = "ogm" /\ HeaderFits
     THEN data' = SubSeq(queue, 1, AnswerLen) /\ goneThen' = gone
     ELSE UNCHANGED <<data, goneThen>>
  /\ Answered
  /\ UNCHANGED <<recv, size, tag, flight, late, gone>>

(* dealwithData1 checks the CRC; a wrong one is an answer nevertheless.     *)
TakeBuffer ==
  /\ pc = "temco" /\ tag
  /\ data' = IF size = AnswerLen /\ OneAnswer(recv) /\ \A i \in DOMAIN recv : recv[i] # Junk
             THEN recv ELSE data
  /\ recv' = <<>> /\ tag' = FALSE
  /\ Answered
  /\ UNCHANGED <<queue, size, odd, flight, late, history>>

(* Both waits end after ten tests.  A byte that is not late is awaited.     *)
GiveUp ==
  /\ pc \in {"ogm", "temco"}
  /\ \/ flight = <<>> /\ (IF pc = "ogm" THEN Len(queue) < AnswerLen ELSE ~tag) /\ UNCHANGED late
     \/ flight # <<>> /\ late < MaxLate /\ late' = late + 1
  /\ IF pc = "temco" THEN recv' = <<>> /\ tag' = FALSE ELSE UNCHANGED <<recv, tag>>
  /\ Silent
  /\ UNCHANGED <<queue, size, odd, flight, gone>>

NoModule == pc = "none" /\ Silent /\ UNCHANGED <<queue, buffer, flight, late, gone>>

(* After too many silent polls the next type gets its turn ... *)
Cycle ==
  /\ pc = "cycle" /\ pc' = "rate"
  /\ type' = IF byte + 1 > 4 THEN 1 ELSE byte + 1
  /\ UNCHANGED <<stored, rate, status, silent, shown, data, manual, byte, queue, buffer,
                 flight, others, bounds, history>>

(* ... and the type, read again, its bit rate. *)
Rate(t) == rate' = IF KindOf(t) = "none" THEN rate ELSE KindOf(t)

(* Variant: the bit rate of the type before. *)
SetRate_Stale ==
  /\ pc = "rate" /\ pc' = "sleep"
  /\ Rate(byte)
  /\ status' = TRUE /\ silent' = 0
  /\ UNCHANGED <<type, stored, shown, data, manual, byte, queue, buffer, flight, others,
                 bounds, history>>

(* Variant: that the type was found by trying is not noted. *)
SetRate_NoStatus ==
  /\ pc = "rate" /\ pc' = "sleep"
  /\ Rate(type)
  /\ silent' = 0
  /\ UNCHANGED <<type, stored, status, shown, data, manual, byte, queue, buffer, flight, others,
                 bounds, history>>

SetRate ==
  /\ pc = "rate" /\ pc' = "sleep"
  /\ Rate(type)
  /\ status' = TRUE /\ silent' = 0
  /\ UNCHANGED <<type, stored, shown, data, manual, byte, queue, buffer, flight, others,
                 bounds, history>>

Store ==
  /\ pc = "store" /\ pc' = "sleep"
  /\ stored' = byte
  /\ UNCHANGED <<type, rate, status, silent, shown, data, manual, byte, queue, buffer,
                 flight, others, bounds, history>>
-----------------------------------------------------------------------------
(* Clients: MODBUS_CO2_INTERNAL_EXIST, MODBUS_OUTPUT_AUTO_MANUAL and        *)
(* MODBUS_ADDRESS.                                                          *)

Change == changes < MaxChanges /\ client = "idle" /\ changes' = changes + 1

ClientType ==
  /\ Change
  /\ \E t \in Types : type' = t /\ clientByte' = t
  /\ client' = "store" /\ crossed' = (crossed \/ pc = "store")
  /\ UNCHANGED <<stored, rate, status, silent, shown, data, manual, task, queue, buffer,
                 flight, bounds, history>>

ClientStore ==
  /\ client = "store" /\ client' = "rate"
  /\ stored' = clientByte
  /\ UNCHANGED <<type, rate, status, silent, shown, data, manual, task, queue, buffer,
                 flight, clientByte, changes, crossed, bounds, history>>

ClientRate ==
  /\ client = "rate" /\ client' = "idle"
  /\ Rate(type)
  /\ UNCHANGED <<type, stored, status, silent, shown, data, manual, task, queue, buffer,
                 flight, clientByte, changes, crossed, bounds, history>>

ClientManual ==
  /\ Change /\ manual' = ~manual
  /\ UNCHANGED <<search, shown, data, task, queue, buffer, flight, client, clientByte,
                 crossed, bounds, history>>

ClientAddress ==
  /\ Change /\ \E a \in Addresses \ {id} : id' = a
  /\ UNCHANGED <<search, fail, reading, counted, unanswered, data, manual, task, queue,
                 buffer, flight, client, clientByte, crossed, bounds, history>>
-----------------------------------------------------------------------------
Task ==
  Manual \/ Poll \/ TakeQueue \/ TakeBuffer \/ GiveUp \/ NoModule \/ SetBit \/ CountUp
  \/ ClearBit \/ CountDown \/ Cycle \/ SetRate \/ Store

Client == ClientStore \/ ClientRate

Next == Task \/ Byte \/ Client \/ ClientType \/ ClientManual \/ ClientAddress \/ Restart

(* The task runs every two seconds, the module sends what it has begun to   *)
(* send, and a task that writes a register returns.                         *)
Spec == Init /\ [][Next]_vars /\ WF_vars(Task) /\ WF_vars(Byte) /\ WF_vars(Client)
-----------------------------------------------------------------------------
Bytes == {Junk} \cup (0 .. 2) \X (1 .. AnswerLen)

(* Every variable stays in its range; no receiver is written beyond its end. *)
TypeOK ==
  /\ kind \in Kinds
  /\ type \in Types /\ stored \in Types \cup {255} /\ byte \in Types /\ clientByte \in Types
  /\ rate \in {"ogm", "temco"} /\ status \in BOOLEAN /\ manual \in BOOLEAN
  /\ silent \in 0 .. MaxSilent /\ fail \in 0 .. ExistCtr /\ unanswered \in 0 .. ExistCtr + 1
  /\ reading \in {"exception", "measured", "manual"}
  /\ id \in Addresses /\ online \subseteq Addresses /\ ctr \in 0 .. 255
  /\ tested \in Addresses /\ strays \in Nat
  /\ pc \in {"sleep", "ogm", "temco", "none", "set", "plus", "clear", "minus", "cycle", "rate",
            "store"}
  /\ client \in {"idle", "store", "rate"}
  /\ \A s \in {queue, recv} : s \in Seq(Bytes) /\ Len(s) <= BufLen
  /\ flight \in Seq(Bytes) /\ data \in Seq(Bytes)
  /\ size \in {0, AnswerLen, AnswerLen + 1} /\ tag \in BOOLEAN /\ odd \in BOOLEAN
  /\ faults \in 0 .. MaxFaults /\ late \in 0 .. MaxLate /\ changes \in 0 .. MaxChanges
  /\ gone \in 0 .. AnswerLen /\ goneThen \in 0 .. AnswerLen

(* The queue is never cleared, and what waits in it may begin in the middle *)
(* of an answer.  All the same a reading is not put together from two       *)
(* answers, as long as fewer bytes than an answer has were lost, by the     *)
(* line, a full queue or a change of type, since the queue was last empty.  *)
Whole == kind = "ogm" => OneAnswer(data) \/ goneThen >= AnswerLen

(* The buffer is started again with each request and its CRC is checked: a  *)
(* reading of a TEMCO module is always the answer to the last poll, however *)
(* many bytes are lost, garbled or late.                                    *)
Fresh == kind = "temco" => data \in {<<>>, Answer}

(* After ExistCtr + 1 polls without an answer no measured value is shown,   *)
(* whatever clients changed meanwhile.                                      *)
Expires == unanswered > ExistCtr => reading # "measured"

(* What the watch over a sensor promises: a measured value is shown from an *)
(* answer on, for exactly as many unanswered polls as are forgiven, unless  *)
(* a manual value replaces it.                                             *)
Watch == INSTANCE WatchedSensor WITH
  Least <- ExistCtr + 1, Most <- ExistCtr + 1, Replaceable <- TRUE,
  present <- reading = "measured", misses <- unanswered

WatchSpec == Watch!Spec

(* Once clients, faults and restarts cease, and unless the output is manual, *)
(* the type and the bit rate become those of the module, and so does the    *)
(* type in the EEPROM, unless a client set the type while the task was      *)
(* storing another: what the task had fetched then stays in the EEPROM.     *)
Detected ==
  \/ <>[]manual
  \/ <>[](KindOf(type) = kind /\ rate = kind /\ (KindOf(BootType) = kind \/ crossed))

(* And then readings are taken again and again. *)
Accept ==
  \/ TakeBuffer /\ data' = recv
  \/ TakeQueue /\ HeaderFits /\ KindOf(type) = "ogm"
ReadsOn == <>[]manual \/ []<><<Accept>>_vars

(* The buffer starts afresh with every poll: that much holds of its modules. *)
BufferReadsOn == kind = "temco" => ReadsOn

(* The number of those online, with which the display compares its list, is *)
(* that of the bits set, but for the one that is just being counted, modulo *)
(* 256, and but for one more or less for each time that a client gave the   *)
(* controller another address just after the bit of the old one was tested. *)
Lag == IF pc = "plus" THEN 1 ELSE IF pc = "minus" THEN -1 ELSE 0

Counted == \E d \in -strays .. strays : (ctr + Lag - Cardinality(online) - d) % 256 = 0
=============================================================================
