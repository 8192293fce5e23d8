-------------------------- MODULE ModbusPortProofs --------------------------
(***************************************************************************)
(* Proofs about the RS485 Modbus port, for every set of requests, every    *)
(* buffer size, timeout, hold-off and reply length.                        *)
(***************************************************************************)
EXTENDS ModbusPort, TLAPS

-----------------------------------------------------------------------------
(* Bytes, sizes and timeouts. *)

(* The filler is one of the bytes out of place. *)
LEMMA FillerType == Filler \in Garbage
BY PortAssumption DEF Filler

(* A received byte is a byte; it counts as a byte of a request only at its *)
(* own position in that request.                                           *)
LEMMA ReceivedByte ==
  ASSUME NEW f \in Requests, NEW i, NEW p, NEW b \in Received(f, i, p)
  PROVE  /\ b \in Bytes
         /\ b \in Requests => b = f /\ i = p
BY FillerType, PortAssumption DEF Received, Bytes

(* Requests are between 6 and 264 bytes long. *)
LEMMA SizeType ==
  ASSUME NEW f \in Requests
  PROVE  Size(f) \in 6 .. 264
<1>1. ByteCount[f] \in 0 .. 255
  BY PortAssumption DEF Bytes
<1>2. QED
  BY <1>1 DEF Size, DATABUFLEN_SCAN

(* The expected size fits in the byte that holds it. *)
LEMMA ExpectedSizeType ==
  ASSUME NEW buf \in [Pos -> Bytes], NEW n \in 1 .. USART_REC_LEN,
         rece_size \in 0 .. 255
  PROVE  ExpectedSize(buf, n) \in 0 .. 255
<1>1. buf[6] \in Bytes /\ ByteCount[buf[6]] \in 0 .. 255
  BY PortAssumption DEF Pos
<1>2. (ByteCount[buf[6]] + 9) % 256 \in 0 .. 255
  BY <1>1
<1>3. QED
  BY <1>2 DEF ExpectedSize, UnknownSize, DATABUFLEN_SCAN

(* So does the timeout. *)
LEMMA TimeoutType ==
  ASSUME NEW buf \in [Pos -> Bytes], NEW n \in 1 .. USART_REC_LEN,
         serial_receive_timeout_count \in Nat
  PROVE  Timeout(buf, n) \in Nat
<1>1. buf[6] \in Bytes /\ ByteCount[buf[6]] \in 0 .. 255
  BY PortAssumption DEF Pos
<1>2. (ByteCount[buf[6]] + 8) % 256 \in Nat
  BY <1>1
<1>3. QED
  BY <1>2, PortAssumption DEF Timeout

-----------------------------------------------------------------------------
(* Type correctness.  A decrement in progress holds a value it has found   *)
(* to be positive.                                                         *)

RegInv ==
  /\ pc = "tag" => reg \in 1 .. 2
  /\ pc = "count" => reg > 0

TypeInv == TypeOK /\ RegInv

LEMMA TypeInit == Init => TypeInv
<1> SUFFICES ASSUME Init PROVE TypeInv
  OBVIOUS
<1>1. txe \in BOOLEAN
  BY DEF Init
<1>2. QED
  BY <1>1, FillerType, PortAssumption
     DEF Init, TypeInv, TypeOK, RegInv, Pos, Bytes

LEMMA TypeStep == TypeInv /\ [Next]_vars => TypeInv'
<1> SUFFICES ASSUME TypeInv, [Next]_vars PROVE TypeInv'
  OBVIOUS
<1> USE PortAssumption DEF TypeInv, TypeOK, RegInv
<1>1. ASSUME NEW f \in Requests, StartRequest(f) PROVE TypeInv'
  BY <1>1 DEF StartRequest, rx, tx, comm, panel, hist
<1>2. CASE LoseByte
  <2>1. onWire \in Requests
    BY <1>2 DEF LoseByte
  <2>2. Size(onWire) \in Nat
    BY <2>1, SizeType
  <2>3. QED
    BY <1>2, <2>1, <2>2 DEF LoseByte, Advance, rx, tx, comm, panel, hist
<1>3. CASE ReceiveByte
  <2>1. onWire \in Requests /\ revce_count \in Pos
    BY <1>3 DEF ReceiveByte, Pos
  <2>2. PICK b \in Received(onWire, offset, revce_count) :
          LET n   == revce_count + 1
              buf == [USART_RX_BUF EXCEPT ![revce_count] = b]
          IN  /\ USART_RX_BUF' = buf
              /\ revce_count' = n
              /\ rece_size' = ExpectedSize(buf, n)
              /\ serial_receive_timeout_count' = Timeout(buf, n)
              /\ dealwithTag' = IF Complete(n) THEN 2 ELSE dealwithTag
    BY <1>3 DEF ReceiveByte
  <2>3. b \in Bytes
    BY <2>1, ReceivedByte
  <2>4. USART_RX_BUF' \in [Pos -> Bytes]
    BY <2>1, <2>2, <2>3
  <2>5. revce_count + 1 \in 1 .. USART_REC_LEN
    BY <2>1 DEF Pos
  <2>6. rece_size' \in 0 .. 255
    BY <2>2, <2>4, <2>5, ExpectedSizeType
  <2>7. serial_receive_timeout_count' \in Nat
    BY <2>2, <2>4, <2>5, TimeoutType
  <2>8. dealwithTag' \in 0 .. 2
    BY <2>2
  <2>9. waiting' = waiting /\ onWire' \in Requests \cup {None} /\ offset' \in Nat
    BY <1>3 DEF ReceiveByte, Advance
  <2>10. QED
    BY <1>3, <2>2, <2>4, <2>5, <2>6, <2>7, <2>8, <2>9
       DEF ReceiveByte, tx, comm, panel, hist
<1>4. CASE ReceiveOverflow
  BY <1>4 DEF ReceiveOverflow, serial_restart, bus, tx, comm, panel, hist
<1>5. CASE TransmitByte
  <2>1. txe' \in BOOLEAN
    BY <1>5 DEF TransmitByte
  <2>2. \/ /\ send_count' = 0
           /\ reply_done' = RECEIVE_DELAY
           /\ serial_restart \/ UNCHANGED <<TXEN, revce_count, dealwithTag>>
        \/ /\ ~(send_count + 1 >= ReplyLen)
           /\ send_count' = send_count + 1
           /\ UNCHANGED <<reply_done, TXEN, revce_count, dealwithTag>>
    BY <1>5, Zenon DEF TransmitByte
  <2>3. UNCHANGED <<bus, USART_RX_BUF, rece_size, serial_receive_timeout_count,
                    uart_send, comm, panel, hist>>
    BY <1>5 DEF TransmitByte
  <2>4. QED
    BY <2>1, <2>2, <2>3 DEF serial_restart, bus, comm, panel, hist
<1>6. CASE SysTick
  BY <1>6 DEF SysTick, serial_restart, bus, tx, comm, panel, hist
<1>7. CASE PollTag
  BY <1>7 DEF PollTag, Goto, bus, tx, panel, hist
<1>8. CASE StoreTag
  BY <1>8 DEF StoreTag, Goto, bus, tx, panel, hist
<1>9. ASSUME NEW f \in Requests, DealAccept(f) PROVE TypeInv'
  BY <1>9 DEF DealAccept, Dealing, Goto, bus, tx, panel
<1>10. CASE DealReject
  BY <1>10 DEF DealReject, serial_restart, Goto, bus, tx, panel, hist
<1>11. CASE DelayOver
  BY <1>11 DEF DelayOver, Goto, bus, rx, tx, panel, hist
<1>12. CASE RespondBroadcast
  BY <1>12 DEF RespondBroadcast, serial_restart, Goto, bus, tx, panel, hist
<1>13. CASE RespondBuild
  BY <1>13 DEF RespondBuild, Goto, Pos, bus, rx, panel, hist
<1>14. CASE SendDataString
  BY <1>14 DEF SendDataString, Goto, bus, rx, panel, hist
<1>15. CASE DealNothing
  BY <1>15 DEF DealNothing, Goto, bus, rx, tx, panel, hist
<1>16. CASE DealWrite
  <2>1. txe' \in BOOLEAN
    BY <1>16 DEF DealWrite, uart1_init, tx
  <2>2. /\ revce_count' \in {0, revce_count}
        /\ dealwithTag' \in {0, dealwithTag}
        /\ serial_receive_timeout_count' \in {RX_TIMEOUT, serial_receive_timeout_count}
        /\ TXEN' \in {TXEN, "send", "receive"}
        /\ pc' \in {"timeout", "reinit"}
        /\ stored' = stored \cup {<<cur, USART_RX_BUF[5]>>}
    BY <1>16 DEF DealWrite, uart1_init, modbus_init, serial_restart, Goto, rx, tx
  <2>3. UNCHANGED <<bus, USART_RX_BUF, rece_size, send_count, uart_send,
                    reply_done, reg, cur, item, panel, handled>>
    BY <1>16, Zenon DEF DealWrite, uart1_init, modbus_init, rx, tx
  <2>4. QED
    BY <2>1, <2>2, <2>3 DEF Pos, bus, panel
<1>17. CASE DealMulti
  BY <1>17 DEF DealMulti, Goto, Pos, bus, rx, tx, panel
<1>18. CASE DealReinit
  BY <1>18 DEF DealReinit, modbus_init, serial_restart, Goto, bus, tx, panel, hist
<1>19. CASE CountDown
  BY <1>19 DEF CountDown, serial_restart, Goto, bus, tx, panel, hist
<1>20. CASE StoreCount
  BY <1>20 DEF StoreCount, Goto, bus, tx, panel, hist
<1>21. CASE CheckCount
  BY <1>21 DEF CheckCount, serial_restart, Goto, bus, tx, panel, hist
<1>22. CASE MenuUartInit
  <2>1. txe' \in BOOLEAN
    BY <1>22 DEF MenuUartInit, uart1_init, tx
  <2>2. QED
    BY <1>22, <2>1 DEF MenuUartInit, uart1_init, bus, rx, comm, hist
<1>23. CASE MenuModbusInit
  BY <1>23 DEF MenuModbusInit, modbus_init, serial_restart, bus, tx, comm, hist
<1>24. CASE UNCHANGED vars
  BY <1>24 DEF vars, bus, rx, tx, comm, panel, hist
<1>25. CASE ScanDelay
  BY <1>25 DEF ScanDelay, Dealing, Goto, bus, tx, panel, hist
<1>26. ASSUME NEW f \in Requests, ScanAccept(f) PROVE TypeInv'
  BY <1>26 DEF ScanAccept, Goto, bus, rx, tx, panel
<1>27. CASE ScanReject
  BY <1>27 DEF ScanReject, serial_restart, Goto, bus, tx, panel, hist
<1>28. CASE StoreName
  <2>1. 7 + item \in Pos /\ (7 + item + 1 < USART_REC_LEN => 7 + item + 1 \in Pos)
    BY DEF Pos
  <2>2. stored' \subseteq (Requests \cup {None}) \X Bytes
    BY <1>28, <2>1 DEF StoreName
  <2>3. /\ item' \in 0 .. USART_REC_LEN - 8
        /\ pc' \in {"name", "timeout"} /\ cur' \in {cur, None}
    BY <1>28 DEF StoreName, Goto
  <2>4. UNCHANGED <<bus, rx, TXEN, tx, reply_done, reg, panel, handled>>
    BY <1>28 DEF StoreName
  <2>5. QED
    BY <2>2, <2>3, <2>4 DEF bus, rx, tx, panel
<1>29. QED
  BY <1>1, <1>2, <1>3, <1>4, <1>5, <1>6, <1>7, <1>8, <1>9, <1>10, <1>11,
     <1>12, <1>13, <1>14, <1>15, <1>16, <1>17, <1>18, <1>19, <1>20, <1>21,
     <1>22, <1>23, <1>24, <1>25, <1>26, <1>27, <1>28
     DEF Next, Bus, UsartIrq, CommTask, Menu

(* Every reachable state is of the right type: the buffer index, the       *)
(* expected size, the tag and the counters of the handlers and the tasks   *)
(* never leave the ranges of their C types, whatever is interrupted.       *)
THEOREM TypeCorrect == Spec => []TypeOK
<1>1. TypeInv => TypeOK
  BY DEF TypeInv
<1>2. QED
  BY TypeInit, TypeStep, <1>1, PTL DEF Spec

(* Type correctness as a step lemma for the theorems below. *)
LEMMA TypeAlways == Spec => []TypeInv
BY TypeInit, TypeStep, PTL DEF Spec

-----------------------------------------------------------------------------
(* What the receive interrupt does with a byte, and what every other step  *)
(* leaves of the receive buffer.                                           *)

LEMMA ReceiveEffect ==
  ASSUME TypeInv, ReceiveByte
  PROVE  /\ onWire \in Requests
         /\ revce_count \in Pos
         /\ revce_count + 1 \in 1 .. USART_REC_LEN
         /\ USART_RX_BUF' \in [Pos -> Bytes]
         /\ revce_count' = revce_count + 1
         /\ rece_size' = ExpectedSize(USART_RX_BUF', revce_count + 1)
         /\ serial_receive_timeout_count' = Timeout(USART_RX_BUF', revce_count + 1)
         /\ dealwithTag' = IF Complete(revce_count + 1) THEN 2 ELSE dealwithTag
         /\ \E b \in Bytes :
              /\ USART_RX_BUF' = [USART_RX_BUF EXCEPT ![revce_count] = b]
              /\ b \in Requests => b = onWire /\ offset = revce_count
<1>1. onWire \in Requests /\ revce_count \in Pos
  BY PortAssumption DEF ReceiveByte, Pos, TypeInv, TypeOK
<1>2. PICK b \in Received(onWire, offset, revce_count) :
        LET n   == revce_count + 1
            buf == [USART_RX_BUF EXCEPT ![revce_count] = b]
        IN  /\ USART_RX_BUF' = buf
            /\ revce_count' = n
            /\ rece_size' = ExpectedSize(buf, n)
            /\ serial_receive_timeout_count' = Timeout(buf, n)
            /\ dealwithTag' = IF Complete(n) THEN 2 ELSE dealwithTag
  BY DEF ReceiveByte
<1>3. b \in Bytes /\ (b \in Requests => b = onWire /\ offset = revce_count)
  BY <1>1, ReceivedByte
<1>4. USART_RX_BUF' \in [Pos -> Bytes]
  BY <1>1, <1>2, <1>3 DEF TypeInv, TypeOK
<1>5. revce_count + 1 \in 1 .. USART_REC_LEN
  BY <1>1, PortAssumption DEF Pos
<1>6. QED
  BY <1>1, <1>2, <1>3, <1>4, <1>5

(* Only a received byte changes the buffer and the expected size.          *)
LEMMA BufferKept ==
  ASSUME TypeInv, [Next]_vars, ~ReceiveByte
  PROVE  /\ UNCHANGED <<USART_RX_BUF, rece_size>>
         /\ revce_count' \in {0, revce_count}
<1>1. ASSUME NEW f \in Requests, StartRequest(f) \/ DealAccept(f) \/ ScanAccept(f)
      PROVE  UNCHANGED <<USART_RX_BUF, rece_size, revce_count>>
  BY <1>1 DEF StartRequest, DealAccept, ScanAccept, rx
<1>2. CASE LoseByte \/ DelayOver \/ RespondBuild \/ SendDataString
            \/ DealNothing \/ DealMulti \/ StoreName \/ MenuUartInit
  BY <1>2 DEF LoseByte, DelayOver, RespondBuild, SendDataString, DealNothing,
              DealMulti, StoreName, MenuUartInit, rx
<1>3. CASE ReceiveOverflow \/ TransmitByte \/ SysTick
  BY <1>3 DEF ReceiveOverflow, TransmitByte, SysTick, serial_restart
<1>4. CASE PollTag \/ StoreTag \/ DealReject \/ ScanDelay \/ ScanReject
            \/ RespondBroadcast
  BY <1>4 DEF PollTag, StoreTag, DealReject, ScanDelay, ScanReject,
              RespondBroadcast, serial_restart
<1>5. CASE DealWrite \/ DealReinit \/ CountDown \/ StoreCount \/ CheckCount
            \/ MenuModbusInit
  BY <1>5 DEF DealWrite, DealReinit, CountDown, StoreCount, CheckCount,
              MenuModbusInit, modbus_init, serial_restart, rx
<1>6. CASE UNCHANGED vars
  BY <1>6 DEF vars, rx
<1>7. QED
  BY <1>1, <1>2, <1>3, <1>4, <1>5, <1>6 DEF Next, Bus, UsartIrq, CommTask, Menu

-----------------------------------------------------------------------------
(* Whole packets. *)

(* The expected size is a function of the bytes received so far. *)
SizeInv ==
  /\ revce_count \in 1 .. 2 => rece_size = UnknownSize
  /\ revce_count \in 3 .. 6 =>
       \/ rece_size = UnknownSize
       \/ rece_size = 6 /\ Fn[USART_RX_BUF[1]] = "online"
       \/ rece_size = DATABUFLEN_SCAN /\ Fn[USART_RX_BUF[1]] = "write"
  /\ revce_count >= 7 =>
       /\ Fn[USART_RX_BUF[1]] \in {"read", "write"} => rece_size = 8
       /\ Fn[USART_RX_BUF[1]] = "multi" =>
            rece_size = (ByteCount[USART_RX_BUF[6]] + 9) % 256
       /\ Fn[USART_RX_BUF[1]] \notin {"read", "write", "multi"} =>
            rece_size = UnknownSize

LEMMA SizeInit == Init => SizeInv
BY DEF Init, SizeInv

LEMMA SizeStep == TypeInv /\ SizeInv /\ [Next]_vars => SizeInv'
<1> SUFFICES ASSUME TypeInv, SizeInv, [Next]_vars PROVE SizeInv'
  OBVIOUS
<1>1. CASE ReceiveByte
  <2> DEFINE n   == revce_count + 1
             buf == USART_RX_BUF'
  <2>1. n \in 1 .. USART_REC_LEN /\ revce_count' = n /\ revce_count \in Pos
    BY <1>1, ReceiveEffect
  <2>2. rece_size' = ExpectedSize(buf, n)
    BY <1>1, ReceiveEffect
  <2>3. n > 2 => Fn[buf[1]] = Fn[USART_RX_BUF[1]]
    <3>1. PICK b \in Bytes : USART_RX_BUF' = [USART_RX_BUF EXCEPT ![revce_count] = b]
      BY <1>1, ReceiveEffect
    <3>2. QED
      BY <2>1, <3>1, PortAssumption DEF TypeInv, TypeOK, Pos
  <2>4. n > 7 => buf[6] = USART_RX_BUF[6]
    <3>1. PICK b \in Bytes : USART_RX_BUF' = [USART_RX_BUF EXCEPT ![revce_count] = b]
      BY <1>1, ReceiveEffect
    <3>2. QED
      BY <2>1, <3>1, PortAssumption DEF TypeInv, TypeOK, Pos
  <2>5. CASE n = 1
    <3>1. n # 3 /\ n # 4 /\ n # 7
      BY <2>5
    <3>2. rece_size' = UnknownSize
      BY <2>2, <2>5, <3>1, Zenon DEF ExpectedSize
    <3>3. QED
      BY <2>1, <2>5, <3>2 DEF SizeInv
  <2>6. CASE n = 7
    <3>1. n # 1 /\ n # 3 /\ n # 4
      BY <2>6
    <3>2. Fn[buf[1]] \in {"read", "write"} => rece_size' = 8
      BY <2>2, <2>6, <3>1, Zenon DEF ExpectedSize
    <3>3. Fn[buf[1]] = "multi" => rece_size' = (ByteCount[buf[6]] + 9) % 256
      <4>1. Fn[buf[1]] = "multi" => Fn[buf[1]] \notin {"read", "write"}
        OBVIOUS
      <4>2. QED
        BY <2>2, <2>6, <3>1, <4>1, Zenon DEF ExpectedSize
    <3>4. Fn[buf[1]] \notin {"read", "write", "multi"} => rece_size' = UnknownSize
      BY <2>2, <2>6, <3>1, Zenon DEF ExpectedSize
    <3>5. QED
      BY <2>1, <2>6, <3>2, <3>3, <3>4 DEF SizeInv
  <2>7. CASE n \notin {1, 7}
    <3>1. \/ rece_size' = rece_size
          \/ n = 3 /\ Fn[buf[1]] = "online" /\ rece_size' = 6
          \/ n = 4 /\ Fn[buf[1]] = "write" /\ rece_size' = DATABUFLEN_SCAN
      BY <2>2, <2>7 DEF ExpectedSize, ScanHeader
    <3>2. QED
      BY <2>1, <2>3, <2>4, <2>7, <3>1 DEF SizeInv, Pos
  <2>8. QED
    BY <2>5, <2>6, <2>7
<1>2. CASE ~ReceiveByte
  BY <1>2, BufferKept DEF SizeInv
<1>3. QED
  BY <1>1, <1>2

(* The bus: a request that has started is no longer waiting, and the       *)
(* buffer holds only bytes that have been on the wire.                     *)
WireInv ==
  onWire # None => onWire \notin waiting /\ offset < Size(onWire)

PlaceInv ==
  \A f \in Requests, p \in Pos :
    USART_RX_BUF[p] = f =>
      /\ f \notin waiting
      /\ p < Size(f)
      /\ onWire = f => p < offset

LEMMA BusInit == Init => WireInv /\ PlaceInv
<1>1. Init => WireInv
  BY DEF Init, WireInv
<1>2. Init => PlaceInv
  BY FillerType, PortAssumption DEF Init, PlaceInv
<1>3. QED
  BY <1>1, <1>2

(* What a step that is neither a start nor a byte on the wire leaves. *)
LEMMA BusKept ==
  ASSUME [Next]_vars, ~ReceiveByte, ~LoseByte,
         \A f \in Requests : ~StartRequest(f)
  PROVE  UNCHANGED <<waiting, onWire, offset>>
<1>1. ASSUME NEW f \in Requests, DealAccept(f) \/ ScanAccept(f)
      PROVE  UNCHANGED <<waiting, onWire, offset>>
  BY <1>1 DEF DealAccept, ScanAccept, bus
<1>2. CASE DelayOver \/ RespondBuild \/ SendDataString
            \/ DealNothing \/ DealWrite \/ DealMulti \/ StoreName \/ MenuUartInit
  BY <1>2 DEF DelayOver, RespondBuild, SendDataString, DealNothing,
              DealWrite, DealMulti, StoreName, MenuUartInit, bus
<1>3. CASE ReceiveOverflow \/ TransmitByte \/ SysTick
  BY <1>3 DEF ReceiveOverflow, TransmitByte, SysTick, bus
<1>4. CASE PollTag \/ StoreTag \/ DealReject \/ ScanDelay \/ ScanReject
            \/ RespondBroadcast
  BY <1>4 DEF PollTag, StoreTag, DealReject, ScanDelay, ScanReject,
              RespondBroadcast, bus
<1>5. CASE DealReinit \/ CountDown \/ StoreCount \/ CheckCount \/ MenuModbusInit
  BY <1>5 DEF DealReinit, CountDown, StoreCount, CheckCount, MenuModbusInit, bus
<1>6. CASE UNCHANGED vars
  BY <1>6 DEF vars, bus
<1>7. QED
  BY <1>1, <1>2, <1>3, <1>4, <1>5, <1>6 DEF Next, Bus, UsartIrq, CommTask, Menu

(* The transmission on the wire moves on by one byte or ends. *)
LEMMA AdvanceEffect ==
  ASSUME TypeInv, WireInv, onWire \in Requests, Advance
  PROVE  /\ waiting' = waiting
         /\ \/ onWire' = onWire /\ offset' = offset + 1
            \/ onWire' = None
         /\ WireInv'
<1>1. Size(onWire) \in 6 .. 264 /\ offset \in Nat /\ onWire # None
  BY SizeType, PortAssumption DEF TypeInv, TypeOK, Bytes
<1>2. CASE offset + 1 = Size(onWire)
  BY <1>2 DEF Advance, WireInv
<1>3. CASE offset + 1 # Size(onWire)
  BY <1>1, <1>3 DEF Advance, WireInv
<1>4. QED
  BY <1>2, <1>3 DEF Advance

LEMMA BusStep == TypeInv /\ WireInv /\ PlaceInv /\ [Next]_vars => WireInv' /\ PlaceInv'
<1> SUFFICES ASSUME TypeInv, WireInv, PlaceInv, [Next]_vars
             PROVE  WireInv' /\ PlaceInv'
  OBVIOUS
<1>1. ASSUME NEW f \in Requests, StartRequest(f) PROVE WireInv' /\ PlaceInv'
  <2>1. Size(f) \in 6 .. 264 /\ f # None
    BY SizeType, PortAssumption DEF Bytes
  <2>2. f \in waiting /\ waiting' = waiting \ {f} /\ onWire' = f /\ offset' = 0
        /\ USART_RX_BUF' = USART_RX_BUF
    BY <1>1 DEF StartRequest, rx
  <2>3. WireInv'
    BY <2>1, <2>2 DEF WireInv
  <2>4. PlaceInv'
    BY <2>2 DEF PlaceInv
  <2>5. QED
    BY <2>3, <2>4
<1>2. CASE LoseByte
  <2>1. onWire \in Requests /\ Advance /\ USART_RX_BUF' = USART_RX_BUF
    BY <1>2 DEF LoseByte, rx, TypeInv, TypeOK
  <2>2. /\ waiting' = waiting
        /\ \/ onWire' = onWire /\ offset' = offset + 1
           \/ onWire' = None
        /\ WireInv'
    BY <2>1, AdvanceEffect
  <2>3. offset \in Nat
    BY DEF TypeInv, TypeOK
  <2>4. ASSUME NEW f \in Requests, NEW p \in Pos, USART_RX_BUF[p] = f
        PROVE  f \notin waiting' /\ p < Size(f) /\ (onWire' = f => p < offset')
    <3>1. f # None /\ p \in Nat
      BY PortAssumption DEF Pos, Bytes
    <3>2. QED
      BY <2>2, <2>3, <2>4, <3>1 DEF PlaceInv
  <2>5. QED
    BY <2>1, <2>2, <2>4 DEF PlaceInv
<1>3. CASE ReceiveByte
  <2>1. onWire \in Requests /\ onWire # None /\ Advance /\ revce_count \in Pos
    BY <1>3, ReceiveEffect DEF ReceiveByte
  <2>2. /\ waiting' = waiting
        /\ \/ onWire' = onWire /\ offset' = offset + 1
           \/ onWire' = None
        /\ WireInv'
    BY <2>1, AdvanceEffect
  <2>3. offset \in Nat
    BY DEF TypeInv, TypeOK
  <2>4. PICK b \in Bytes :
          /\ USART_RX_BUF' = [USART_RX_BUF EXCEPT ![revce_count] = b]
          /\ b \in Requests => b = onWire /\ offset = revce_count
    BY <1>3, ReceiveEffect
  <2>5. ASSUME NEW f \in Requests, NEW p \in Pos, USART_RX_BUF'[p] = f
        PROVE  f \notin waiting' /\ p < Size(f) /\ (onWire' = f => p < offset')
    <3>1. f # None /\ p \in Nat /\ Size(f) \in Nat
      BY SizeType, PortAssumption DEF Pos, Bytes
    <3>2. CASE p = revce_count
      <4>1. b = f /\ f = onWire /\ offset = p
        BY <2>4, <2>5, <3>2 DEF TypeInv, TypeOK
      <4>2. QED
        BY <2>1, <2>2, <2>3, <3>1, <4>1 DEF WireInv
    <3>3. CASE p # revce_count
      <4>1. USART_RX_BUF[p] = f
        BY <2>4, <2>5, <3>3 DEF TypeInv, TypeOK
      <4>2. QED
        BY <2>2, <2>3, <3>1, <4>1 DEF PlaceInv
    <3>4. QED
      BY <3>2, <3>3
  <2>6. QED
    BY <2>2, <2>5 DEF PlaceInv
<1>4. CASE ~ReceiveByte /\ ~LoseByte /\ \A f \in Requests : ~StartRequest(f)
  <2>1. UNCHANGED <<waiting, onWire, offset, USART_RX_BUF>>
    BY <1>4, BusKept, BufferKept
  <2>2. QED
    BY <2>1 DEF WireInv, PlaceInv
<1>5. QED
  BY <1>1, <1>2, <1>3, <1>4

(* The multiple writes on the bus are short enough for their size to fit   *)
(* in a byte, and none of the requests is a scan command.                  *)
ShortRequests ==
  \A f \in Requests :
    /\ Fn[f] = "multi" => ByteCount[f] + 9 < 256
    /\ Fn[f] = "write" => f \notin Scan

LEMMA WholeNow ==
  ASSUME ShortRequests, TypeInv, SizeInv, PlaceInv
  PROVE  CompleteIsWhole
<1> SUFFICES ASSUME NEW f \in Requests,
                    revce_count = rece_size, revce_count > 0,
                    Holds(f, revce_count)
             PROVE  revce_count = Size(f)
  BY DEF CompleteIsWhole
<1> DEFINE n == revce_count
<1>1. n \in 1 .. USART_REC_LEN
  BY PortAssumption DEF TypeInv, TypeOK
<1>2. \A p \in 0 .. n - 1 : USART_RX_BUF[p] = f /\ p < Size(f)
  BY <1>1, PortAssumption DEF Holds, PlaceInv, Pos
<1>3. CASE n \in 1 .. 2
  BY <1>3 DEF SizeInv, UnknownSize
<1>4. CASE n \in 3 .. 6
  <2>1. n = 6 /\ Fn[f] = "online"
    BY <1>2, <1>4 DEF SizeInv, UnknownSize, DATABUFLEN_SCAN
  <2>2. QED
    BY <2>1 DEF Size
<1>5. CASE n >= 7
  <2>1. USART_RX_BUF[1] = f /\ USART_RX_BUF[6] = f
    BY <1>1, <1>2, <1>5
  <2>2. Fn[f] \in FnCodes /\ ByteCount[f] \in 0 .. 255
    BY PortAssumption DEF Bytes
  <2>3. CASE Fn[f] \in {"read", "write"}
    <3>1. f \in Scan => Fn[f] = "read"
      BY <2>3 DEF ShortRequests
    <3>2. Size(f) = 8
      BY <2>3, <3>1 DEF Size
    <3>3. QED
      BY <1>5, <2>1, <2>3, <3>2 DEF SizeInv
  <2>4. CASE Fn[f] = "multi"
    <3>1. Size(f) = ByteCount[f] + 9
      BY <2>4 DEF Size
    <3>2. ByteCount[f] + 9 < 256
      BY <2>4 DEF ShortRequests
    <3>3. n = (ByteCount[f] + 9) % 256
      BY <1>5, <2>1, <2>4 DEF SizeInv
    <3>4. QED
      BY <2>2, <3>1, <3>2, <3>3
  <2>5. CASE Fn[f] \in {"online", "other"}
    <3>1. Size(f) \in {6, 8}
      BY <2>5 DEF Size
    <3>2. n = 250
      BY <1>5, <2>1, <2>5 DEF SizeInv, UnknownSize
    <3>3. QED
      BY <1>2, <3>1, <3>2
  <2>6. QED
    BY <2>2, <2>3, <2>4, <2>5 DEF FnCodes
<1>6. QED
  BY <1>1, <1>3, <1>4, <1>5

(* Whatever the tasks and the menu do in between, a packet that is         *)
(* announced and holds the beginning of a request holds all of it.         *)
THEOREM WholePackets ==
  ASSUME ShortRequests
  PROVE  Spec => []CompleteIsWhole
<1> DEFINE IInv == TypeInv /\ SizeInv /\ WireInv /\ PlaceInv
<1>1. Init => IInv
  BY TypeInit, SizeInit, BusInit
<1>2. IInv /\ [Next]_vars => IInv'
  BY TypeStep, SizeStep, BusStep
<1>3. IInv => CompleteIsWhole
  BY WholeNow
<1>4. QED
  BY <1>1, <1>2, <1>3, PTL DEF Spec

-----------------------------------------------------------------------------
(* At most once.  A request that was executed is off the bus, so it cannot *)
(* be completed again; the tag that announced it is consumed.              *)

OnceInv ==
  /\ pc \notin {"tag", "check", "scan"}
  /\ \A f \in Requests :
       handled[f] > 0 => handled[f] = 1 /\ f \notin waiting /\ onWire # f
  /\ \A f \in Requests :
       dealwithTag = 2 /\ Acceptable(f) => handled[f] = 0

LEMMA OnceInit == Init => OnceInv
BY DEF Init, OnceInv

(* The steps that execute nothing and announce nothing. *)
LEMMA OnceFrame ==
  ASSUME OnceInv, pc' \notin {"tag", "check", "scan"},
         waiting' = waiting,
         onWire' = onWire \/ onWire' = None,
         UNCHANGED <<USART_RX_BUF, rece_size, handled>>,
         UNCHANGED <<revce_count, dealwithTag>> \/ dealwithTag' # 2
  PROVE  OnceInv'
<1>1. \A f \in Requests : f # None
  BY PortAssumption DEF Bytes
<1>2. QED
  BY <1>1 DEF OnceInv, Acceptable, Holds

(* A request with all its bytes in the buffer is off the bus. *)
LEMMA OffTheBus ==
  ASSUME TypeInv, WireInv, PlaceInv, NEW f \in Requests, Acceptable(f)
  PROVE  f \notin waiting /\ onWire # f
<1>1. Size(f) \in 6 .. 264 /\ Size(f) - 1 \in Pos
  <2>1. Size(f) \in 6 .. 264
    BY SizeType
  <2>2. Size(f) <= USART_REC_LEN
    BY DEF Acceptable, TypeInv, TypeOK
  <2>3. QED
    BY <2>1, <2>2, PortAssumption DEF Pos
<1>2. USART_RX_BUF[Size(f) - 1] = f
  BY <1>1 DEF Acceptable, Holds
<1>3. ASSUME onWire = f PROVE FALSE
  <2>1. Size(f) - 1 < offset /\ offset < Size(f) /\ offset \in Nat
    BY <1>1, <1>2, <1>3, PortAssumption
       DEF PlaceInv, WireInv, TypeInv, TypeOK, Bytes
  <2>2. QED
    BY <1>1, <2>1
<1>4. QED
  BY <1>1, <1>2, <1>3 DEF PlaceInv

LEMMA OnceStep ==
  ASSUME ~Interruptible, Scan = {},
         TypeInv, WireInv, PlaceInv, OnceInv, [Next]_vars
  PROVE  OnceInv'
<1>1. ASSUME NEW f \in Requests, StartRequest(f) PROVE OnceInv'
  <2>1. f \in waiting /\ waiting' = waiting \ {f} /\ onWire' = f
        /\ UNCHANGED <<rx, comm, hist>>
    BY <1>1 DEF StartRequest
  <2>2. QED
    BY <2>1 DEF OnceInv, Acceptable, Holds, rx, comm, hist
<1>2. CASE LoseByte
  BY <1>2, OnceFrame DEF LoseByte, Advance, OnceInv, rx, comm, hist
<1>3. CASE ReceiveByte
  <2>1. UNCHANGED <<pc, handled, waiting>> /\ (onWire' = onWire \/ onWire' = None)
    BY <1>3 DEF ReceiveByte, Advance, comm, hist
  <2>2. onWire \in Requests /\ revce_count \in Pos /\ revce_count' = revce_count + 1
    BY <1>3, ReceiveEffect
  <2>3. PICK b \in Bytes :
          /\ USART_RX_BUF' = [USART_RX_BUF EXCEPT ![revce_count] = b]
          /\ b \in Requests => b = onWire /\ offset = revce_count
    BY <1>3, ReceiveEffect
  <2>4. ASSUME NEW f \in Requests, Acceptable(f)' PROVE handled'[f] = 0
    <3>1. revce_count + 1 = Size(f) /\ Size(f) \in 6 .. 264
      BY <2>2, <2>4, SizeType DEF Acceptable
    <3>2. USART_RX_BUF'[revce_count] = f
      <4>1. revce_count \in 0 .. Size(f) - 1
        BY <2>2, <3>1 DEF Pos
      <4>2. QED
        BY <2>4, <4>1 DEF Acceptable, Holds
    <3>3. onWire = f
      BY <2>2, <2>3, <3>2 DEF TypeInv, TypeOK
    <3>4. handled[f] \in Nat
      BY DEF TypeInv, TypeOK
    <3>5. QED
      BY <2>1, <3>3, <3>4 DEF OnceInv
  <2>5. \A f \in Requests : f # None
    BY PortAssumption DEF Bytes
  <2>6. QED
    BY <2>1, <2>4, <2>5 DEF OnceInv
<1>4. CASE ReceiveOverflow
  <2>1. CASE rece_size = 0
    <3>1. ASSUME NEW f \in Requests PROVE ~Acceptable(f)'
      <4>1. rece_size' = 0 /\ Size(f) > 0
        BY <1>4, <2>1, SizeType DEF ReceiveOverflow
      <4>2. QED
        BY <4>1 DEF Acceptable
    <3>2. QED
      BY <1>4, <3>1 DEF ReceiveOverflow, OnceInv, bus, comm, hist
  <2>2. CASE rece_size # 0
    BY <1>4, <2>2, OnceFrame
       DEF ReceiveOverflow, serial_restart, OnceInv, bus, comm, hist
  <2>3. QED
    BY <2>1, <2>2
<1>5. CASE TransmitByte
  <2>1. UNCHANGED <<bus, USART_RX_BUF, rece_size, comm, hist>>
    BY <1>5 DEF TransmitByte
  <2>2. UNCHANGED <<revce_count, dealwithTag>> \/ dealwithTag' = 0
    BY <1>5, Zenon DEF TransmitByte, serial_restart
  <2>3. QED
    BY <2>1, <2>2, OnceFrame DEF OnceInv, bus, comm, hist
<1>6. CASE SysTick
  BY <1>6, OnceFrame DEF SysTick, serial_restart, OnceInv, bus, comm, hist
<1>7. CASE PollTag
  BY <1>7, OnceFrame DEF PollTag, Goto, bus, hist
<1>8. CASE StoreTag
  BY <1>8 DEF StoreTag, OnceInv
<1>9. ASSUME NEW f \in Requests, DealAccept(f) PROVE OnceInv'
  <2>1. dealwithTag = 2 /\ dealwithTag' = 1 /\ Acceptable(f)
    BY <1>9 DEF DealAccept, Dealing, OnceInv
  <2>2. handled[f] = 0 /\ f \notin waiting /\ onWire # f
    BY <2>1, OffTheBus DEF OnceInv
  <2>3. handled' = [handled EXCEPT ![f] = 1]
    BY <1>9, <2>2 DEF DealAccept, TypeInv, TypeOK
  <2>4. UNCHANGED bus /\ pc' \in {"respond", "delay"}
    BY <1>9 DEF DealAccept, Goto
  <2>5. QED
    BY <2>1, <2>2, <2>3, <2>4 DEF OnceInv, TypeInv, TypeOK, bus
<1>10. CASE DealReject
  BY <1>10, OnceFrame DEF DealReject, serial_restart, Goto, bus, hist
<1>11. CASE DelayOver
  BY <1>11, OnceFrame DEF DelayOver, Goto, bus, rx, hist
<1>12. CASE RespondBroadcast
  BY <1>12, OnceFrame DEF RespondBroadcast, serial_restart, Goto, bus, hist
<1>13. CASE RespondBuild
  BY <1>13, OnceFrame DEF RespondBuild, Goto, bus, rx, hist
<1>14. CASE SendDataString
  BY <1>14, OnceFrame DEF SendDataString, Goto, bus, rx, hist
<1>15. CASE DealNothing
  BY <1>15, OnceFrame DEF DealNothing, Goto, bus, rx, hist
<1>16. CASE DealWrite
  BY <1>16, OnceFrame DEF DealWrite, modbus_init, serial_restart, Goto, bus, rx
<1>17. CASE DealMulti \/ StoreName
  BY <1>17, OnceFrame DEF DealMulti, StoreName, Goto, bus, rx
<1>18. CASE DealReinit
  BY <1>18, OnceFrame
     DEF DealReinit, modbus_init, serial_restart, Goto, bus, hist
<1>19. CASE CountDown
  BY <1>19, OnceFrame DEF CountDown, serial_restart, Goto, bus, hist
<1>20. CASE StoreCount
  BY <1>20, OnceFrame DEF StoreCount, Goto, bus, hist
<1>21. CASE CheckCount
  BY <1>21, OnceFrame DEF CheckCount, serial_restart, Goto, bus, hist
<1>22. CASE MenuUartInit
  BY <1>22, OnceFrame DEF MenuUartInit, OnceInv, bus, rx, comm, hist
<1>23. CASE MenuModbusInit
  BY <1>23, OnceFrame
     DEF MenuModbusInit, modbus_init, serial_restart, OnceInv, bus, comm, hist
<1>24. CASE UNCHANGED vars
  BY <1>24, OnceFrame DEF vars, OnceInv, bus, rx, comm, hist
<1>25. ASSUME NEW f \in Requests, ScanAccept(f) PROVE OnceInv'
  BY <1>25 DEF ScanAccept, OnceInv
<1>26. CASE ScanDelay \/ ScanReject
  BY <1>26 DEF ScanDelay, ScanReject, OnceInv
<1>27. QED
  BY <1>1, <1>2, <1>3, <1>4, <1>5, <1>6, <1>7, <1>8, <1>9, <1>10, <1>11,
     <1>12, <1>13, <1>14, <1>15, <1>16, <1>17, <1>18, <1>19, <1>20, <1>21,
     <1>22, <1>23, <1>24, <1>25, <1>26
     DEF Next, Bus, UsartIrq, CommTask, Menu

(* As long as the decrement of the tag is not interrupted and no           *)
(* plug-and-play request is on the bus, no transmission is executed twice, *)
(* whatever is lost, however large the packets are and however often the   *)
(* port is re-initialised.                                                 *)
THEOREM ExecutedAtMostOnce ==
  ASSUME ~Interruptible, Scan = {}
  PROVE  Spec => []AtMostOnce
<1> DEFINE IInv == TypeInv /\ WireInv /\ PlaceInv /\ OnceInv
<1>1. Init => IInv
  BY TypeInit, BusInit, OnceInit
<1>2. IInv /\ [Next]_vars => IInv'
  BY TypeStep, BusStep, OnceStep
<1>3. IInv => AtMostOnce
  BY DEF AtMostOnce, OnceInv, TypeInv, TypeOK
<1>4. QED
  BY <1>1, <1>2, <1>3, PTL DEF Spec

-----------------------------------------------------------------------------
(* Letting go of the line.  This needs nothing of the discipline below: it *)
(* survives interrupted decrements, random delays and re-initialisations.  *)

(* A request with an unknown function code never becomes complete.  (The   *)
(* size is 0 until the first byte ever received.)                          *)
OtherSize == Fn[USART_RX_BUF[1]] = "other" => rece_size \in {0, UnknownSize}

(* When the buffer of an accepted request is overwritten before the reply  *)
(* is built, the bytes that came in have started the timeout.              *)
OtherTimed ==
  /\ pc \in {"delay", "respond"}
  /\ revce_count = 1 \/ Fn[USART_RX_BUF[1]] = "other"
  => serial_receive_timeout_count > 0

LetGoInv == OtherSize /\ OtherTimed /\ LineReleased

LEMMA LetGoInit == Init => LetGoInv
BY DEF Init, LetGoInv, OtherSize, OtherTimed, LineReleased

LEMMA OtherSizeStep ==
  ASSUME TypeInv, SizeInv, OtherSize, [Next]_vars
  PROVE  OtherSize'
<1>1. CASE ReceiveByte
  <2> DEFINE n   == revce_count + 1
             buf == USART_RX_BUF'
  <2>1. n \in 1 .. USART_REC_LEN /\ revce_count \in Pos
        /\ rece_size' = ExpectedSize(buf, n)
    BY <1>1, ReceiveEffect
  <2>2. n # 2 => buf[1] = USART_RX_BUF[1]
    <3>1. PICK b \in Bytes : USART_RX_BUF' = [USART_RX_BUF EXCEPT ![revce_count] = b]
      BY <1>1, ReceiveEffect
    <3>2. QED
      BY <2>1, <3>1, PortAssumption DEF TypeInv, TypeOK, Pos
  <2>3. n = 2 => rece_size = UnknownSize
    BY <2>1 DEF SizeInv, Pos
  <2>4. Fn[buf[1]] = "other" => rece_size' \in {UnknownSize, rece_size}
    BY <2>1 DEF ExpectedSize, ScanHeader
  <2>5. QED
    BY <2>2, <2>3, <2>4 DEF OtherSize
<1>2. CASE ~ReceiveByte
  BY <1>2, BufferKept DEF OtherSize
<1>3. QED
  BY <1>1, <1>2

(* Requests that fit in the buffer are all that is ever accepted, and the  *)
(* handler has recognised their function code.                             *)
LEMMA AcceptedKnown ==
  ASSUME USART_REC_LEN < UnknownSize, TypeInv, SizeInv, OtherSize,
         NEW f \in Requests, Acceptable(f) \/ CrcFits(f)
  PROVE  revce_count # 1 /\ Fn[USART_RX_BUF[1]] # "other"
<1>1. /\ rece_size = Size(f) /\ Size(f) <= USART_REC_LEN
      /\ Holds(f, Size(f)) /\ Size(f) \in 6 .. 264
  BY SizeType DEF Acceptable, CrcFits, TypeInv, TypeOK
<1>2. USART_RX_BUF[1] = f
  <2>1. 1 \in 0 .. Size(f) - 1
    BY <1>1
  <2>2. QED
    BY <1>1, <2>1 DEF Holds
<1>3. rece_size # 0 /\ rece_size # UnknownSize
  BY <1>1, PortAssumption DEF UnknownSize
<1>4. QED
  BY <1>2, <1>3 DEF SizeInv, OtherSize

(* What the interrupt handler does to the timeout of such a buffer. *)
LEMMA OtherReceive ==
  ASSUME USART_REC_LEN < UnknownSize, TypeInv, SizeInv, OtherSize, OtherTimed,
         ReceiveByte
  PROVE  OtherTimed'
<1> DEFINE n   == revce_count + 1
           buf == USART_RX_BUF'
<1>1. /\ n \in 1 .. USART_REC_LEN /\ revce_count \in Pos /\ revce_count' = n
      /\ serial_receive_timeout_count' = Timeout(buf, n)
      /\ pc' = pc
  BY ReceiveEffect DEF ReceiveByte, comm
<1>2. n # 2 => buf[1] = USART_RX_BUF[1]
  <2>1. PICK b \in Bytes : USART_RX_BUF' = [USART_RX_BUF EXCEPT ![revce_count] = b]
    BY ReceiveEffect
  <2>2. QED
    BY <1>1, <2>1, PortAssumption DEF TypeInv, TypeOK, Pos
<1>3. CASE n = 1
  <2>1. n # 4 /\ n # 7 /\ ~Complete(n)
    BY <1>3 DEF Complete
  <2>2. Timeout(buf, n) = RX_TIMEOUT
    BY <1>3, <2>1, Zenon DEF Timeout
  <2>3. QED
    BY <1>1, <2>2, PortAssumption DEF OtherTimed
<1>4. CASE n # 1
  <2> SUFFICES ASSUME pc \in {"delay", "respond"}, Fn[buf[1]] = "other"
               PROVE  serial_receive_timeout_count' > 0
    BY <1>1, <1>4 DEF OtherTimed
  <2>1. serial_receive_timeout_count > 0
    BY <1>1, <1>2 DEF OtherTimed, Pos
  <2>2. ~Complete(n)
    <3>1. CASE n = 2
      BY <1>1, <3>1 DEF Complete, SizeInv, UnknownSize, Pos
    <3>2. CASE n # 2
      BY <1>1, <1>2, <3>2, PortAssumption DEF Complete, OtherSize, UnknownSize
    <3>3. QED
      BY <3>1, <3>2
  <2>3. Timeout(buf, n) = serial_receive_timeout_count
    BY <1>4, <2>2 DEF Timeout, ScanHeader
  <2>4. QED
    BY <1>1, <2>1, <2>3
<1>5. QED
  BY <1>3, <1>4

(* A packet larger than the buffer is thrown away, its timeout kept. *)
LEMMA OtherOverflow ==
  ASSUME TypeInv, SizeInv, OtherTimed, ReceiveOverflow
  PROVE  OtherTimed'
<1>1. revce_count > 7 /\ pc' = pc /\ revce_count' = 0
      /\ USART_RX_BUF' = USART_RX_BUF
  BY PortAssumption DEF ReceiveOverflow, serial_restart, comm
<1>2. Fn[USART_RX_BUF[1]] = "other" => rece_size # 0
  BY <1>1 DEF SizeInv, UnknownSize, TypeInv, TypeOK
<1>3. rece_size # 0 =>
        serial_receive_timeout_count' = serial_receive_timeout_count
  BY DEF ReceiveOverflow
<1>4. QED
  BY <1>1, <1>2, <1>3 DEF OtherTimed

LEMMA OtherTimedStep ==
  ASSUME USART_REC_LEN < UnknownSize, TypeInv, SizeInv, OtherSize, OtherTimed,
         [Next]_vars
  PROVE  OtherTimed'
<1>1. ASSUME NEW f \in Requests, StartRequest(f) PROVE OtherTimed'
  BY <1>1 DEF StartRequest, OtherTimed, rx, comm
<1>2. CASE ReceiveByte
  BY <1>2, OtherReceive
<1>3. CASE ReceiveOverflow
  BY <1>3, OtherOverflow
<1>4. CASE TransmitByte \/ SysTick
  <2>1. revce_count' \in {0, revce_count}
    BY <1>4, Zenon DEF TransmitByte, SysTick, serial_restart
  <2>2. UNCHANGED <<USART_RX_BUF, serial_receive_timeout_count, pc>>
    BY <1>4, Zenon DEF TransmitByte, SysTick, comm
  <2>3. QED
    BY <2>1, <2>2 DEF OtherTimed
<1>5. ASSUME NEW f \in Requests, DealAccept(f) \/ ScanAccept(f) PROVE OtherTimed'
  <2>1. revce_count # 1 /\ Fn[USART_RX_BUF[1]] # "other"
    BY <1>5, AcceptedKnown DEF DealAccept, ScanAccept
  <2>2. UNCHANGED <<USART_RX_BUF, revce_count>>
    BY <1>5 DEF DealAccept, ScanAccept, rx
  <2>3. QED
    BY <2>1, <2>2 DEF OtherTimed
<1>6. CASE DelayOver
  BY <1>6 DEF DelayOver, OtherTimed, rx
<1>7. CASE LoseByte
  BY <1>7 DEF LoseByte, OtherTimed, rx, comm
<1>8. CASE PollTag \/ StoreTag \/ DealReject \/ ScanDelay \/ ScanReject
            \/ RespondBroadcast \/ RespondBuild \/ SendDataString
  <2>1. pc' \notin {"delay", "respond"}
    BY <1>8 DEF PollTag, StoreTag, DealReject, ScanDelay, ScanReject,
                RespondBroadcast, RespondBuild, SendDataString, Goto
  <2>2. QED
    BY <2>1 DEF OtherTimed
<1>9. CASE DealNothing \/ DealWrite \/ DealMulti \/ StoreName \/ DealReinit
            \/ CountDown \/ StoreCount \/ CheckCount
  <2>1. pc' \notin {"delay", "respond"}
    BY <1>9 DEF DealNothing, DealWrite, DealMulti, StoreName, DealReinit, CountDown,
                StoreCount, CheckCount, Goto
  <2>2. QED
    BY <2>1 DEF OtherTimed
<1>10. CASE MenuUartInit
  BY <1>10 DEF MenuUartInit, OtherTimed, rx, comm
<1>11. CASE MenuModbusInit
  BY <1>11, PortAssumption DEF MenuModbusInit, modbus_init, OtherTimed
<1>12. CASE UNCHANGED vars
  BY <1>12 DEF vars, OtherTimed, rx, comm
<1>13. QED
  BY <1>1, <1>2, <1>3, <1>4, <1>5, <1>6, <1>7, <1>8, <1>9, <1>10, <1>11, <1>12
     DEF Next, Bus, UsartIrq, CommTask, Menu

(* The obligation to let go is handed on from step to step. *)
LEMMA LineStep ==
  ASSUME TypeInv, OtherTimed, LineReleased, [Next]_vars
  PROVE  LineReleased'
<1>1. ASSUME NEW f \in Requests, StartRequest(f) PROVE LineReleased'
  BY <1>1 DEF StartRequest, LineReleased, Releasing, rx, tx, comm, panel
<1>2. CASE LoseByte
  BY <1>2 DEF LoseByte, LineReleased, Releasing, rx, tx, comm, panel
<1>3. CASE ReceiveByte
  BY <1>3 DEF ReceiveByte, LineReleased
<1>4. CASE ReceiveOverflow
  BY <1>4 DEF ReceiveOverflow, serial_restart, LineReleased
<1>5. CASE TransmitByte
  <2>1. \/ TXEN' = "receive"
        \/ reply_done' = RECEIVE_DELAY /\ RECEIVE_DELAY # 0
        \/ txe'
    BY <1>5, Zenon DEF TransmitByte, serial_restart
  <2>2. QED
    BY <2>1, PortAssumption DEF LineReleased, Releasing
<1>6. CASE SysTick
  BY <1>6 DEF SysTick, serial_restart, LineReleased, Releasing, TypeInv, TypeOK
<1>7. CASE PollTag \/ StoreTag \/ ScanDelay
  BY <1>7 DEF PollTag, StoreTag, ScanDelay, Dealing, Goto, LineReleased,
              Releasing, tx, panel
<1>8. ASSUME NEW f \in Requests, DealAccept(f) \/ ScanAccept(f) PROVE LineReleased'
  BY <1>8 DEF DealAccept, ScanAccept, Dealing, Goto, LineReleased, Releasing,
              tx, panel
<1>9. CASE DealReject \/ ScanReject \/ RespondBroadcast \/ DealReinit
            \/ MenuModbusInit
  BY <1>9 DEF DealReject, ScanReject, RespondBroadcast, DealReinit,
              MenuModbusInit, modbus_init, serial_restart, LineReleased
<1>10. CASE DelayOver
  BY <1>10 DEF DelayOver, Goto, LineReleased, Releasing
<1>11. CASE RespondBuild
  BY <1>11 DEF RespondBuild, Goto, OtherTimed, LineReleased, Releasing, rx
<1>12. CASE SendDataString
  BY <1>12 DEF SendDataString, LineReleased, Releasing
<1>13. CASE DealNothing \/ DealMulti \/ StoreName
  BY <1>13 DEF DealNothing, DealMulti, StoreName, Goto, LineReleased, Releasing, rx, tx,
               panel
<1>14. CASE DealWrite
  <2>1. \/ pc' = "timeout" /\ pc = "store" /\ UNCHANGED <<rx, TXEN, tx>>
        \/ pc' = "reinit"
        \/ TXEN' = "receive"
    BY <1>14 DEF DealWrite, modbus_init, serial_restart, Goto
  <2>2. UNCHANGED <<reply_done, panel>>
    BY <1>14 DEF DealWrite
  <2>3. QED
    BY <2>1, <2>2 DEF LineReleased, Releasing, rx, tx, panel
<1>15. CASE CountDown
  <2>1. pc = "timeout" /\ UNCHANGED <<tx, reply_done, panel>>
    BY <1>15 DEF CountDown
  <2>2. \/ UNCHANGED <<serial_receive_timeout_count, TXEN>>
        \/ serial_receive_timeout_count' > 0
        \/ TXEN' = "receive"
    BY <1>15 DEF CountDown, serial_restart, TypeInv, TypeOK
  <2>3. QED
    BY <2>1, <2>2 DEF LineReleased, Releasing, tx, panel
<1>16. CASE StoreCount
  BY <1>16 DEF StoreCount, Goto, LineReleased, Releasing
<1>17. CASE CheckCount
  BY <1>17 DEF CheckCount, serial_restart, LineReleased, Releasing, TypeInv, TypeOK
<1>18. CASE MenuUartInit
  BY <1>18 DEF MenuUartInit, LineReleased, Releasing
<1>19. CASE UNCHANGED vars
  BY <1>19 DEF vars, LineReleased, Releasing, rx, tx, comm, panel
<1>20. QED
  BY <1>1, <1>2, <1>3, <1>4, <1>5, <1>6, <1>7, <1>8, <1>9, <1>10, <1>11, <1>12,
     <1>13, <1>14, <1>15, <1>16, <1>17, <1>18, <1>19
     DEF Next, Bus, UsartIrq, CommTask, Menu

(* Whoever drives the line is going to release it, whatever is lost,       *)
(* delayed or interrupted and however often the port is re-initialised.    *)
(* The buffer has to be shorter than the size that stands for "unknown",   *)
(* as it is in the code.                                                   *)
THEOREM LineIsReleased ==
  ASSUME USART_REC_LEN < UnknownSize
  PROVE  Spec => []LineReleased
<1> DEFINE IInv == TypeInv /\ SizeInv /\ LetGoInv
<1>1. Init => IInv
  BY TypeInit, SizeInit, LetGoInit
<1>2. IInv /\ [Next]_vars => IInv'
  BY TypeStep, SizeStep, OtherSizeStep, OtherTimedStep, LineStep DEF LetGoInv
<1>3. IInv => LineReleased
  BY DEF LetGoInv
<1>4. QED
  BY <1>1, <1>2, <1>3, PTL DEF Spec

(* Nor do bytes get stuck in the receive buffer, unless the decrement of   *)
(* the tag is interrupted or a byte count of 248 makes the timeout 0.      *)
NoWrap == \A b \in Bytes : ByteCount[b] # 248

LEMMA DeafStep ==
  ASSUME NoWrap, TypeInv, OtherTimed, pc # "tag", NotDeaf, [Next]_vars
  PROVE  NotDeaf'
<1>1. ASSUME NEW f \in Requests, StartRequest(f) PROVE NotDeaf'
  BY <1>1 DEF StartRequest, NotDeaf, Releasing, rx, tx, comm, panel
<1>2. CASE LoseByte
  BY <1>2 DEF LoseByte, NotDeaf, Releasing, rx, tx, comm, panel
<1>3. CASE ReceiveByte
  <2> DEFINE n   == revce_count + 1
             buf == USART_RX_BUF'
  <2>1. /\ revce_count \in Pos /\ n \in 1 .. USART_REC_LEN
        /\ buf \in [Pos -> Bytes]
        /\ serial_receive_timeout_count' = Timeout(buf, n)
        /\ dealwithTag' = IF Complete(n) THEN 2 ELSE dealwithTag
    BY <1>3, ReceiveEffect
  <2>2. UNCHANGED <<TXEN, tx, reply_done, comm, panel>>
    BY <1>3 DEF ReceiveByte
  <2>3. CASE Complete(n)
    BY <2>1, <2>3 DEF NotDeaf
  <2>4. CASE ~Complete(n) /\ n \in {1, 7}
    <3>1. (ByteCount[buf[6]] + 8) % 256 > 0
      <4>1. ByteCount[buf[6]] \in 0 .. 255 \ {248}
        BY <2>1, PortAssumption DEF NoWrap, Pos
      <4>2. QED
        BY <4>1
    <3>2. \/ Timeout(buf, n) \in {RX_TIMEOUT, (ByteCount[buf[6]] + 8) % 256}
          \/ n = 7 /\ Timeout(buf, n) = serial_receive_timeout_count
      BY <2>4, Zenon DEF Timeout
    <3>3. QED
      BY <2>1, <2>2, <2>4, <3>1, <3>2, PortAssumption
         DEF NotDeaf, Releasing, tx, comm, panel, Pos
  <2>5. CASE ~Complete(n) /\ n \notin {1, 7}
    <3>1. Timeout(buf, n) \in {RX_TIMEOUT, serial_receive_timeout_count}
      BY <2>5 DEF Timeout
    <3>2. QED
      BY <2>1, <2>2, <2>5, <3>1, PortAssumption
         DEF NotDeaf, Releasing, tx, comm, panel, Pos
  <2>6. QED
    BY <2>3, <2>4, <2>5
<1>4. CASE ReceiveOverflow
  BY <1>4 DEF ReceiveOverflow, serial_restart, NotDeaf
<1>5. CASE TransmitByte
  <2>1. \/ revce_count' = 0
        \/ reply_done' = RECEIVE_DELAY /\ RECEIVE_DELAY # 0
        \/ txe'
    BY <1>5, Zenon DEF TransmitByte, serial_restart
  <2>2. QED
    BY <2>1, PortAssumption DEF NotDeaf, Releasing
<1>6. CASE SysTick
  BY <1>6 DEF SysTick, serial_restart, NotDeaf, Releasing, TypeInv, TypeOK
<1>7. CASE PollTag \/ StoreTag
  BY <1>7 DEF PollTag, StoreTag, Goto, NotDeaf, Releasing, tx, panel
<1>8. ASSUME NEW f \in Requests, DealAccept(f) \/ ScanAccept(f) PROVE NotDeaf'
  BY <1>8 DEF DealAccept, ScanAccept, Goto, NotDeaf, Releasing
<1>9. CASE DealReject \/ ScanReject \/ RespondBroadcast \/ DealReinit
            \/ MenuModbusInit
  BY <1>9 DEF DealReject, ScanReject, RespondBroadcast, DealReinit,
              MenuModbusInit, modbus_init, serial_restart, NotDeaf
<1>10. CASE DelayOver \/ ScanDelay
  BY <1>10 DEF DelayOver, ScanDelay, Goto, NotDeaf, Releasing
<1>11. CASE RespondBuild
  BY <1>11 DEF RespondBuild, Goto, OtherTimed, NotDeaf, Releasing, rx
<1>12. CASE SendDataString
  BY <1>12 DEF SendDataString, NotDeaf, Releasing
<1>13. CASE DealNothing \/ DealMulti \/ StoreName
  BY <1>13 DEF DealNothing, DealMulti, StoreName, Goto, NotDeaf, Releasing, rx, tx,
               panel
<1>14. CASE DealWrite
  <2>1. \/ pc' = "timeout" /\ pc = "store" /\ UNCHANGED <<rx, TXEN, tx>>
        \/ pc' = "reinit"
        \/ revce_count' = 0
    BY <1>14 DEF DealWrite, modbus_init, serial_restart, Goto
  <2>2. UNCHANGED <<reply_done, panel>>
    BY <1>14 DEF DealWrite
  <2>3. QED
    BY <2>1, <2>2 DEF NotDeaf, Releasing, rx, tx, panel
<1>15. CASE CountDown
  <2>1. pc = "timeout" /\ UNCHANGED <<tx, reply_done, panel>>
    BY <1>15 DEF CountDown
  <2>2. \/ UNCHANGED <<serial_receive_timeout_count, revce_count, dealwithTag>>
        \/ serial_receive_timeout_count' > 0
        \/ revce_count' = 0
    BY <1>15 DEF CountDown, serial_restart, TypeInv, TypeOK
  <2>3. QED
    BY <2>1, <2>2 DEF NotDeaf, Releasing, tx, panel
<1>16. CASE StoreCount
  BY <1>16 DEF StoreCount, Goto, NotDeaf, Releasing
<1>17. CASE CheckCount
  BY <1>17 DEF CheckCount, serial_restart, NotDeaf, Releasing, TypeInv, TypeOK
<1>18. CASE MenuUartInit
  BY <1>18 DEF MenuUartInit, NotDeaf, Releasing
<1>19. CASE UNCHANGED vars
  BY <1>19 DEF vars, NotDeaf, Releasing, rx, tx, comm, panel
<1>20. QED
  BY <1>1, <1>2, <1>3, <1>4, <1>5, <1>6, <1>7, <1>8, <1>9, <1>10, <1>11, <1>12,
     <1>13, <1>14, <1>15, <1>16, <1>17, <1>18, <1>19
     DEF Next, Bus, UsartIrq, CommTask, Menu

(* An uninterrupted task is never in the middle of a decrement of the tag. *)
LEMMA TagStep ==
  ASSUME ~Interruptible, pc # "tag", [Next]_vars
  PROVE  pc' # "tag"
BY DEF Next, Bus, UsartIrq, CommTask, Menu, vars, comm, Goto,
       StartRequest, LoseByte, ReceiveByte, ReceiveOverflow, TransmitByte,
       SysTick, PollTag, StoreTag, DealAccept, DealReject, DelayOver, ScanDelay,
       ScanAccept, ScanReject, RespondBroadcast, RespondBuild, SendDataString,
       DealNothing, DealWrite, DealMulti, StoreName, DealReinit, CountDown,
       StoreCount, CheckCount, MenuUartInit, MenuModbusInit

(* A port with bytes in its buffer is about to clear it.                   *)
THEOREM NeverDeaf ==
  ASSUME ~Interruptible, NoWrap, USART_REC_LEN < UnknownSize
  PROVE  Spec => []NotDeaf
<1> DEFINE IInv == TypeInv /\ SizeInv /\ LetGoInv /\ pc # "tag" /\ NotDeaf
<1>1. Init => IInv
  BY TypeInit, SizeInit, LetGoInit DEF Init, NotDeaf
<1>2. IInv /\ [Next]_vars => IInv'
  BY TypeStep, SizeStep, OtherSizeStep, OtherTimedStep, LineStep, DeafStep,
     TagStep DEF LetGoInv
<1>3. QED
  BY <1>1, <1>2, PTL DEF Spec

-----------------------------------------------------------------------------
(* The discipline of the line.  It is the COMM task's alone when nothing   *)
(* re-initialises the port, the task's decrements are not interrupted, no  *)
(* reply is delayed at random and no byte count wraps the expected size.   *)
Undisturbed ==
  /\ ~Interruptible
  /\ MenuChanges = 0
  /\ BaudWrites = {}
  /\ Scan = {}
  /\ \A f \in Requests : Fn[f] # "online"
  /\ \A b \in Bytes : ByteCount[b] # 247

(* A packet that is announced has stopped the timeout. *)
AnnounceInv ==
  dealwithTag = 2 =>
    /\ revce_count >= 6
    /\ revce_count = 6 => Fn[USART_RX_BUF[1]] = "online"
    /\ revce_count = rece_size => serial_receive_timeout_count = 0

(* The driver is on from the acceptance of a request to the end of the     *)
(* hold-off after its reply, and then the receiver is idle.                *)
LineInv ==
  /\ menu = "idle" /\ changes = 0
  /\ pc \notin {"tag", "check", "count", "expired", "delay", "scan", "reinit"}
  /\ TXEN = "send" => /\ txe \/ reply_done > 0 \/ pc \in {"respond", "reply"}
                      /\ serial_receive_timeout_count = 0
                      /\ dealwithTag # 2
  /\ txe => TXEN = "send" /\ reply_done = 0 /\ pc \notin {"respond", "reply"}
  /\ reply_done > 0 => TXEN = "send" /\ pc \notin {"respond", "reply"}
  /\ pc \in {"respond", "reply"} => TXEN = "send"
  /\ pc = "respond" => Fn[USART_RX_BUF[1]] # "other"
  /\ ~txe => send_count = 0

PortInv == AnnounceInv /\ LineInv

LEMMA PortInit == Init => PortInv
<1>1. Init => ~txe
  BY DEF Init
<1>2. QED
  BY <1>1 DEF Init, PortInv, AnnounceInv, LineInv

(* The steps of the COMM task after its answer, and of the bus, that leave *)
(* the line and the receiver alone.                                        *)
LEMMA PortFrame ==
  ASSUME PortInv,
         UNCHANGED <<rx, TXEN, txe, send_count, reply_done, menu, changes>>,
         \/ pc' = pc
         \/ pc' \in {"top", "store", "name", "timeout"} /\ pc \notin {"respond", "reply"}
  PROVE  PortInv'
BY DEF PortInv, AnnounceInv, LineInv, rx

(* The size is never zero when bytes are in the buffer. *)
LEMMA SizeNotZero ==
  ASSUME Undisturbed, TypeInv, SizeInv, revce_count > 0
  PROVE  rece_size # 0
<1>1. USART_RX_BUF[1] \in Bytes /\ USART_RX_BUF[6] \in Bytes
  BY PortAssumption DEF TypeInv, TypeOK, Pos
<1>2. ByteCount[USART_RX_BUF[6]] \in 0 .. 255 \ {247}
  BY <1>1, PortAssumption DEF Undisturbed
<1>3. (ByteCount[USART_RX_BUF[6]] + 9) % 256 # 0
  BY <1>2
<1>4. revce_count \in Nat
  BY DEF TypeInv, TypeOK
<1>5. CASE revce_count >= 7
  BY <1>3, <1>5 DEF SizeInv, UnknownSize
<1>6. CASE revce_count < 7
  BY <1>4, <1>6 DEF SizeInv, UnknownSize, DATABUFLEN_SCAN
<1>7. QED
  BY <1>4, <1>5, <1>6

LEMMA AnnounceReceive ==
  ASSUME TypeInv, SizeInv, AnnounceInv, ReceiveByte
  PROVE  AnnounceInv'
<1> DEFINE n   == revce_count + 1
           buf == USART_RX_BUF'
<1>1. n \in 1 .. USART_REC_LEN /\ revce_count' = n /\ revce_count \in Pos
  BY ReceiveEffect
<1>2. /\ rece_size' = ExpectedSize(buf, n)
      /\ serial_receive_timeout_count' = Timeout(buf, n)
      /\ dealwithTag' = IF Complete(n) THEN 2 ELSE dealwithTag
  BY ReceiveEffect
<1>3. n > 2 => Fn[buf[1]] = Fn[USART_RX_BUF[1]]
  <2>1. PICK b \in Bytes : USART_RX_BUF' = [USART_RX_BUF EXCEPT ![revce_count] = b]
    BY ReceiveEffect
  <2>2. QED
    BY <1>1, <2>1, PortAssumption DEF TypeInv, TypeOK, Pos
<1>4. CASE Complete(n)
  <2>1. n \notin {1, 3, 4, 7} /\ n = rece_size
    BY <1>4 DEF Complete
  <2>2. n >= 6 /\ (n = 6 => Fn[buf[1]] = "online")
    BY <1>1, <1>3, <2>1 DEF SizeInv, Pos, UnknownSize, DATABUFLEN_SCAN
  <2>3. serial_receive_timeout_count' = 0
    <3>1. n # 1 /\ n # 4 /\ n # 7
      BY <2>1
    <3>2. QED
      BY <1>2, <1>4, <3>1, Zenon DEF Timeout
  <2>4. QED
    BY <1>1, <2>2, <2>3 DEF AnnounceInv
<1>5. CASE ~Complete(n) /\ dealwithTag = 2
  <2>1. n >= 7 /\ (n = 7 => Fn[buf[1]] = "online")
    BY <1>1, <1>3, <1>5 DEF AnnounceInv, Pos
  <2>2. rece_size' # n
    <3>1. CASE n = 7
      <4>1. n # 1 /\ n # 3 /\ n # 4
        BY <3>1
      <4>2. Fn[buf[1]] \notin {"read", "write", "multi"}
        BY <2>1, <3>1
      <4>3. rece_size' = UnknownSize
        BY <1>2, <3>1, <4>1, <4>2, Zenon DEF ExpectedSize
      <4>4. QED
        BY <3>1, <4>3 DEF UnknownSize
    <3>2. CASE n # 7
      <4>1. n # 1 /\ n # 3 /\ n # 4
        BY <1>1, <2>1
      <4>2. rece_size' = rece_size
        BY <1>2, <3>2, <4>1, Zenon DEF ExpectedSize
      <4>3. QED
        BY <1>5, <3>2, <4>1, <4>2 DEF Complete
    <3>3. QED
      BY <3>1, <3>2
  <2>3. QED
    BY <1>1, <2>1, <2>2 DEF AnnounceInv
<1>6. CASE ~Complete(n) /\ dealwithTag # 2
  BY <1>2, <1>6 DEF AnnounceInv
<1>7. QED
  BY <1>4, <1>5, <1>6

LEMMA PortStep ==
  ASSUME Undisturbed, TypeInv, SizeInv, PortInv, [Next]_vars
  PROVE  PortInv'
<1>1. ASSUME NEW f \in Requests, StartRequest(f) PROVE PortInv'
  BY <1>1, PortFrame DEF StartRequest, tx, comm, panel
<1>2. CASE LoseByte
  BY <1>2, PortFrame DEF LoseByte, tx, comm, panel
<1>3. CASE ReceiveByte
  <2>1. TXEN = "receive" /\ UNCHANGED <<TXEN, tx, reply_done, comm, panel>>
    BY <1>3 DEF ReceiveByte
  <2>2. AnnounceInv'
    BY <1>3, AnnounceReceive DEF PortInv
  <2>3. QED
    BY <2>1, <2>2 DEF PortInv, LineInv, tx, comm, panel
<1>4. CASE ReceiveOverflow
  <2>1. revce_count > 0
    BY <1>4, PortAssumption DEF ReceiveOverflow
  <2>2. rece_size # 0
    BY <2>1, SizeNotZero
  <2>3. QED
    BY <1>4, <2>2 DEF ReceiveOverflow, serial_restart, PortInv, AnnounceInv,
                      LineInv, tx, comm, panel
<1>5. CASE TransmitByte
  <2>1. /\ txe /\ TXEN = "send" /\ reply_done = 0
        /\ serial_receive_timeout_count = 0 /\ dealwithTag # 2
        /\ pc \notin {"respond", "reply"}
    BY <1>5 DEF TransmitByte, PortInv, LineInv
  <2>2. UNCHANGED <<comm, panel, USART_RX_BUF, rece_size,
                    serial_receive_timeout_count>>
    BY <1>5 DEF TransmitByte
  <2>3. \/ /\ ~txe' /\ send_count' = 0 /\ reply_done' = RECEIVE_DELAY
           /\ RECEIVE_DELAY = 0 /\ serial_restart
        \/ /\ ~txe' /\ send_count' = 0 /\ reply_done' = RECEIVE_DELAY
           /\ RECEIVE_DELAY # 0
           /\ UNCHANGED <<TXEN, revce_count, dealwithTag>>
        \/ txe' /\ UNCHANGED <<reply_done, TXEN, revce_count, dealwithTag>>
    BY <1>5, Zenon DEF TransmitByte
  <2>4. QED
    BY <2>1, <2>2, <2>3, PortAssumption
       DEF PortInv, AnnounceInv, LineInv, serial_restart, comm, panel
<1>6. CASE SysTick
  <2>1. reply_done > 0 /\ TXEN = "send" /\ ~txe
    BY <1>6 DEF SysTick, PortInv, LineInv
  <2>2. QED
    BY <1>6, <2>1 DEF SysTick, serial_restart, PortInv, AnnounceInv, LineInv,
                      TypeInv, TypeOK, tx, comm, panel
<1>7. CASE PollTag
  BY <1>7 DEF PollTag, Goto, Undisturbed, PortInv, AnnounceInv, LineInv, tx, panel
<1>8. CASE StoreTag \/ StoreCount \/ CheckCount \/ DelayOver \/ DealReinit
            \/ ScanDelay \/ ScanReject \/ \E f \in Requests : ScanAccept(f)
  BY <1>8 DEF StoreTag, StoreCount, CheckCount, DelayOver, DealReinit, ScanDelay,
              ScanReject, ScanAccept, Undisturbed, PortInv, LineInv
<1>9. ASSUME NEW f \in Requests, DealAccept(f) PROVE PortInv'
  <2>1. /\ dealwithTag = 2 /\ dealwithTag' = 1 /\ Acceptable(f)
        /\ TXEN' = "send" /\ pc' = "respond" /\ pc = "top"
    BY <1>9 DEF DealAccept, Dealing, Goto, Undisturbed, PortInv, LineInv
  <2>2. UNCHANGED <<USART_RX_BUF, revce_count, rece_size,
                    serial_receive_timeout_count, tx, reply_done, panel>>
    BY <1>9 DEF DealAccept
  <2>3. serial_receive_timeout_count = 0 /\ ~txe /\ ~(reply_done > 0)
    BY <2>1 DEF Acceptable, PortInv, AnnounceInv, LineInv
  <2>4. Fn[USART_RX_BUF[1]] # "other"
    <3>1. 1 \in 0 .. Size(f) - 1
      BY SizeType
    <3>2. USART_RX_BUF[1] = f
      BY <2>1, <3>1 DEF Acceptable, Holds
    <3>3. QED
      BY <2>1, <3>2 DEF Acceptable
  <2>5. QED
    BY <2>1, <2>2, <2>3, <2>4 DEF PortInv, AnnounceInv, LineInv, tx, panel
<1>10. CASE DealReject
  <2>1. pc = "top" /\ TXEN # "send" /\ ~txe /\ ~(reply_done > 0)
    BY <1>10 DEF DealReject, PortInv, LineInv
  <2>2. QED
    BY <1>10, <2>1 DEF DealReject, serial_restart, Goto, PortInv, AnnounceInv,
                       LineInv, tx, panel
<1>11. CASE RespondBroadcast
  <2>1. ~txe /\ ~(reply_done > 0)
    BY <1>11 DEF RespondBroadcast, PortInv, LineInv
  <2>2. QED
    BY <1>11, <2>1 DEF RespondBroadcast, serial_restart, Goto, PortInv,
                       AnnounceInv, LineInv, tx, panel
<1>12. CASE RespondBuild
  BY <1>12 DEF RespondBuild, Goto, PortInv, AnnounceInv, LineInv, rx, panel
<1>13. CASE SendDataString
  <2>1. pc = "reply" /\ TXEN = "send" /\ ~(reply_done > 0) /\ ~txe
    BY <1>13 DEF SendDataString, PortInv, LineInv
  <2>2. /\ txe' /\ pc' = "store"
        /\ UNCHANGED <<rx, TXEN, send_count, reply_done, panel>>
    BY <1>13 DEF SendDataString, Goto
  <2>3. reply_done' = 0
    BY <2>1, <2>2 DEF TypeInv, TypeOK
  <2>4. QED
    BY <2>1, <2>2, <2>3 DEF PortInv, AnnounceInv, LineInv, rx, panel
<1>14. CASE DealNothing
  BY <1>14, PortFrame DEF DealNothing, Goto, tx, panel
<1>15. CASE DealWrite
  <2>1. USART_RX_BUF[3] \notin BaudWrites
    BY DEF Undisturbed
  <2>2. pc = "store" /\ pc' = "timeout" /\ UNCHANGED <<rx, TXEN, tx, reply_done, panel>>
    BY <1>15, <2>1 DEF DealWrite, Goto
  <2>3. QED
    BY <2>2, PortFrame DEF tx, panel
<1>16. CASE DealMulti \/ StoreName
  BY <1>16, PortFrame DEF DealMulti, StoreName, Goto, tx, panel
<1>17. CASE CountDown
  <2>1. pc = "timeout" /\ pc' = "top"
    BY <1>17 DEF CountDown, Goto, Undisturbed
  <2>2. UNCHANGED <<USART_RX_BUF, rece_size, tx, reply_done, panel>>
    BY <1>17 DEF CountDown
  <2>3. CASE serial_receive_timeout_count = 0
    <3>1. UNCHANGED <<serial_receive_timeout_count, TXEN, revce_count, dealwithTag>>
      BY <1>17, <2>3 DEF CountDown
    <3>2. QED
      BY <2>1, <2>2, <3>1 DEF PortInv, AnnounceInv, LineInv, tx, panel
  <2>4. CASE serial_receive_timeout_count # 0
    <3>1. TXEN # "send" /\ ~txe /\ ~(reply_done > 0)
      BY <2>4 DEF PortInv, LineInv
    <3>2. serial_restart \/ UNCHANGED <<TXEN, revce_count, dealwithTag>>
      BY <1>17 DEF CountDown
    <3>3. dealwithTag = 2 => revce_count # rece_size
      BY <2>4 DEF PortInv, AnnounceInv
    <3>4. QED
      BY <2>1, <2>2, <3>1, <3>2, <3>3
         DEF serial_restart, PortInv, AnnounceInv, LineInv, tx, panel
  <2>5. QED
    BY <2>3, <2>4
<1>18. CASE MenuUartInit \/ MenuModbusInit
  BY <1>18 DEF MenuUartInit, MenuModbusInit, Undisturbed, PortInv, LineInv
<1>19. CASE UNCHANGED vars
  BY <1>19, PortFrame DEF vars, tx, comm, panel
<1>20. QED
  BY <1>1, <1>2, <1>3, <1>4, <1>5, <1>6, <1>7, <1>8, <1>9, <1>10, <1>11,
     <1>12, <1>13, <1>14, <1>15, <1>16, <1>17, <1>18, <1>19
     DEF Next, Bus, UsartIrq, CommTask, Menu

LEMMA Discipline ==
  ASSUME Undisturbed
  PROVE  Spec => [](TypeInv /\ SizeInv /\ PortInv)
<1> DEFINE IInv == TypeInv /\ SizeInv /\ PortInv
<1>1. Init => IInv
  BY TypeInit, SizeInit, PortInit
<1>2. IInv /\ [Next]_vars => IInv'
  BY TypeStep, SizeStep, PortStep
<1>3. QED
  BY <1>1, <1>2, PTL DEF Spec

(* No timeout runs while a complete packet waits for the COMM task. *)
THEOREM PacketHasStoppedTimeout ==
  ASSUME Undisturbed
  PROVE  Spec => []PacketStopsTimeout
<1>1. PortInv => PacketStopsTimeout
  BY DEF PortInv, AnnounceInv, PacketStopsTimeout
<1>2. QED
  BY <1>1, Discipline, PTL

(* No restart of the port cuts a reply short. *)
THEOREM DriverIsHeld ==
  ASSUME Undisturbed
  PROVE  Spec => []DriverHeld
<1>1. PortInv => DriverHeld
  BY DEF PortInv, LineInv, DriverHeld
<1>2. QED
  BY <1>1, Discipline, PTL

(* Every reply starts with the first byte of the send buffer. *)
THEOREM RepliesFromStart ==
  ASSUME Undisturbed
  PROVE  Spec => []ReplyFromStart
<1>1. PortInv => ReplyFromStart
  BY DEF PortInv, LineInv, ReplyFromStart
<1>2. QED
  BY <1>1, Discipline, PTL

-----------------------------------------------------------------------------
(* The port implements the half-duplex slave: every step is a step of the  *)
(* slave or none.  (That the slave's steps also happen is left to TLC.)    *)

LEMMA SlaveInit == Init => Slave!Init
<1> SUFFICES ASSUME Init PROVE Slave!Init
  OBVIOUS
<1>1. ~txe /\ reply_done = 0 /\ pc = "top" /\ handled = [f \in Requests |-> 0]
  BY DEF Init
<1>2. SlavePhase = "listening" /\ Served = {}
  BY <1>1 DEF SlavePhase, Served
<1>3. QED
  BY <1>2 DEF Slave!Init

LEMMA SlaveStutter ==
  ASSUME UNCHANGED <<reply_done, handled>>, txe' <=> txe,
         \/ pc' = pc
         \/ /\ pc \notin {"delay", "respond", "reply"}
            /\ pc' \notin {"delay", "respond", "reply"}
  PROVE  UNCHANGED Slave!vars
<1>1. SlavePhase' = SlavePhase
  BY DEF SlavePhase
<1>2. Served' = Served
  BY DEF Served
<1>3. QED
  BY <1>1, <1>2 DEF Slave!vars

LEMMA SlaveStep ==
  ASSUME Undisturbed, TypeInv, WireInv, PlaceInv, OnceInv, PortInv, [Next]_vars
  PROVE  [Slave!Next]_(Slave!vars)
<1>1. ASSUME NEW f \in Requests, StartRequest(f) PROVE UNCHANGED Slave!vars
  BY <1>1, SlaveStutter DEF StartRequest, tx, comm, hist
<1>2. CASE LoseByte \/ ReceiveByte \/ ReceiveOverflow
  BY <1>2, SlaveStutter DEF LoseByte, ReceiveByte, ReceiveOverflow, tx, comm, hist
<1>3. CASE TransmitByte
  <2>1. /\ txe /\ reply_done = 0 /\ pc \notin {"delay", "respond", "reply"}
        /\ UNCHANGED <<comm, hist>>
    BY <1>3 DEF TransmitByte, PortInv, LineInv
  <2>2. SlavePhase = "sending" /\ Served' = Served
    BY <2>1 DEF SlavePhase, Served, hist
  <2>3. (txe' /\ reply_done' = reply_done) \/ (~txe' /\ reply_done' = RECEIVE_DELAY)
    BY <1>3, Zenon DEF TransmitByte
  <2>4. SlavePhase' \in {"sending", "listening"}
    BY <2>1, <2>3, PortAssumption DEF SlavePhase, comm
  <2>5. QED
    BY <2>2, <2>4 DEF Slave!Next, Slave!Release, Slave!vars
<1>4. CASE SysTick
  <2>1. /\ reply_done > 0 /\ pc \notin {"delay", "respond", "reply"}
        /\ UNCHANGED <<tx, comm, hist>>
    BY <1>4 DEF SysTick, PortInv, LineInv
  <2>2. SlavePhase = "sending" /\ Served' = Served
    BY <2>1 DEF SlavePhase, Served, hist
  <2>3. SlavePhase' \in {"sending", "listening"}
    BY <2>1 DEF SlavePhase, comm
  <2>4. QED
    BY <2>2, <2>3 DEF Slave!Next, Slave!Release, Slave!vars
<1>5. CASE PollTag \/ DealReject \/ CountDown
  <2>1. /\ pc \notin {"delay", "respond", "reply"}
        /\ pc' \notin {"delay", "respond", "reply"}
        /\ UNCHANGED <<tx, reply_done, hist>>
    BY <1>5 DEF PollTag, DealReject, CountDown, Goto, LineInv, PortInv
  <2>2. QED
    BY <2>1, SlaveStutter DEF tx, hist
<1>6. CASE StoreTag \/ StoreCount \/ CheckCount \/ DelayOver \/ DealReinit
            \/ ScanDelay \/ ScanReject \/ \E f \in Requests : ScanAccept(f)
  BY <1>6 DEF StoreTag, StoreCount, CheckCount, DelayOver, DealReinit, ScanDelay,
              ScanReject, ScanAccept, Undisturbed, PortInv, LineInv
<1>7. ASSUME NEW f \in Requests, DealAccept(f) PROVE Slave!Next
  <2>1. /\ dealwithTag = 2 /\ Acceptable(f) /\ pc = "top" /\ pc' = "respond"
        /\ UNCHANGED <<tx, reply_done>>
        /\ handled' = [handled EXCEPT ![f] = @ + 1]
    BY <1>7 DEF DealAccept, Dealing, Goto, Undisturbed, PortInv, LineInv
  <2>2. ~txe /\ ~(reply_done > 0)
    BY <2>1 DEF PortInv, LineInv
  <2>3. SlavePhase = "listening" /\ SlavePhase' = "serving"
    BY <2>1, <2>2 DEF SlavePhase, tx
  <2>4. handled[f] = 0
    BY <2>1 DEF OnceInv
  <2>5. f \notin Served /\ Served' = Served \cup {f}
    BY <2>1, <2>4 DEF Served, TypeInv, TypeOK
  <2>6. QED
    BY <2>3, <2>5 DEF Slave!Next, Slave!Take
<1>8. CASE RespondBroadcast
  <2>1. /\ pc = "respond" /\ pc' = "store" /\ ~txe /\ ~(reply_done > 0)
        /\ UNCHANGED <<tx, reply_done, hist>>
    BY <1>8 DEF RespondBroadcast, Goto, PortInv, LineInv
  <2>2. SlavePhase = "serving" /\ SlavePhase' = "listening" /\ Served' = Served
    BY <2>1 DEF SlavePhase, Served, tx, hist
  <2>3. QED
    BY <2>2 DEF Slave!Next, Slave!Drop
<1>9. CASE RespondBuild
  <2>1. /\ pc = "respond" /\ pc' = "reply" /\ ~txe /\ ~(reply_done > 0)
        /\ UNCHANGED <<txe, reply_done, hist>>
    BY <1>9 DEF RespondBuild, Goto, PortInv, LineInv
  <2>2. SlavePhase' = SlavePhase /\ Served' = Served
    BY <2>1 DEF SlavePhase, Served, hist
  <2>3. QED
    BY <2>2 DEF Slave!vars
<1>10. CASE SendDataString
  <2>1. /\ pc = "reply" /\ ~txe /\ ~(reply_done > 0) /\ txe' /\ UNCHANGED hist
    BY <1>10 DEF SendDataString, PortInv, LineInv
  <2>2. SlavePhase = "serving" /\ SlavePhase' = "sending" /\ Served' = Served
    BY <2>1 DEF SlavePhase, Served, hist
  <2>3. QED
    BY <2>2 DEF Slave!Next, Slave!Answer
<1>11. CASE DealNothing \/ DealWrite \/ DealMulti \/ StoreName
  <2>1. USART_RX_BUF[3] \notin BaudWrites
    BY DEF Undisturbed
  <2>2. /\ pc \in {"store", "name"} /\ pc' \in {"name", "timeout"}
        /\ UNCHANGED <<tx, reply_done, handled>>
    BY <1>11, <2>1 DEF DealNothing, DealWrite, DealMulti, StoreName, Goto, hist
  <2>3. QED
    BY <2>2, SlaveStutter DEF tx
<1>12. CASE MenuUartInit \/ MenuModbusInit
  BY <1>12 DEF MenuUartInit, MenuModbusInit, Undisturbed, PortInv, LineInv
<1>13. CASE UNCHANGED vars
  BY <1>13, SlaveStutter DEF vars, tx, comm, hist
<1>14. QED
  BY <1>1, <1>2, <1>3, <1>4, <1>5, <1>6, <1>7, <1>8, <1>9, <1>10, <1>11,
     <1>12, <1>13
     DEF Next, Bus, UsartIrq, CommTask, Menu

(* The safety part of the refinement: a transmission is taken only while   *)
(* the port listens, at most once, and answered or dropped before the next.*)
THEOREM ImplementsSlave ==
  ASSUME Undisturbed
  PROVE  Spec => Slave!Init /\ [][Slave!Next]_(Slave!vars)
<1> DEFINE IInv == TypeInv /\ SizeInv /\ WireInv /\ PlaceInv /\ OnceInv /\ PortInv
<1>1. ~Interruptible /\ Scan = {}
  BY DEF Undisturbed
<1>2. Init => IInv
  BY TypeInit, SizeInit, BusInit, OnceInit, PortInit
<1>3. IInv /\ [Next]_vars => IInv'
  BY <1>1, TypeStep, SizeStep, BusStep, OnceStep, PortStep
<1>4. IInv /\ [Next]_vars => [Slave!Next]_(Slave!vars)
  BY SlaveStep
<1>5. QED
  BY <1>2, <1>3, <1>4, SlaveInit, PTL DEF Spec

=============================================================================
