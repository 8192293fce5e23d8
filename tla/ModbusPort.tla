----------------------------- MODULE ModbusPort -----------------------------
(***************************************************************************)
(* The RS485 Modbus slave port: the USART1 interrupt handler, which        *)
(* receives requests and shifts replies out, the COMM task, which polls    *)
(* the handler's flags and processes a request, the SysTick handler, which *)
(* holds the line for a moment after a reply, and the menu, which may      *)
(* re-initialise the port.  All of them share plain global variables.      *)
(*                                                                         *)
(* A byte is abstracted to the request it belongs to: position p of the    *)
(* receive buffer holds f when it holds byte p of f, and an element of     *)
(* Garbage when it holds a byte that is out of place.  Garbage has fixed   *)
(* meanings as a function code and as a byte count, because the handler    *)
(* interprets whatever is at those positions.                              *)
(***************************************************************************)
EXTENDS Naturals, FiniteSets

CONSTANTS
  Requests,        \* the transmissions on the bus, each sent once
  Garbage,         \* values of the bytes that are out of place
  None,            \* no request
  Fn,              \* function code: byte 1 of a request, or a garbage byte
  Dest,            \* who a request is for: byte 0
  ByteCount,       \* byte 6 of a multiple write, or a garbage byte
  Scan,            \* requests to MODBUS_ADDRESS_PLUG_N_PLAY
  BaudWrites,      \* writes to MODBUS_BAUDRATE
  USART_REC_LEN,   \* size of the receive buffer
  RX_TIMEOUT,      \* SERIAL_RECEIVE_TIMEOUT, in turns of the COMM task
  RECEIVE_DELAY,   \* receive_delay_time, in ticks
  ReplyLen,        \* bytes of a reply
  MaxLost,         \* bound: how many bytes a listening port misses
  MenuChanges,     \* bound: how often the menu changes the baud rate
  Interruptible    \* may an interrupt hit between the load and the store
                   \* of a decrement in the COMM task?

FnCodes == {"read", "write", "multi", "online", "other"}
Bytes   == Requests \cup Garbage
Pos     == 0 .. USART_REC_LEN - 1

ASSUME PortAssumption ==
  /\ Requests \cap Garbage = {}
  /\ None \notin Bytes
  /\ Garbage # {}
  /\ Fn \in [Bytes -> FnCodes]
  /\ Dest \in [Bytes -> {"own", "broadcast", "other"}]
  /\ ByteCount \in [Bytes -> 0 .. 255]
  /\ Scan \subseteq {b \in Bytes : Fn[b] \in {"read", "write"}}
  /\ BaudWrites \subseteq {b \in Requests : Fn[b] = "write"}
  /\ USART_REC_LEN \in Nat /\ USART_REC_LEN > 7
  /\ RX_TIMEOUT \in Nat \ {0}
  /\ RECEIVE_DELAY \in Nat
  /\ ReplyLen \in Nat \ {0}
  /\ MaxLost \in Nat
  /\ MenuChanges \in Nat
  /\ Interruptible \in BOOLEAN

DATABUFLEN_SCAN == 12
PanelNameLen    == 20
UnknownSize     == 250      \* longer than the buffer: never complete

VARIABLES
  \* the bus
  waiting,         \* requests not yet transmitted
  onWire, offset,  \* the request being transmitted, its next byte
  lost,            \* bytes missed so far
  \* shared by the handlers and the tasks
  USART_RX_BUF, revce_count, rece_size,
  serial_receive_timeout_count, dealwithTag,
  TXEN,            \* direction of the RS485 transceiver
  txe,             \* is the transmit interrupt enabled?
  send_count,      \* static local of the handler: next byte of uart_send
  uart_send,       \* the request the reply in the send buffer answers
  reply_done,
  \* the COMM task
  pc, reg,         \* control point; register of a decrement in progress
  cur,             \* the request dealwithData accepted
  item,            \* loop index of internalDeal
  \* the menu
  menu, changes,
  \* history
  handled,         \* how often each request was accepted
  stored           \* <<request accepted, byte written to its register>>

bus   == <<waiting, onWire, offset, lost>>
rx    == <<USART_RX_BUF, revce_count, rece_size, serial_receive_timeout_count,
           dealwithTag>>
tx    == <<txe, send_count, uart_send>>
comm  == <<pc, reg, cur, item>>
panel == <<menu, changes>>
hist  == <<handled, stored>>
vars  == <<bus, rx, TXEN, tx, reply_done, comm, panel, hist>>

-----------------------------------------------------------------------------
(* The length of a request on the bus.                                     *)
Size(f) ==
  CASE Fn[f] = "online" -> 6
    [] Fn[f] = "multi"  -> ByteCount[f] + 9
    [] Fn[f] = "write" /\ f \in Scan -> DATABUFLEN_SCAN
    [] OTHER            -> 8

(* The buffer holds the first n bytes of f. *)
Holds(f, n) == \A p \in 0 .. n - 1 : USART_RX_BUF[p] = f

(* What ends up in the buffer when byte i of f is stored at position p.    *)
(* Out of place, its value matters where the code interprets it: as the    *)
(* address, the function code or the byte count.                           *)
Filler == CHOOSE g \in Garbage : TRUE

Received(f, i, p) ==
  IF i = p THEN {f}
  ELSE IF p \in {0, 1, 6} THEN Garbage ELSE {Filler}

serial_restart_NoTurn ==     \* faulty: leaves the driver on
  /\ UNCHANGED TXEN
  /\ revce_count' = 0
  /\ dealwithTag' = 0

serial_restart ==
  /\ TXEN' = "receive"
  /\ revce_count' = 0
  /\ dealwithTag' = 0

(* The first four bytes are those of a scan command. *)
ScanHeader(buf) == Fn[buf[1]] = "write" /\ buf[2] \in Scan /\ buf[3] \in Scan

ExpectedSize_NoCrc(buf, n) ==     \* faulty: forgets a byte of the CRC
  CASE n = 1 -> UnknownSize
    [] n = 7 /\ Fn[buf[1]] \in {"read", "write"} -> 8
    [] n = 7 /\ Fn[buf[1]] = "multi" -> (ByteCount[buf[6]] + 8) % 256
    [] OTHER -> rece_size

(* How the interrupt handler classifies the n bytes received so far: the   *)
(* size it expects and the timeout it leaves running.                      *)
ExpectedSize(buf, n) ==
  CASE n = 1 -> UnknownSize
    [] n = 3 /\ Fn[buf[1]] = "online" -> 6
    [] n = 4 /\ ScanHeader(buf) -> DATABUFLEN_SCAN
    [] n = 7 /\ Fn[buf[1]] \in {"read", "write"} -> 8
    [] n = 7 /\ Fn[buf[1]] = "multi" -> (ByteCount[buf[6]] + 9) % 256
    [] n = 7 /\ Fn[buf[1]] \notin {"read", "write", "multi"} -> UnknownSize
    [] OTHER -> rece_size

Complete(n) == n \notin {1, 3, 4, 7} /\ n = rece_size

Timeout_NotStopped(buf, n) ==     \* faulty: a full packet leaves it running
  CASE n = 1 -> RX_TIMEOUT
    [] OTHER -> serial_receive_timeout_count

Timeout(buf, n) ==
  CASE n = 1 -> RX_TIMEOUT
    [] n = 4 /\ ScanHeader(buf) -> RX_TIMEOUT
    [] n = 7 /\ Fn[buf[1]] = "multi" -> (ByteCount[buf[6]] + 8) % 256
    [] Complete(n) -> 0
    [] OTHER -> serial_receive_timeout_count

-----------------------------------------------------------------------------
(* The bus: the master and the other slaves. *)

StartRequest(f) ==
  /\ onWire = None
  /\ f \in waiting
  /\ waiting' = waiting \ {f}
  /\ onWire' = f
  /\ offset' = 0
  /\ UNCHANGED <<lost, rx, TXEN, tx, reply_done, comm, panel, hist>>

Advance ==
  /\ onWire' = IF offset + 1 = Size(onWire) THEN None ELSE onWire
  /\ offset' = IF offset + 1 = Size(onWire) THEN 0 ELSE offset + 1
  /\ UNCHANGED waiting

(* A transceiver that sends does not listen; one that listens may miss a   *)
(* byte to noise or to an overrun of the data register.                    *)
LoseByte ==
  /\ onWire # None
  /\ IF TXEN = "send"
     THEN UNCHANGED lost
     ELSE lost < MaxLost /\ lost' = lost + 1
  /\ Advance
  /\ UNCHANGED <<rx, TXEN, tx, reply_done, comm, panel, hist>>

(* USART1_IRQHandler, RXNE: store a byte.                                  *)
ReceiveByte ==
  /\ onWire # None
  /\ TXEN = "receive"
  /\ revce_count < USART_REC_LEN
  /\ \E b \in Received(onWire, offset, revce_count) :
       LET n   == revce_count + 1
           buf == [USART_RX_BUF EXCEPT ![revce_count] = b]
       IN  /\ USART_RX_BUF' = buf
           /\ revce_count' = n
           /\ rece_size' = ExpectedSize(buf, n)
           /\ serial_receive_timeout_count' = Timeout(buf, n)
           /\ dealwithTag' = IF Complete(n) THEN 2 ELSE dealwithTag
  /\ Advance
  /\ UNCHANGED <<lost, TXEN, tx, reply_done, comm, panel, hist>>

(* The buffer is full: start over.  The byte has not been read and raises  *)
(* the interrupt again.  An expected size that wrapped to 0 is complete.   *)
ReceiveOverflow ==
  /\ onWire # None
  /\ TXEN = "receive"
  /\ revce_count = USART_REC_LEN
  /\ IF rece_size = 0
     THEN /\ revce_count' = 0
          /\ serial_receive_timeout_count' = 0
          /\ dealwithTag' = 2
          /\ UNCHANGED TXEN
     ELSE serial_restart /\ UNCHANGED serial_receive_timeout_count
  /\ UNCHANGED <<bus, USART_RX_BUF, rece_size, tx, reply_done, comm, panel, hist>>

TransmitByte_NoRewind ==     \* faulty: send_count is never reset
  /\ txe
  /\ IF send_count + 1 >= ReplyLen
     THEN /\ txe' = FALSE
          /\ reply_done' = RECEIVE_DELAY
          /\ UNCHANGED send_count
          /\ IF RECEIVE_DELAY = 0
             THEN serial_restart
             ELSE UNCHANGED <<TXEN, revce_count, dealwithTag>>
     ELSE /\ send_count' = send_count + 1
          /\ UNCHANGED <<txe, reply_done, TXEN, revce_count, dealwithTag>>
  /\ UNCHANGED <<bus, USART_RX_BUF, rece_size, serial_receive_timeout_count,
                 uart_send, comm, panel, hist>>

(* USART1_IRQHandler, TXE: shift one byte out; after the last one leave    *)
(* the line to xPortSysTickHandler, or release it at once.                 *)
TransmitByte ==
  /\ txe
  /\ IF send_count + 1 >= ReplyLen
     THEN /\ txe' = FALSE
          /\ send_count' = 0
          /\ reply_done' = RECEIVE_DELAY
          /\ IF RECEIVE_DELAY = 0
             THEN serial_restart
             ELSE UNCHANGED <<TXEN, revce_count, dealwithTag>>
     ELSE /\ send_count' = send_count + 1
          /\ UNCHANGED <<txe, reply_done, TXEN, revce_count, dealwithTag>>
  /\ UNCHANGED <<bus, USART_RX_BUF, rece_size, serial_receive_timeout_count,
                 uart_send, comm, panel, hist>>

(* xPortSysTickHandler. *)
SysTick ==
  /\ reply_done > 0
  /\ reply_done' = reply_done - 1
  /\ IF reply_done = 1
     THEN serial_restart
     ELSE UNCHANGED <<TXEN, revce_count, dealwithTag>>
  /\ UNCHANGED <<bus, USART_RX_BUF, rece_size, serial_receive_timeout_count,
                 tx, comm, panel, hist>>

-----------------------------------------------------------------------------
(* vCOMMTask. *)

Dealing_KeepTag ==     \* faulty: the tag is not counted down
  /\ pc = "check" \/ (pc = "top" /\ ~Interruptible /\ dealwithTag = 2)
  /\ UNCHANGED dealwithTag

(* if (dealwithTag) { dealwithTag--; if (dealwithTag == 1) dealwithData(); } *)
(* Uninterrupted, the task goes from the test of the tag to the check of   *)
(* the packet in one step.                                                 *)
Goto(l) == pc' = l

Dealing ==
  \/ pc = "check" /\ UNCHANGED dealwithTag
  \/ pc = "top" /\ ~Interruptible /\ dealwithTag = 2 /\ dealwithTag' = 1

PollTag ==
  /\ pc = "top"
  /\ \/ /\ dealwithTag = 0
        /\ Goto("timeout")
        /\ UNCHANGED <<dealwithTag, reg>>
     \/ /\ dealwithTag # 0 /\ Interruptible
        /\ reg' = dealwithTag
        /\ Goto("tag")
        /\ UNCHANGED dealwithTag
     \/ /\ dealwithTag = 1 /\ ~Interruptible
        /\ dealwithTag' = 0
        /\ Goto("timeout")
        /\ UNCHANGED reg
  /\ UNCHANGED <<bus, USART_RX_BUF, revce_count, rece_size,
                 serial_receive_timeout_count, TXEN, tx, reply_done, cur, item,
                 panel, hist>>

StoreTag ==
  /\ pc = "tag"
  /\ dealwithTag' = reg - 1
  /\ reg' = 0
  /\ Goto(IF reg = 2 THEN "check" ELSE "timeout")
  /\ UNCHANGED <<bus, USART_RX_BUF, revce_count, rece_size,
                 serial_receive_timeout_count, TXEN, tx, reply_done, cur, item,
                 panel, hist>>

(* checkData: the packet is complete, for this device, and its CRC fits,   *)
(* which only a whole request passes.  Writes to write-once registers and  *)
(* plug-and-play requests may be refused on top of that.                   *)
Acceptable(f) ==
  /\ revce_count = rece_size
  /\ rece_size = Size(f)
  /\ Holds(f, Size(f))
  /\ Dest[f] # "other"
  /\ Fn[f] # "other"

MayRefuse(f) == Fn[f] = "write" \/ f \in Scan

(* dealwithData.  initSend_COM turns the transceiver round as soon as      *)
(* checkData returns, which for an online check is after a random delay.   *)
DealAccept(f) ==
  /\ Dealing
  /\ Acceptable(f)
  /\ cur' = f
  /\ handled' = [handled EXCEPT ![f] = @ + 1]
  /\ \/ /\ TXEN' = "send"
        /\ Goto("respond")
     \/ /\ Fn[f] = "online"
        /\ Goto("delay")
        /\ UNCHANGED TXEN
  /\ UNCHANGED <<bus, USART_RX_BUF, revce_count, rece_size,
                 serial_receive_timeout_count, tx, reply_done, reg, item,
                 panel, stored>>

DealReject_NoRestart ==     \* faulty: a refused packet stays in the buffer
  /\ pc = "check" \/ (pc = "top" /\ ~Interruptible /\ dealwithTag = 2)
  /\ \A f \in Requests : Acceptable(f) => MayRefuse(f)
  /\ dealwithTag' = 1
  /\ Goto("timeout")
  /\ UNCHANGED <<bus, USART_RX_BUF, revce_count, rece_size,
                 serial_receive_timeout_count, TXEN, tx, reply_done, reg, cur,
                 item, panel, hist>>

DealReject ==
  /\ pc = "check" \/ (pc = "top" /\ ~Interruptible /\ dealwithTag = 2)
  /\ \A f \in Requests : Acceptable(f) => MayRefuse(f)
  /\ serial_restart
  /\ Goto("timeout")
  /\ UNCHANGED <<bus, USART_RX_BUF, rece_size, serial_receive_timeout_count,
                 tx, reply_done, reg, cur, item, panel, hist>>

DelayOver ==
  /\ pc = "delay"
  /\ TXEN' = "send"
  /\ Goto("respond")
  /\ UNCHANGED <<bus, rx, tx, reply_done, reg, cur, item, panel, hist>>

(* A plug-and-play request: checkData looks at its header, waits for a     *)
(* random time, and only then at its CRC, or whatever the buffer holds by  *)
(* that time.                                                              *)
ScanDelay ==
  /\ Dealing
  /\ revce_count = rece_size
  /\ Dest[USART_RX_BUF[0]] # "other"
  /\ Fn[USART_RX_BUF[1]] \in {"read", "write"}
  /\ USART_RX_BUF[2] \in Scan /\ USART_RX_BUF[3] \in Scan
  /\ Goto("scan")
  /\ UNCHANGED <<bus, USART_RX_BUF, revce_count, rece_size,
                 serial_receive_timeout_count, TXEN, tx, reply_done, reg, cur,
                 item, panel, hist>>

CrcFits(f) ==
  /\ rece_size = Size(f)
  /\ Size(f) <= USART_REC_LEN
  /\ Holds(f, Size(f))

ScanAccept(f) ==
  /\ pc = "scan"
  /\ CrcFits(f)
  /\ cur' = f
  /\ handled' = [handled EXCEPT ![f] = @ + 1]
  /\ TXEN' = "send"
  /\ Goto("respond")
  /\ UNCHANGED <<bus, rx, tx, reply_done, reg, item, panel, stored>>

ScanReject ==
  /\ pc = "scan"
  /\ \A f \in Requests : CrcFits(f) => MayRefuse(f)
  /\ serial_restart
  /\ Goto("timeout")
  /\ UNCHANGED <<bus, USART_RX_BUF, rece_size, serial_receive_timeout_count,
                 tx, reply_done, reg, cur, item, panel, hist>>

(* responseCmd reads the request from the receive buffer: it answers       *)
(* nothing to a broadcast, and nothing to a code it does not know.         *)
RespondBroadcast ==
  /\ pc = "respond"
  /\ Dest[USART_RX_BUF[0]] = "broadcast"
  /\ serial_restart
  /\ Goto("store")
  /\ UNCHANGED <<bus, USART_RX_BUF, rece_size, serial_receive_timeout_count,
                 tx, reply_done, reg, cur, item, panel, hist>>

RespondBuild ==
  /\ pc = "respond"
  /\ Dest[USART_RX_BUF[0]] # "broadcast"
  /\ IF Fn[USART_RX_BUF[1]] = "other"
     THEN Goto("store") /\ UNCHANGED uart_send
     ELSE Goto("reply") /\ uart_send' = USART_RX_BUF[1]
  /\ UNCHANGED <<bus, rx, TXEN, txe, send_count, reply_done, reg, cur, item,
                 panel, hist>>

(* USART_SendDataString, after delay_ms(reply_delay_time). *)
SendDataString ==
  /\ pc = "reply"
  /\ txe' = TRUE
  /\ Goto("store")
  /\ UNCHANGED <<bus, rx, TXEN, send_count, uart_send, reply_done, reg, cur,
                 item, panel, hist>>

(* internalDeal reads the request from the receive buffer once more, and   *)
(* chooses by its function code, once.  A single write passes its data on  *)
(* by value.                                                               *)
DealNothing ==
  /\ pc = "store"
  /\ Fn[USART_RX_BUF[1]] \notin {"write", "multi"}
  /\ cur' = None
  /\ Goto("timeout")
  /\ UNCHANGED <<bus, rx, TXEN, tx, reply_done, reg, item, panel, hist>>

(* uart1_init resets the USART, its interrupt enables with it, and drives  *)
(* the direction pin high.                                                 *)
uart1_init ==
  /\ txe' = FALSE
  /\ TXEN' = "send"
  /\ UNCHANGED <<send_count, uart_send>>

modbus_init_NoRestart ==     \* faulty: forgets serial_restart
  /\ serial_receive_timeout_count' = 0
  /\ UNCHANGED <<TXEN, revce_count, dealwithTag, USART_RX_BUF, rece_size>>

(* modbus_init, called after uart1_init and an EEPROM write. *)
modbus_init ==
  /\ serial_restart
  /\ serial_receive_timeout_count' = RX_TIMEOUT
  /\ UNCHANGED <<USART_RX_BUF, rece_size>>

(* A write to MODBUS_BAUDRATE re-initialises the USART if it knows the     *)
(* rate, and the port in any case.                                         *)
DealWrite ==
  /\ pc = "store"
  /\ Fn[USART_RX_BUF[1]] = "write"
  /\ stored' = stored \cup {<<cur, USART_RX_BUF[5]>>}
  /\ \/ /\ USART_RX_BUF[3] \notin BaudWrites
        /\ Goto("timeout")
        /\ UNCHANGED <<rx, TXEN, tx>>
     \/ /\ USART_RX_BUF[3] \in BaudWrites
        /\ uart1_init
        /\ Goto("reinit")
        /\ UNCHANGED rx
     \/ /\ USART_RX_BUF[3] \in BaudWrites
        /\ modbus_init
        /\ Goto("timeout")
        /\ UNCHANGED tx
  /\ UNCHANGED <<bus, reply_done, reg, cur, item, panel, handled>>

(* The multiple write of the panel name tests the length, and waits for    *)
(* the EEPROM after each byte.                                             *)
DealMulti ==
  /\ pc = "store"
  /\ Fn[USART_RX_BUF[1]] = "multi"
  /\ IF ByteCount[USART_RX_BUF[6]] \in 1 .. PanelNameLen
     THEN Goto("name") /\ stored' = stored \cup {<<cur, USART_RX_BUF[7]>>} /\ UNCHANGED cur
     ELSE Goto("timeout") /\ cur' = None /\ UNCHANGED stored
  /\ UNCHANGED <<bus, rx, TXEN, tx, reply_done, reg, item, panel, handled>>

(* After the wait the byte is read again, for panelname, and then count    *)
(* and next byte.  (The buffer ends before a count may that has grown.)    *)
StoreName ==
  LET next == item + 1
      more == next < ByteCount[USART_RX_BUF[6]] /\ 7 + next < USART_REC_LEN
  IN  /\ pc = "name"
      /\ stored' = stored \cup
           {<<cur, USART_RX_BUF[7 + i]>> : i \in IF more THEN {item, next} ELSE {item}}
      /\ IF more
         THEN item' = next /\ UNCHANGED <<pc, cur>>
         ELSE item' = 0 /\ Goto("timeout") /\ cur' = None
      /\ UNCHANGED <<bus, rx, TXEN, tx, reply_done, reg, panel, handled>>

DealReinit ==
  /\ pc = "reinit"
  /\ modbus_init
  /\ Goto("timeout")
  /\ UNCHANGED <<bus, tx, reply_done, reg, cur, item, panel, hist>>

(* if (count > 0) { count--; if (count == 0) serial_restart(); }           *)
CountDown ==
  /\ pc = "timeout"
  /\ cur' = None
  /\ IF serial_receive_timeout_count = 0
     THEN /\ Goto("top")
          /\ UNCHANGED <<serial_receive_timeout_count, reg, TXEN, revce_count,
                         dealwithTag>>
     ELSE IF Interruptible
          THEN /\ reg' = serial_receive_timeout_count
               /\ Goto("count")
               /\ UNCHANGED <<serial_receive_timeout_count, TXEN, revce_count,
                              dealwithTag>>
          ELSE /\ serial_receive_timeout_count' = serial_receive_timeout_count - 1
               /\ IF serial_receive_timeout_count = 1
                  THEN serial_restart
                  ELSE UNCHANGED <<TXEN, revce_count, dealwithTag>>
               /\ Goto("top")
               /\ UNCHANGED reg
  /\ UNCHANGED <<bus, USART_RX_BUF, rece_size, tx, reply_done, item, panel, hist>>

StoreCount ==
  /\ pc = "count"
  /\ serial_receive_timeout_count' = reg - 1
  /\ reg' = 0
  /\ Goto("expired")
  /\ UNCHANGED <<bus, USART_RX_BUF, revce_count, rece_size, dealwithTag, TXEN,
                 tx, reply_done, cur, item, panel, hist>>

CheckCount ==
  /\ pc = "expired"
  /\ IF serial_receive_timeout_count = 0
     THEN serial_restart
     ELSE UNCHANGED <<TXEN, revce_count, dealwithTag>>
  /\ Goto("top")
  /\ UNCHANGED <<bus, USART_RX_BUF, rece_size, serial_receive_timeout_count,
                 tx, reply_done, reg, cur, item, panel, hist>>

-----------------------------------------------------------------------------
(* The baud rate item of the parameter menu. *)

(* The menu task has a lower priority than the COMM task: it runs while    *)
(* the latter is blocked in vTaskDelay or waits for the EEPROM, at the end *)
(* of a write or between two bytes of the panel name.                      *)
CommBlocked ==
  \/ pc \in {"top", "delay", "scan", "reply", "name", "reinit"}
  \/ pc = "timeout" /\ cur # None

MenuUartInit ==
  /\ menu = "idle"
  /\ CommBlocked
  /\ changes < MenuChanges
  /\ changes' = changes + 1
  /\ menu' = "reinit"
  /\ uart1_init
  /\ UNCHANGED <<bus, rx, reply_done, comm, hist>>

MenuModbusInit ==
  /\ menu = "reinit"
  /\ CommBlocked
  /\ menu' = "idle"
  /\ modbus_init
  /\ UNCHANGED <<bus, tx, reply_done, comm, changes, hist>>

-----------------------------------------------------------------------------
(* vCOMMTask has called modbus_init and waited before its loop starts. *)
Init ==
  /\ waiting = Requests
  /\ onWire = None
  /\ offset = 0
  /\ lost = 0
  /\ USART_RX_BUF = [p \in Pos |-> Filler]
  /\ revce_count = 0
  /\ rece_size = 0
  /\ serial_receive_timeout_count = RX_TIMEOUT
  /\ dealwithTag = 0
  /\ TXEN = "receive"
  /\ txe = FALSE
  /\ send_count = 0
  /\ uart_send = None
  /\ reply_done = 0
  /\ pc = "top"
  /\ reg = 0
  /\ cur = None
  /\ item = 0
  /\ menu = "idle"
  /\ changes = 0
  /\ handled = [f \in Requests |-> 0]
  /\ stored = {}

Bus == (\E f \in Requests : StartRequest(f)) \/ LoseByte

UsartIrq == ReceiveByte \/ ReceiveOverflow \/ TransmitByte

CommTask ==
  \/ PollTag \/ StoreTag
  \/ (\E f \in Requests : DealAccept(f)) \/ DealReject \/ DelayOver
  \/ ScanDelay \/ (\E f \in Requests : ScanAccept(f)) \/ ScanReject
  \/ RespondBroadcast \/ RespondBuild \/ SendDataString
  \/ DealNothing \/ DealWrite \/ DealMulti \/ StoreName \/ DealReinit
  \/ CountDown \/ StoreCount \/ CheckCount

Menu == MenuUartInit \/ MenuModbusInit

Next == Bus \/ UsartIrq \/ SysTick \/ CommTask \/ Menu

(* The COMM task is woken every 5 ms, SysTick fires every millisecond and  *)
(* an enabled transmit interrupt is pending as long as the data register   *)
(* is empty.  Nothing forces the bus or the user to act; a menu handler    *)
(* that has started runs to its end.                                       *)
Fairness ==
  /\ WF_vars(CommTask)
  /\ WF_vars(SysTick)
  /\ WF_vars(TransmitByte)
  /\ SF_vars(MenuModbusInit)

Spec == Init /\ [][Next]_vars

FairSpec == Spec /\ Fairness

-----------------------------------------------------------------------------
(* Every variable holds a value the program can give it: the counters stay *)
(* within their ranges and the buffer holds bytes of known requests.       *)
TypeOK ==
  /\ waiting \subseteq Requests
  /\ onWire \in Requests \cup {None}
  /\ offset \in Nat
  /\ lost \in 0 .. MaxLost
  /\ USART_RX_BUF \in [Pos -> Bytes]
  /\ revce_count \in 0 .. USART_REC_LEN
  /\ rece_size \in 0 .. 255
  /\ serial_receive_timeout_count \in Nat
  /\ dealwithTag \in 0 .. 2
  /\ TXEN \in {"send", "receive"}
  /\ txe \in BOOLEAN
  /\ send_count \in 0 .. ReplyLen - 1
  /\ uart_send \in Bytes \cup {None}
  /\ reply_done \in 0 .. RECEIVE_DELAY
  /\ pc \in {"top", "tag", "check", "delay", "scan", "respond", "reply", "store",
             "name", "reinit", "timeout", "count", "expired"}
  /\ reg \in Nat
  /\ cur \in Requests \cup {None}
  /\ item \in 0 .. USART_REC_LEN - 8
  /\ menu \in {"idle", "reinit"}
  /\ changes \in 0 .. MenuChanges
  /\ handled \in [Requests -> Nat]
  /\ stored \subseteq (Requests \cup {None}) \X Bytes

(* No transmission is executed twice: the tag that announces a packet is   *)
(* consumed by the COMM task when it deals with the packet.                *)
AtMostOnce == \A f \in Requests : handled[f] <= 1

(* While the transmit interrupt shifts a reply out, the transceiver drives *)
(* the line: no restart of the port cuts a reply short.                    *)
DriverHeld == txe => TXEN = "send"

(* Whoever drives the line is going to let go of it: a transmission, its   *)
(* hold-off, a command in progress, a re-initialisation or a timeout ends  *)
(* in serial_restart.                                                      *)
Releasing ==
  \/ txe
  \/ reply_done > 0
  \/ pc \in {"respond", "reply", "reinit"}
  \/ menu = "reinit"
  \/ serial_receive_timeout_count > 0
  \/ pc = "expired"

LineReleased == TXEN = "send" => Releasing

(* Bytes in the receive buffer never wait for another byte to be cleared:  *)
(* a packet announced or in progress, a reply or a timeout will do so, and *)
(* the receiver starts afresh.  (A byte count of 248 stops the timeout.)   *)
NotDeaf ==
  revce_count > 0 => Releasing \/ dealwithTag = 2 \/ pc \in {"delay", "scan"}

(* When the handler announces a packet and the buffer holds the beginning  *)
(* of a request and nothing else, it holds the whole request.              *)
CompleteIsWhole ==
  \A f \in Requests :
    /\ dealwithTag = 2
    /\ revce_count = rece_size
    /\ revce_count > 0
    /\ Holds(f, revce_count)
    => revce_count = Size(f)

(* A reply is shifted out from the first byte of the send buffer on.       *)
ReplyFromStart == pc = "reply" => send_count = 0

(* What internalDeal stores for a multiple write is taken from the request *)
(* that was accepted and acknowledged.                                     *)
StoredAsAccepted == \A s \in stored : Fn[s[1]] = "multi" => s[1] = s[2]

(* "full packet received - turn off serial timeout": no timeout runs while *)
(* a complete packet waits for the COMM task.                              *)
PacketStopsTimeout ==
  dealwithTag = 2 /\ revce_count = rece_size => serial_receive_timeout_count = 0

(* The receive buffer is emptied again after any byte: "it insures that    *)
(* the next receive will be fresh".                                        *)
Cleared  == revce_count > 0 ~> revce_count = 0

(* The device does not drive the line for ever.                            *)
Released == TXEN = "send" ~> TXEN = "receive"

(* What the half-duplex slave sees of the port. *)
SlavePhase ==
  IF txe \/ reply_done > 0 THEN "sending"
  ELSE IF pc \in {"delay", "respond", "reply"} THEN "serving" ELSE "listening"

Served == {f \in Requests : handled[f] > 0}

Slave == INSTANCE HalfDuplexSlave WITH phase <- SlavePhase, served <- Served

(* The port implements the half-duplex slave: it takes a request only      *)
(* while it listens, each at most once, and always answers or drops it     *)
(* and listens again.                                                      *)
SlaveSpec == Slave!Spec
=============================================================================
