----------------------------- MODULE NetConfig ------------------------------
(***************************************************************************)
(* How a new network configuration becomes the one in use.  Clients write  *)
(* ghost registers and ask for a commit; the flash task copies the ghosts  *)
(* to the live registers and to the EEPROM, byte by byte; the network task *)
(* restarts the controller, which loads the EEPROM.  A UDP command and a   *)
(* DHCP lease change the live registers without the flash task, a reset to *)
(* factory settings the EEPROM.                                            *)
(*                                                                         *)
(* Field 0 is ip_mode; tcp_server and listen_port, which go the same way,  *)
(* are left out.  Field o is octet o of the address, the mask and the      *)
(* gateway, which go the same way one after the other.  A byte is on its way to the EEPROM from the moment it was   *)
(* passed to AT24CXX_WriteOneByte, which blocks, until it is stored.       *)
(***************************************************************************)
EXTENDS Naturals

CONSTANTS
  NumOctets,    \* octets of an address
  Tested,       \* octets the UDP command requires to be other than 0
  Values,       \* bytes
  Default,      \* the address that replaces an erased one
  Factory,      \* mode and address after a reset to factory settings
  Turns,        \* turns of the network task before a restart
  MaxChanges,   \* bound: how often a client does something
  MaxFailures   \* bound: power failures

ASSUME ConfigAssumption ==
  /\ NumOctets \in Nat \ {0}
  /\ Tested \subseteq 1 .. NumOctets
  /\ Values \subseteq 0 .. 255
  /\ {0, 1, 255} \subseteq Values
  /\ Default \in [1 .. NumOctets -> Values]
  /\ Factory \in [0 .. NumOctets -> Values]
  /\ Turns \in Nat \ {0}
  /\ MaxChanges \in Nat /\ MaxFailures \in Nat

Mode   == 0
Octets == 1 .. NumOctets
Fields == 0 .. NumOctets
None   == NumOctets + 1

VARIABLES
  live,                \* ip_mode, ip_addr, ...: the registers in use
  ghost,               \* ghost_ip_mode, ghost_ip_addr, ...
  eeprom,              \* the stored bytes
  write_ghost_system,  \* a commit is asked for
  IP_Change, update,   \* a restart is asked for
  count,               \* turns of the network task since then
  dhcp,                \* the DHCP client was started at boot
  pc, field, byte,     \* EEP_Dat_Init, then the flash task
  net, netField, netByte,  \* the UDP command in the network task
  wiped,               \* the field being reset to factory settings, or None
  changes, failures,   \* what the bounds count
  since,               \* history: what may be stored once nothing is under way
  before,              \* history: what else may be stored as long as it is
  unstored             \* history: live fields the code does not store

registers == <<live, ghost>>
requests  == <<write_ghost_system, IP_Change, update>>
flash     == <<pc, field, byte>>
network   == <<net, netField, netByte, wiped>>
bounds    == <<changes, failures>>
history   == <<since, before, unstored>>
vars == <<registers, eeprom, requests, count, dhcp, flash, network, bounds, history>>

Booting    == pc \in {"load", "default", "mode"}
Committing == pc \in {"copy", "fetch", "store", "finish"}
Storing    == net # "poll"          \* the UDP command is storing an address

Wiping     == wiped # None         \* the factory settings are being stored
Busy       == Committing \/ Storing \/ Wiping \/ pc = "default"

(* History: a task begins to store one of the values new[f] in each f. *)
Offer(new) ==
  /\ before' = [f \in Fields |-> since[f] \cup IF Busy THEN before[f] ELSE {}]
  /\ since'  = [f \in Fields |-> new[f] \cup IF Busy THEN since[f] ELSE {}]

(* The RAM is cleared.  What was under way, unless it is done, leaves old  *)
(* values behind.                                                          *)
Reset(done) ==
  /\ live' = [f \in Fields |-> 0] /\ ghost' = [f \in Fields |-> 0]
  /\ write_ghost_system' = FALSE /\ IP_Change' = FALSE /\ update' = FALSE
  /\ count' = 0 /\ dhcp' = FALSE
  /\ pc' = "load" /\ field' = 0 /\ byte' = 0
  /\ net' = "poll" /\ netField' = 0 /\ netByte' = 0 /\ wiped' = None
  /\ since' = [f \in Fields |-> since[f] \cup IF Busy /\ ~done THEN before[f] ELSE {}]
  /\ before' = since'
  /\ unstored' = {}

(* A new controller: the EEPROM is erased. *)
Init ==
  /\ live = [f \in Fields |-> 0] /\ ghost = [f \in Fields |-> 0]
  /\ eeprom = [f \in Fields |-> 255]
  /\ write_ghost_system = FALSE /\ IP_Change = FALSE /\ update = FALSE
  /\ count = 0 /\ dhcp = FALSE
  /\ pc = "load" /\ field = 0 /\ byte = 0
  /\ net = "poll" /\ netField = 0 /\ netByte = 0 /\ wiped = None
  /\ changes = 0 /\ failures = 0
  /\ since = [f \in Fields |-> {255}] /\ before = since
  /\ unstored = {}
-----------------------------------------------------------------------------
(* EEP_Dat_Init, before the scheduler starts. *)

Take(a) ==
  /\ live'  = [f \in Fields |-> IF f \in Octets THEN a[f] ELSE live[f]]
  /\ ghost' = [f \in Fields |-> IF f \in Octets THEN a[f] ELSE ghost[f]]

(* The stored address is taken over, unless all its octets are erased.     *)
BootLoad ==
  /\ pc = "load"
  /\ IF \A o \in Octets : eeprom[o] = 255
     THEN /\ pc' = "default" /\ field' = 1
          /\ before' = since
          /\ since' = [f \in Fields |-> IF f \in Octets THEN {Default[f]} ELSE since[f]]
          /\ UNCHANGED registers
     ELSE Take(eeprom) /\ pc' = "mode" /\ UNCHANGED <<field, since, before>>
  /\ UNCHANGED <<eeprom, requests, count, dhcp, byte, network, bounds, unstored>>

(* An erased address is replaced by that from the factory. *)
BootDefault ==
  /\ pc = "default"
  /\ eeprom' = [eeprom EXCEPT ![field] = Default[field]]
  /\ IF field < NumOctets
     THEN field' = field + 1 /\ UNCHANGED <<pc, registers>>
     ELSE Take(Default) /\ pc' = "mode" /\ UNCHANGED field
  /\ UNCHANGED <<requests, count, dhcp, byte, network, bounds, history>>

(* The mode is loaded, 0 instead of a value that is none; tapdev_init      *)
(* starts the DHCP client.                                                 *)
BootMode ==
  /\ pc = "mode"
  /\ LET mode == IF eeprom[Mode] > 1 THEN 0 ELSE eeprom[Mode] IN
       /\ eeprom' = [eeprom EXCEPT ![Mode] = mode]
       /\ live'   = [live EXCEPT ![Mode] = mode]
       /\ ghost'  = [ghost EXCEPT ![Mode] = mode]
       /\ dhcp'   = (mode # 0)
       /\ since'  = IF eeprom[Mode] > 1 THEN [since EXCEPT ![Mode] = {0}] ELSE since
  /\ pc' = "start"
  /\ UNCHANGED <<requests, count, field, byte, network, bounds, before, unstored>>
-----------------------------------------------------------------------------
(* vFlashTask *)

(* The task begins by taking a request back that was faster. *)
FlashStart ==
  /\ pc = "start"
  /\ write_ghost_system' = FALSE
  /\ pc' = "sleep"
  /\ UNCHANGED <<registers, eeprom, IP_Change, update, count, dhcp, field, byte,
                 network, bounds, history>>

(* Once per second: a commit is asked for. *)
CommitBegin ==
  /\ pc = "sleep" /\ write_ghost_system
  /\ pc' = "copy" /\ field' = Mode
  /\ Offer([f \in Fields |-> {ghost[f]}])
  /\ unstored' = IF Storing THEN Octets ELSE {}
  /\ UNCHANGED <<registers, eeprom, requests, count, dhcp, byte, network, bounds>>

CommitCopy_Forgets ==      \* faulty: the live register is not set
  /\ pc = "copy"
  /\ pc' = "fetch"
  /\ UNCHANGED <<registers, eeprom, requests, count, dhcp, field, byte, network, bounds, history>>

(* modbus.ip_addr[i] = modbus.ghost_ip_addr[i] *)
CommitCopy ==
  /\ pc = "copy"
  /\ live' = [live EXCEPT ![field] = ghost[field]]
  /\ pc' = "fetch"
  /\ UNCHANGED <<ghost, eeprom, requests, count, dhcp, field, byte, network, bounds, history>>

CommitFetch_Ghost ==       \* faulty: the ghost is stored, the register is live
  /\ pc = "fetch"
  /\ byte' = ghost[field]
  /\ pc' = "store"
  /\ UNCHANGED <<registers, eeprom, requests, count, dhcp, field, network, bounds, history>>

(* AT24CXX_WriteOneByte(EEP_IP_ADDRESS_1+i, modbus.ip_addr[i]): the call   *)
CommitFetch ==
  /\ pc = "fetch"
  /\ byte' = live[field]
  /\ pc' = "store"
  /\ UNCHANGED <<registers, eeprom, requests, count, dhcp, field, network, bounds, history>>

(* ... and the write, after which the task goes on to the next octet.      *)
CommitStore ==
  /\ pc = "store"
  /\ eeprom' = [eeprom EXCEPT ![field] = byte]
  /\ IF field < NumOctets THEN field' = field + 1 /\ pc' = "copy"
                          ELSE UNCHANGED field /\ pc' = "finish"
  /\ UNCHANGED <<registers, requests, count, dhcp, byte, network, bounds, history>>

CommitFinish_NoRestart ==  \* faulty: the new configuration waits for a restart
  /\ pc = "finish"
  /\ write_ghost_system' = FALSE
  /\ pc' = "sleep"
  /\ UNCHANGED <<registers, eeprom, IP_Change, update, count, dhcp, field, byte,
                 network, bounds, history>>

(* IP_Change = 1; write_ghost_system = 0: a request made meanwhile is lost *)
CommitFinish ==
  /\ pc = "finish"
  /\ IP_Change' = TRUE
  /\ write_ghost_system' = FALSE
  /\ pc' = "sleep"
  /\ UNCHANGED <<registers, eeprom, update, count, dhcp, field, byte, network, bounds, history>>
-----------------------------------------------------------------------------
(* vNETTask *)

Awake == ~Booting /\ changes < MaxChanges /\ changes' = changes + 1

(* A turn of the loop: the tenth turn after the request the controller is    *)
(* restarted, whatever the flash task is doing.                            *)
NetTurn ==
  /\ ~Booting /\ net = "poll"
  /\ IP_Change \/ update
  /\ IF count + 1 = Turns
     THEN Reset(FALSE)
     ELSE /\ count' = count + 1
          /\ UNCHANGED <<registers, requests, dhcp, flash, network, history>>
  /\ UNCHANGED <<eeprom, bounds>>

UdpCommand_NoRestart(a) ==   \* faulty: IP_Change is not set
  /\ Awake /\ net = "poll"
  /\ live'  = [f \in Fields |-> IF f \in Octets THEN a[f] ELSE 0]
  /\ ghost' = [f \in Fields |-> IF f \in Octets THEN a[f] ELSE ghost[f]]
  /\ UNCHANGED <<eeprom, requests, count, dhcp, flash, network, failures, history>>

(* Command 0x66: a static address is in use at once.  The mode is not      *)
(* stored, the address only if it passes the test.                         *)
UdpCommand(a) ==
  /\ Awake /\ net = "poll"
  /\ live'  = [f \in Fields |-> IF f \in Octets THEN a[f] ELSE 0]
  /\ ghost' = [f \in Fields |-> IF f \in Octets THEN a[f] ELSE ghost[f]]
  /\ IP_Change' = TRUE
  /\ LET stored == \A o \in Tested : a[o] # 0
         clean  == IF stored /\ ~Committing THEN unstored \ Octets ELSE unstored \cup Octets
     IN
       /\ IF stored THEN net' = "fetch" /\ netField' = 1 ELSE UNCHANGED <<net, netField>>
       /\ IF stored \/ Busy
          THEN Offer([f \in Fields |-> IF f \in Octets THEN {a[f]}
                                       ELSE since[f] \cup IF Busy THEN {0} ELSE {}])
          ELSE UNCHANGED <<since, before>>
       /\ unstored' = IF Committing \/ live[Mode] # 0 THEN clean \cup {Mode} ELSE clean
  /\ UNCHANGED <<eeprom, write_ghost_system, update, count, dhcp, flash, netByte, wiped, failures>>

UdpFetch ==
  /\ net = "fetch"
  /\ netByte' = live[netField]
  /\ net' = "store"
  /\ UNCHANGED <<registers, eeprom, requests, count, dhcp, flash, netField, wiped, bounds, history>>

UdpStore ==
  /\ net = "store"
  /\ eeprom' = [eeprom EXCEPT ![netField] = netByte]
  /\ IF netField < NumOctets THEN netField' = netField + 1 /\ net' = "fetch"
                             ELSE UNCHANGED netField /\ net' = "poll"
  /\ UNCHANGED <<registers, requests, count, dhcp, flash, netByte, wiped, bounds, history>>

(* dhcpc_configured: the lease is in use and in the ghosts, and not stored *)
dhcpc_configured(a) ==
  /\ Awake /\ net = "poll" /\ dhcp
  /\ Take(a)
  /\ unstored' = unstored \cup Octets
  /\ since' = [f \in Fields |-> IF f \in Octets /\ Committing THEN since[f] \cup {a[f]} ELSE since[f]]
  /\ UNCHANGED <<eeprom, requests, count, dhcp, flash, network, failures, before>>

(* The command that announces a new firmware; a new MAC address.           *)
AskRestart ==
  /\ Awake /\ net = "poll"
  /\ \/ update' = TRUE /\ UNCHANGED IP_Change
     \/ IP_Change' = TRUE /\ UNCHANGED update
  /\ UNCHANGED <<registers, eeprom, write_ghost_system, count, dhcp, flash, network,
                 failures, history>>
-----------------------------------------------------------------------------
(* The other clients: Modbus over RS485 and TCP, and the menu. *)

SetGhost(f, v) ==
  /\ ghost' = [ghost EXCEPT ![f] = v]
  /\ since' = IF Committing THEN [since EXCEPT ![f] = @ \cup {v}] ELSE since
  /\ UNCHANGED <<live, before, unstored>>

(* One register at a time, or an octet in the menu. *)
WriteGhost(f, v) ==
  /\ Awake
  /\ SetGhost(f, v)
  /\ UNCHANGED <<eeprom, requests, count, dhcp, flash, network, failures>>

(* MODBUS_WRITE_GHOST_SYSTEM, which may also take a request back; IP_ENABLE *)
WriteGhostSystem(b) ==
  /\ Awake
  /\ write_ghost_system' = b
  /\ UNCHANGED <<registers, eeprom, IP_Change, update, count, dhcp, flash, network,
                 failures, history>>

(* The menu sets a new mode and asks for the commit. *)
MenuMode(v) ==
  /\ Awake
  /\ ghost[Mode] # v
  /\ SetGhost(Mode, v)
  /\ write_ghost_system' = TRUE
  /\ UNCHANGED <<eeprom, IP_Change, update, count, dhcp, flash, network, failures>>

(* Misc_init after IP_DISABLE: the ghosts are what is in use. *)
MenuDisable ==
  /\ Awake
  /\ ghost' = live
  /\ since' = IF Committing THEN [f \in Fields |-> since[f] \cup {live[f]}] ELSE since
  /\ UNCHANGED <<live, eeprom, requests, count, dhcp, flash, network, failures, before, unstored>>

(* MODBUS_UPDATE_STATUS = 0x7f: a restart at once. *)
UpdateRestart ==
  /\ Awake
  /\ Reset(FALSE)
  /\ UNCHANGED <<eeprom, failures>>

(* MODBUS_UPDATE_STATUS = 0x8e or 0x8f: the factory settings are stored,   *)
(* field by field, and the controller restarts.                            *)
FactoryBegin ==
  /\ Awake /\ ~Wiping
  /\ wiped' = Mode
  /\ Offer([f \in Fields |-> {Factory[f]}])
  /\ UNCHANGED <<registers, eeprom, requests, count, dhcp, flash, net, netField, netByte,
                 failures, unstored>>

FactoryStore ==
  /\ Wiping
  /\ eeprom' = [eeprom EXCEPT ![wiped] = Factory[wiped]]
  /\ IF wiped < NumOctets
     THEN /\ wiped' = wiped + 1
          /\ UNCHANGED <<registers, requests, count, dhcp, flash, net, netField, netByte, history>>
     ELSE Reset(TRUE)
  /\ UNCHANGED bounds

(* The power fails and comes back. *)
PowerFailure ==
  /\ failures < MaxFailures
  /\ failures' = failures + 1
  /\ Reset(FALSE)
  /\ UNCHANGED <<eeprom, changes>>
-----------------------------------------------------------------------------
Boot  == BootLoad \/ BootDefault \/ BootMode
Flash == FlashStart \/ CommitBegin \/ CommitCopy \/ CommitFetch \/ CommitStore \/ CommitFinish
Net   == NetTurn \/ UdpFetch \/ UdpStore
Clients ==
  \/ \E a \in [Octets -> Values] : UdpCommand(a) \/ dhcpc_configured(a)
  \/ \E f \in Fields, v \in Values : WriteGhost(f, v)
  \/ \E b \in BOOLEAN : WriteGhostSystem(b)
  \/ \E v \in {0, 1} : MenuMode(v)
  \/ MenuDisable
  \/ AskRestart \/ UpdateRestart \/ FactoryBegin

Next == Boot \/ Flash \/ Net \/ FactoryStore \/ Clients \/ PowerFailure

Spec == Init /\ [][Next]_vars

(* The network task has the highest priority and sleeps between its turns; *)
(* the flash and the COMM task share the time the tasks above them leave.  *)
FairSpec == Spec /\ WF_vars(Boot) /\ WF_vars(Flash) /\ WF_vars(Net) /\ WF_vars(FactoryStore)
-----------------------------------------------------------------------------
(* The variables have their types. *)
TypeOK ==
  /\ live \in [Fields -> Values] /\ ghost \in [Fields -> Values]
  /\ eeprom \in [Fields -> Values]
  /\ write_ghost_system \in BOOLEAN /\ IP_Change \in BOOLEAN /\ update \in BOOLEAN
  /\ count \in 0 .. Turns - 1
  /\ dhcp \in BOOLEAN
  /\ pc \in {"load", "default", "mode", "start", "sleep", "copy", "fetch", "store", "finish"}
  /\ field \in Fields /\ byte \in Values
  /\ net \in {"poll", "fetch", "store"} /\ netField \in Fields /\ netByte \in Values
  /\ wiped \in Fields \cup {None}
  /\ changes \in Nat /\ failures \in Nat
  /\ since \in [Fields -> SUBSET Values] /\ before \in [Fields -> SUBSET Values]
  /\ unstored \subseteq Fields

(* What a restart would load is never foreign: once commit, UDP command,   *)
(* factory reset and boot have done with the EEPROM, every field holds     *)
(* what the last of them had to store (exactly that, if nobody             *)
(* interfered); while one is under way, that or what was stored before.    *)
Recoverable ==
  \A f \in Fields : eeprom[f] \in since[f] \cup IF Busy THEN before[f] ELSE {}

(* What the EEPROM promises although no lock protects it: it changes only   *)
(* while one of the tasks stores a configuration, and to what one of them  *)
(* was given; when the last is done nothing else is left, and a restart    *)
(* leaves, at worst, fields as they were before.  The boot repairs the mode *)
(* alone.                                                                  *)
Offered == INSTANCE OfferedStore WITH
  Valid <- [f \in Fields |-> IF f = Mode THEN {0, 1} ELSE Values],
  stored <- eeprom, busy <- Busy, wanted <- since,
  rest <- [f \in Fields |-> IF Busy THEN before[f] ELSE {}]

OfferSpec == Offered!Spec

(* The controller uses what it will use after a restart, whenever no task  *)
(* is storing; except a lease, the mode or an untested address of a   *)
(* UDP command, and an address that two tasks have stored at once.         *)
LiveIsStored ==
  pc \in {"start", "sleep"} /\ ~Storing /\ ~Wiping =>
    \A f \in Fields \ unstored : live[f] = eeprom[f]

(* A commit, a factory reset and a request for a restart end in a restart: *)
(* the flash task comes to its end, and the network task counts to its own *)
Restarted == (Committing \/ Wiping \/ IP_Change \/ update) ~> Booting

(* Once the clients are quiet the controller uses for good what is stored, *)
(* however the address was set, or a lease.                                *)
Agreed ==
  <>[] \A f \in Fields : live[f] = eeprom[f] \/ (dhcp /\ f \in Octets)
=============================================================================
