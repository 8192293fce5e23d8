-------------------------- MODULE NetConfigProofs ---------------------------
(***************************************************************************)
(* Proofs about the network configuration, for every number of octets and  *)
(* of turns, every set of tested octets and any number of changes and      *)
(* power failures.                                                         *)
(***************************************************************************)
EXTENDS NetConfig, TLAPS

-----------------------------------------------------------------------------
(* Type correctness. *)

LEMMA FieldFacts ==
  /\ Mode \in Fields /\ Octets \subseteq Fields /\ Mode \notin Octets
  /\ 1 \in Octets /\ NumOctets \in Octets
  /\ Fields = Octets \cup {Mode}
  /\ \A f \in Fields : f < NumOctets => f + 1 \in Octets
  /\ None \notin Fields
  /\ 0 \in Values /\ 1 \in Values /\ 255 \in Values
BY ConfigAssumption DEF Mode, Octets, Fields, None

LEMMA TakeType ==
  ASSUME TypeOK, NEW a, \A o \in Octets : a[o] \in Values, Take(a)
  PROVE  live' \in [Fields -> Values] /\ ghost' \in [Fields -> Values]
BY DEF TypeOK, Take

LEMMA OfferType ==
  ASSUME TypeOK, NEW new \in [Fields -> SUBSET Values], Offer(new)
  PROVE  since' \in [Fields -> SUBSET Values] /\ before' \in [Fields -> SUBSET Values]
BY DEF TypeOK, Offer

LEMMA ResetType ==
  ASSUME TypeOK, NEW done \in BOOLEAN, Reset(done), eeprom' \in [Fields -> Values],
         changes' \in Nat, failures' \in Nat
  PROVE  TypeOK'
<1>1. since' \in [Fields -> SUBSET Values]
  BY DEF TypeOK, Reset
<1>2. count' \in 0 .. Turns - 1
  BY ConfigAssumption DEF Reset
<1>3. QED
  BY <1>1, <1>2, FieldFacts DEF TypeOK, Reset, Mode

(* Where the tasks can be. *)
PlaceInv ==
  /\ Booting => net = "poll" /\ ~Wiping
  /\ Storing => netField \in Octets
  /\ pc = "default" => field \in Octets

LEMMA TypeInit == Init => TypeOK /\ PlaceInv
<1> SUFFICES ASSUME Init PROVE TypeOK /\ PlaceInv
  OBVIOUS
<1>1. count \in 0 .. Turns - 1
  BY ConfigAssumption DEF Init
<1>2. since \in [Fields -> SUBSET Values] /\ before \in [Fields -> SUBSET Values]
  BY FieldFacts DEF Init
<1>3. TypeOK
  BY <1>1, <1>2, FieldFacts DEF Init, TypeOK, Mode
<1>4. QED
  BY <1>3 DEF Init, PlaceInv, Storing, Wiping

(* The boot, the flash task, the network task and the clients keep the     *)
(* types.                                                                  *)
LEMMA TypeBoot == TypeOK /\ PlaceInv /\ Boot => TypeOK'
<1> SUFFICES ASSUME TypeOK, PlaceInv, Boot PROVE TypeOK'
  OBVIOUS
<1> USE DEF registers, requests, flash, network, bounds, history
<1>1. CASE BootLoad
  <2>1. CASE \A o \in Octets : eeprom[o] = 255
    <3>1. /\ pc' = "default" /\ field' = 1 /\ before' = since
          /\ since' = [f \in Fields |-> IF f \in Octets THEN {Default[f]} ELSE since[f]]
          /\ UNCHANGED registers
      BY <1>1, <2>1, Zenon DEF BootLoad
    <3>2. since' \in [Fields -> SUBSET Values]
      BY <3>1, ConfigAssumption DEF TypeOK, Octets
    <3>3. QED
      BY <1>1, <3>1, <3>2, FieldFacts DEF BootLoad, TypeOK
  <2>2. CASE ~ \A o \in Octets : eeprom[o] = 255
    <3>1. Take(eeprom) /\ pc' = "mode" /\ UNCHANGED <<field, since, before>>
      BY <1>1, <2>2, Zenon DEF BootLoad
    <3>2. \A o \in Octets : eeprom[o] \in Values
      BY FieldFacts DEF TypeOK
    <3>3. live' \in [Fields -> Values] /\ ghost' \in [Fields -> Values]
      BY <3>1, <3>2, TakeType
    <3>4. QED
      BY <1>1, <3>1, <3>3 DEF BootLoad, TypeOK
  <2>3. QED
    BY <2>1, <2>2
<1>2. CASE BootDefault
  <2>1. eeprom' \in [Fields -> Values]
    BY <1>2, ConfigAssumption, FieldFacts DEF BootDefault, TypeOK, Octets, PlaceInv
  <2>2. live' \in [Fields -> Values] /\ ghost' \in [Fields -> Values]
    BY <1>2, ConfigAssumption, TakeType DEF BootDefault, TypeOK, Octets
  <2>3. field' \in Fields /\ pc' \in {"default", "mode"}
    BY <1>2, FieldFacts DEF BootDefault, TypeOK
  <2>4. QED
    BY <1>2, <2>1, <2>2, <2>3 DEF BootDefault, TypeOK
<1>3. CASE BootMode
  <2> DEFINE mode == IF eeprom[Mode] > 1 THEN 0 ELSE eeprom[Mode]
  <2>1. mode \in Values
    BY FieldFacts DEF TypeOK
  <2>2. /\ eeprom' = [eeprom EXCEPT ![Mode] = mode]
        /\ live'   = [live EXCEPT ![Mode] = mode]
        /\ ghost'  = [ghost EXCEPT ![Mode] = mode]
        /\ dhcp'   = (mode # 0)
        /\ since'  = IF eeprom[Mode] > 1 THEN [since EXCEPT ![Mode] = {0}] ELSE since
        /\ pc' = "start"
        /\ UNCHANGED <<requests, count, field, byte, network, bounds, before, unstored>>
    BY <1>3, Zenon DEF BootMode
  <2> HIDE DEF mode
  <2>3. dhcp' \in BOOLEAN
    BY <2>2, Zenon
  <2>4. since' \in [Fields -> SUBSET Values]
    BY <2>2, FieldFacts DEF TypeOK
  <2>5. QED
    <3>1. eeprom' \in [Fields -> Values] /\ live' \in [Fields -> Values] /\ ghost' \in [Fields -> Values]
      BY <2>1, <2>2 DEF TypeOK
    <3>2. /\ pc' = "start"
          /\ UNCHANGED <<requests, count, field, byte, network, bounds, before, unstored>>
      BY <2>2, Zenon
    <3>3. QED
      BY <3>1, <3>2, <2>3, <2>4 DEF TypeOK
<1>4. QED
  BY <1>1, <1>2, <1>3 DEF Boot

LEMMA TypeFlash == TypeOK /\ Flash => TypeOK'
<1> SUFFICES ASSUME TypeOK, Flash PROVE TypeOK'
  OBVIOUS
<1> USE DEF registers, requests, flash, network, bounds, history
<1>1. CASE FlashStart
  BY <1>1 DEF FlashStart, TypeOK
<1>2. CASE CommitBegin
  <2>1. since' \in [Fields -> SUBSET Values] /\ before' \in [Fields -> SUBSET Values]
    <3>1. [f \in Fields |-> {ghost[f]}] \in [Fields -> SUBSET Values]
      BY DEF TypeOK
    <3>2. QED
      BY <1>2, <3>1, OfferType DEF CommitBegin
  <2>2. unstored' \subseteq Fields
    BY <1>2, FieldFacts DEF CommitBegin
  <2>3. QED
    BY <1>2, <2>1, <2>2, FieldFacts DEF CommitBegin, TypeOK
<1>3. CASE CommitCopy
  BY <1>3 DEF CommitCopy, TypeOK
<1>4. CASE CommitFetch
  BY <1>4 DEF CommitFetch, TypeOK
<1>5. CASE CommitStore
  <2>1. field' \in Fields /\ pc' \in {"copy", "finish"}
    BY <1>5, FieldFacts DEF CommitStore, TypeOK
  <2>2. QED
    BY <1>5, <2>1 DEF CommitStore, TypeOK
<1>6. CASE CommitFinish
  BY <1>6 DEF CommitFinish, TypeOK
<1>7. QED
  BY <1>1, <1>2, <1>3, <1>4, <1>5, <1>6 DEF Flash

LEMMA TypeNet == TypeOK /\ PlaceInv /\ Net => TypeOK'
<1> SUFFICES ASSUME TypeOK, PlaceInv, Net PROVE TypeOK'
  OBVIOUS
<1> USE DEF registers, requests, flash, network, bounds, history
<1>1. CASE NetTurn
  <2>1. CASE count + 1 = Turns
    <3>1. Reset(FALSE)
      BY <1>1, <2>1, Zenon DEF NetTurn
    <3>2. eeprom' \in [Fields -> Values] /\ changes' \in Nat /\ failures' \in Nat
      BY <1>1 DEF NetTurn, TypeOK
    <3>3. QED
      BY <3>1, <3>2, ResetType
  <2>2. CASE count + 1 # Turns
    BY <1>1, <2>2, ConfigAssumption DEF NetTurn, TypeOK
  <2>3. QED
    BY <2>1, <2>2
<1>2. CASE UdpFetch
  <2>1. live[netField] \in Values
    BY <1>2, FieldFacts DEF UdpFetch, TypeOK
  <2>2. QED
    BY <1>2, <2>1 DEF UdpFetch, TypeOK
<1>3. CASE UdpStore
  <2>1. netField' \in Fields /\ net' \in {"fetch", "poll"}
    BY <1>3, FieldFacts DEF UdpStore, TypeOK
  <2>2. QED
    BY <1>3, <2>1 DEF UdpStore, TypeOK
<1>4. QED
  BY <1>1, <1>2, <1>3 DEF Net

LEMMA SetGhostType ==
  ASSUME TypeOK, NEW f \in Fields, NEW v \in Values, SetGhost(f, v)
  PROVE  /\ live' = live /\ before' = before /\ unstored' = unstored
         /\ ghost' \in [Fields -> Values]
         /\ since' \in [Fields -> SUBSET Values]
BY DEF SetGhost, TypeOK

LEMMA TypeClients == TypeOK /\ Clients => TypeOK'
<1> SUFFICES ASSUME TypeOK, Clients PROVE TypeOK'
  OBVIOUS
<1> USE DEF registers, requests, flash, network, bounds, history
<1>1. ASSUME NEW a \in [Octets -> Values], UdpCommand(a) PROVE TypeOK'
  <2>1. live' \in [Fields -> Values] /\ ghost' \in [Fields -> Values]
    BY <1>1, FieldFacts DEF UdpCommand, TypeOK
  <2>2. net' \in {"poll", "fetch", "store"} /\ netField' \in Fields
    BY <1>1, FieldFacts DEF UdpCommand, TypeOK
  <2>8. [f \in Fields |-> IF f \in Octets THEN {a[f]}
                          ELSE since[f] \cup IF Busy THEN {0} ELSE {}] \in [Fields -> SUBSET Values]
    BY FieldFacts DEF TypeOK
  <2>3. since' \in [Fields -> SUBSET Values]
    BY <1>1, <2>8, OfferType DEF UdpCommand, TypeOK
  <2>4. before' \in [Fields -> SUBSET Values]
    BY <1>1, <2>8, OfferType DEF UdpCommand, TypeOK
  <2>5. unstored' \subseteq Fields
    BY <1>1, FieldFacts DEF UdpCommand, TypeOK
  <2>6. changes' \in Nat
    BY <1>1 DEF UdpCommand, Awake, TypeOK
  <2>7. QED
    BY <1>1, <2>1, <2>2, <2>3, <2>4, <2>5, <2>6 DEF UdpCommand, TypeOK
<1>2. ASSUME NEW a \in [Octets -> Values], dhcpc_configured(a) PROVE TypeOK'
  <2>1. live' \in [Fields -> Values] /\ ghost' \in [Fields -> Values]
    BY <1>2, TakeType DEF dhcpc_configured
  <2>2. since' \in [Fields -> SUBSET Values]
    BY <1>2 DEF dhcpc_configured, TypeOK
  <2>3. unstored' \subseteq Fields
    BY <1>2, FieldFacts DEF dhcpc_configured, TypeOK
  <2>4. QED
    BY <1>2, <2>1, <2>2, <2>3 DEF dhcpc_configured, Awake, TypeOK
<1>3. ASSUME NEW f \in Fields, NEW v \in Values, WriteGhost(f, v) PROVE TypeOK'
  BY <1>3, SetGhostType DEF WriteGhost, Awake, TypeOK
<1>4. ASSUME NEW b \in BOOLEAN, WriteGhostSystem(b) PROVE TypeOK'
  <2>1. write_ghost_system' \in BOOLEAN
    BY <1>4, Zenon DEF WriteGhostSystem
  <2>2. QED
    BY <1>4, <2>1 DEF WriteGhostSystem, Awake, TypeOK
<1>5. ASSUME NEW v \in {0, 1}, MenuMode(v) PROVE TypeOK'
  <2>1. v \in Values
    BY FieldFacts
  <2>2. QED
    BY <1>5, <2>1, FieldFacts, SetGhostType DEF MenuMode, Awake, TypeOK
<1>6. CASE MenuDisable
  <2>1. since' \in [Fields -> SUBSET Values]
    BY <1>6 DEF MenuDisable, TypeOK
  <2>2. QED
    BY <1>6, <2>1 DEF MenuDisable, Awake, TypeOK
<1>7. CASE AskRestart
  <2>1. update' \in BOOLEAN /\ IP_Change' \in BOOLEAN
    BY <1>7, Zenon DEF AskRestart, TypeOK
  <2>2. changes' = changes + 1
    BY <1>7 DEF AskRestart, Awake
  <2>3. UNCHANGED <<registers, eeprom, write_ghost_system, count, dhcp, flash, network,
                    failures, history>>
    BY <1>7, Zenon DEF AskRestart
  <2>4. QED
    BY <2>1, <2>2, <2>3 DEF TypeOK
<1>8. CASE UpdateRestart
  <2>1. Reset(FALSE)
    BY <1>8, Zenon DEF UpdateRestart
  <2>2. eeprom' \in [Fields -> Values] /\ changes' \in Nat /\ failures' \in Nat
    BY <1>8 DEF UpdateRestart, Awake, TypeOK
  <2>3. QED
    BY <2>1, <2>2, ResetType
<1>9. CASE FactoryBegin
  <2>1. [f \in Fields |-> {Factory[f]}] \in [Fields -> SUBSET Values]
    BY ConfigAssumption DEF Fields
  <2>2. since' \in [Fields -> SUBSET Values] /\ before' \in [Fields -> SUBSET Values]
    BY <1>9, <2>1, OfferType DEF FactoryBegin
  <2>3. QED
    BY <1>9, <2>2, FieldFacts DEF FactoryBegin, Awake, TypeOK
<1>10. QED
  BY <1>1, <1>2, <1>3, <1>4, <1>5, <1>6, <1>7, <1>8, <1>9 DEF Clients

LEMMA TypeFactory == TypeOK /\ FactoryStore => TypeOK'
<1> SUFFICES ASSUME TypeOK, FactoryStore PROVE TypeOK'
  OBVIOUS
<1>1. wiped \in Fields /\ Factory[wiped] \in Values
  BY ConfigAssumption DEF FactoryStore, Wiping, TypeOK, Fields
<1>2. eeprom' \in [Fields -> Values] /\ changes' \in Nat /\ failures' \in Nat
  BY <1>1 DEF FactoryStore, TypeOK, bounds
<1>3. CASE wiped < NumOctets
  <2>1. /\ wiped' = wiped + 1
        /\ UNCHANGED <<registers, requests, count, dhcp, flash, net, netField, netByte, history>>
    BY <1>3, Zenon DEF FactoryStore
  <2>2. QED
    BY <1>1, <1>2, <1>3, <2>1, FieldFacts DEF TypeOK, registers, requests, flash, history
<1>4. CASE ~(wiped < NumOctets)
  <2>1. Reset(TRUE)
    BY <1>4, Zenon DEF FactoryStore
  <2>2. QED
    BY <2>1, <1>2, ResetType
<1>5. QED
  BY <1>3, <1>4

LEMMA PlaceStep == TypeOK /\ PlaceInv /\ [Next]_vars => PlaceInv'
<1> SUFFICES ASSUME TypeOK, PlaceInv, [Next]_vars PROVE PlaceInv'
  OBVIOUS
<1> USE FieldFacts DEF PlaceInv, Booting, Storing, Wiping, registers, requests, flash, network, bounds, history
<1>1. CASE Boot
  BY <1>1 DEF Boot, BootLoad, BootDefault, BootMode
<1>2. CASE Flash
  BY <1>2 DEF Flash, FlashStart, CommitBegin, CommitCopy, CommitFetch, CommitStore, CommitFinish
<1>3. CASE Net
  BY <1>3 DEF Net, NetTurn, UdpFetch, UdpStore, Reset
<1>4. CASE Clients
  BY <1>4 DEF Clients, Awake, UdpCommand, dhcpc_configured, WriteGhost, WriteGhostSystem, MenuMode,
       MenuDisable, AskRestart, UpdateRestart, FactoryBegin, Reset
<1>5. CASE PowerFailure
  BY <1>5 DEF PowerFailure, Reset
<1>6. CASE UNCHANGED vars
  BY <1>6 DEF vars
<1>7. CASE FactoryStore
  BY <1>7 DEF FactoryStore, Reset
<1>8. QED
  BY <1>1, <1>2, <1>3, <1>4, <1>5, <1>6, <1>7 DEF Next

LEMMA TypeStep == TypeOK /\ PlaceInv /\ [Next]_vars => TypeOK'
<1> SUFFICES ASSUME TypeOK, PlaceInv, [Next]_vars PROVE TypeOK'
  OBVIOUS
<1>1. CASE PowerFailure
  <2>1. Reset(FALSE)
    BY <1>1, Zenon DEF PowerFailure
  <2>2. eeprom' \in [Fields -> Values] /\ changes' \in Nat /\ failures' \in Nat
    BY <1>1 DEF PowerFailure, TypeOK
  <2>3. QED
    BY <2>1, <2>2, ResetType
<1>2. CASE UNCHANGED vars
  BY <1>2 DEF vars, registers, requests, flash, network, bounds, history, TypeOK
<1>3. QED
  BY <1>1, <1>2, TypeBoot, TypeFlash, TypeNet, TypeFactory, TypeClients DEF Next

(* The registers, the EEPROM and the positions of the tasks stay in range. *)
THEOREM TypeCorrect == Spec => []TypeOK
<1>1. TypeOK /\ PlaceInv /\ [Next]_vars => (TypeOK /\ PlaceInv)'
  BY TypeStep, PlaceStep
<1>2. QED
  BY <1>1, TypeInit, PTL DEF Spec

-----------------------------------------------------------------------------
(* What is stored was offered. *)

(* The flash task takes its bytes from values offered since it began, and  *)
(* has stored such a value in every field it has passed.                   *)
CommitInv ==
  /\ Committing => \A f \in Fields : ghost[f] \in since[f]
  /\ pc = "fetch" => live[field] \in since[field]
  /\ pc = "store" => byte \in since[field]
  /\ Committing => \A f \in Fields : f < field \/ pc = "finish" => eeprom[f] \in since[f]

(* So does the UDP command; the mode, which it does not store, is left     *)
(* over from whoever had stored it.                                        *)
UdpInv ==
  /\ Storing => \A o \in Octets : live[o] \in since[o] /\ (o < netField => eeprom[o] \in since[o])
  /\ net = "store" => netByte \in since[netField]
  /\ Storing /\ ~Committing /\ ~Wiping => eeprom[Mode] \in since[Mode]

(* So does the factory reset. *)
WipeInv ==
  Wiping => \A f \in Fields : Factory[f] \in since[f] /\ (f < wiped => eeprom[f] \in since[f])

(* And so does the boot. *)
BootInv ==
  pc = "default" =>
    /\ eeprom[Mode] \in since[Mode]
    /\ \A o \in Octets : Default[o] \in since[o] /\ (o < field => eeprom[o] \in since[o])

StoredInv == CommitInv /\ UdpInv /\ WipeInv /\ BootInv /\ Recoverable

LEMMA Orders ==
  /\ \A f \in Fields : f \in Nat /\ ~(f < 0) /\ f <= NumOctets
  /\ \A f, g \in Fields : f < g + 1 <=> f < g \/ f = g
  /\ \A f, g \in Fields : ~(g < NumOctets) /\ f # g => f < g
  /\ \A f \in Fields : f \in Octets <=> f # Mode
  /\ \A f \in Fields : f < 1 <=> f = Mode
BY ConfigAssumption DEF Fields, Octets, Mode

LEMMA ResetStored ==
  ASSUME TypeOK, StoredInv, NEW done \in BOOLEAN, Reset(done),
         done => \A f \in Fields : eeprom'[f] \in since[f],
         ~done => eeprom' = eeprom
  PROVE  StoredInv'
<1>1. \A f \in Fields : eeprom'[f] \in since'[f]
  <2> SUFFICES ASSUME NEW f \in Fields PROVE eeprom'[f] \in since'[f]
    OBVIOUS
  <2>1. CASE done
    BY <2>1 DEF Reset
  <2>2. CASE ~done
    BY <2>2 DEF StoredInv, Recoverable, Reset
  <2>3. QED
    BY <2>1, <2>2
<1>2. pc' = "load" /\ net' = "poll" /\ wiped' = None
  BY DEF Reset
<1>3. QED
  BY <1>1, <1>2 DEF StoredInv, CommitInv, UdpInv, WipeInv, BootInv, Recoverable, Committing, Storing, Wiping

LEMMA OfferStored ==
  ASSUME TypeOK, StoredInv, NEW new \in [Fields -> SUBSET Values], Offer(new)
  PROVE  \A f \in Fields :
           /\ \A v \in new[f] : v \in since'[f]
           /\ Busy => \A v \in since[f] : v \in since'[f]
           /\ eeprom[f] \in before'[f]
BY DEF Offer, StoredInv, Recoverable

LEMMA StoredInit == Init => StoredInv
BY FieldFacts DEF Init, StoredInv, CommitInv, UdpInv, WipeInv, BootInv, Recoverable, Committing, Storing, Wiping

LEMMA StoredBoot == TypeOK /\ PlaceInv /\ StoredInv /\ Boot => StoredInv'
<1> SUFFICES ASSUME TypeOK, PlaceInv, StoredInv, Boot PROVE StoredInv'
  OBVIOUS
<1> USE FieldFacts, Orders DEF registers, requests, flash, network, bounds, history,
        StoredInv, CommitInv, UdpInv, WipeInv, BootInv, Recoverable, Busy, Wiping, Offer, Committing, Storing, PlaceInv, Booting, TypeOK
<1>1. CASE BootLoad
  BY <1>1 DEF BootLoad
<1>2. CASE BootDefault
  BY <1>2 DEF BootDefault
<1>3. CASE BootMode
  BY <1>3 DEF BootMode
<1>4. QED
  BY <1>1, <1>2, <1>3 DEF Boot

LEMMA StoredFlash == TypeOK /\ PlaceInv /\ StoredInv /\ Flash => StoredInv'
<1> SUFFICES ASSUME TypeOK, PlaceInv, StoredInv, Flash PROVE StoredInv'
  OBVIOUS
<1> USE FieldFacts, Orders DEF registers, requests, flash, network, bounds, history,
        StoredInv, CommitInv, UdpInv, WipeInv, BootInv, Recoverable, Busy, Wiping, Offer, Committing, Storing, PlaceInv, Booting, TypeOK
<1>1. CASE FlashStart
  BY <1>1 DEF FlashStart
<1>2. CASE CommitBegin
  <2> DEFINE new == [f \in Fields |-> {ghost[f]}]
  <2>1. new \in [Fields -> SUBSET Values] /\ \A f \in Fields : ghost[f] \in new[f]
    OBVIOUS
  <2>2. Offer(new)
    BY <1>2, Zenon DEF CommitBegin
  <2> HIDE DEF new
  <2>3. \A f \in Fields :
        /\ ghost[f] \in since'[f]
        /\ Busy => \A v \in since[f] : v \in since'[f]
        /\ eeprom[f] \in before'[f]
    BY <2>1, <2>2, OfferStored
  <2>4. /\ pc = "sleep" /\ pc' = "copy" /\ field' = Mode
        /\ UNCHANGED <<registers, eeprom, byte, network>>
    BY <1>2 DEF CommitBegin
  <2>5. QED
    BY <2>3, <2>4
<1>3. CASE CommitCopy
  BY <1>3 DEF CommitCopy
<1>4. CASE CommitFetch
  BY <1>4 DEF CommitFetch
<1>5. CASE CommitStore
  BY <1>5 DEF CommitStore
<1>6. CASE CommitFinish
  BY <1>6 DEF CommitFinish
<1>7. QED
  BY <1>1, <1>2, <1>3, <1>4, <1>5, <1>6 DEF Flash

LEMMA StoredNet == TypeOK /\ PlaceInv /\ StoredInv /\ Net => StoredInv'
<1> SUFFICES ASSUME TypeOK, PlaceInv, StoredInv, Net PROVE StoredInv'
  OBVIOUS
<1>1. CASE NetTurn
  <2>1. CASE count + 1 = Turns
    <3>1. Reset(FALSE) /\ eeprom' = eeprom
      BY <1>1, <2>1, Zenon DEF NetTurn
    <3>2. QED
      BY <3>1, ResetStored
  <2>2. CASE count + 1 # Turns
    <3>1. UNCHANGED <<registers, eeprom, flash, network, history>>
      BY <1>1, <2>2, Zenon DEF NetTurn
    <3>2. QED
      BY <3>1 DEF registers, flash, network, history, StoredInv, CommitInv, UdpInv, WipeInv, BootInv,
           Recoverable, Busy, Wiping, Committing, Storing
  <2>3. QED
    BY <2>1, <2>2
<1> USE FieldFacts, Orders DEF registers, requests, flash, network, bounds, history,
        StoredInv, CommitInv, UdpInv, WipeInv, BootInv, Recoverable, Busy, Wiping, Offer, Committing, Storing, PlaceInv, Booting, TypeOK
<1>2. CASE UdpFetch
  BY <1>2 DEF UdpFetch
<1>3. CASE UdpStore
  BY <1>3 DEF UdpStore
<1>4. QED
  BY <1>1, <1>2, <1>3 DEF Net

LEMMA UdpStored ==
  ASSUME TypeOK, PlaceInv, StoredInv, NEW a \in [Octets -> Values], UdpCommand(a)
  PROVE  StoredInv'
<1> DEFINE new == [f \in Fields |-> IF f \in Octets THEN {a[f]}
                                    ELSE since[f] \cup IF Busy THEN {0} ELSE {}]
<1> USE FieldFacts, Orders
<1>1. /\ new \in [Fields -> SUBSET Values]
      /\ \A o \in Octets : a[o] \in new[o]
      /\ \A v \in since[Mode] : v \in new[Mode]
      /\ Busy => 0 \in new[Mode]
  BY DEF TypeOK
<1>2. /\ ~Booting /\ net = "poll"
      /\ live'  = [f \in Fields |-> IF f \in Octets THEN a[f] ELSE 0]
      /\ ghost' = [f \in Fields |-> IF f \in Octets THEN a[f] ELSE ghost[f]]
      /\ UNCHANGED <<eeprom, flash, netByte, wiped>>
      /\ (net' = "fetch" /\ netField' = 1) \/ UNCHANGED <<net, netField>>
  BY DEF UdpCommand, Awake
<1> USE DEF flash, Wiping, Committing, Storing
<1>3. CASE Offer(new)
  <2>1. \A f \in Fields :
        /\ \A v \in new[f] : v \in since'[f]
        /\ Busy => \A v \in since[f] : v \in since'[f]
        /\ eeprom[f] \in before'[f]
    BY <1>1, <1>3, OfferStored
  <2> HIDE DEF new
  <2>2. /\ \A o \in Octets : a[o] \in since'[o]
        /\ \A v \in since[Mode] : v \in since'[Mode]
        /\ Busy => 0 \in since'[Mode]
    BY <1>1, <2>1
  <2>3. CommitInv'
    BY <1>2, <2>1, <2>2 DEF StoredInv, CommitInv, Busy, TypeOK
  <2>4. UdpInv'
    BY <1>2, <2>1, <2>2 DEF StoredInv, UdpInv, Busy, Booting, Recoverable, TypeOK
  <2>5. WipeInv' /\ BootInv'
    BY <1>2, <2>1, <2>2 DEF StoredInv, WipeInv, BootInv, Busy, Booting
  <2>6. Recoverable'
    <3>1. CASE Busy'
      BY <1>2, <2>1, <3>1 DEF Recoverable
    <3>2. CASE ~Busy'
      <4>1. ~Busy /\ UNCHANGED <<since, before>>
        BY <1>2, <3>2, Zenon DEF UdpCommand, Busy
      <4>2. QED
        BY <1>2, <3>2, <4>1 DEF StoredInv, Recoverable
    <3>3. QED
      BY <3>1, <3>2
  <2>7. QED
    BY <2>3, <2>4, <2>5, <2>6 DEF StoredInv
<1>4. CASE ~Offer(new)
  <2>1. /\ ~Busy /\ ~(\A o \in Tested : a[o] # 0)
        /\ UNCHANGED <<since, before>>
    BY <1>4, Zenon DEF UdpCommand
  <2>2. UNCHANGED <<net, netField>>
    BY <2>1, Zenon DEF UdpCommand
  <2>3. QED
    BY <1>2, <2>1, <2>2
       DEF StoredInv, CommitInv, UdpInv, WipeInv, BootInv, Recoverable, Busy, Booting
<1>5. QED
  BY <1>3, <1>4

LEMMA StoredClients == TypeOK /\ PlaceInv /\ StoredInv /\ Clients => StoredInv'
<1> SUFFICES ASSUME TypeOK, PlaceInv, StoredInv, Clients PROVE StoredInv'
  OBVIOUS
<1> USE FieldFacts, Orders DEF registers, requests, flash, network, bounds, history,
        StoredInv, CommitInv, UdpInv, WipeInv, BootInv, Recoverable, Busy, Wiping, Offer, Committing, Storing, PlaceInv, Booting, TypeOK
<1>1. ASSUME NEW a \in [Octets -> Values], UdpCommand(a) PROVE StoredInv'
  BY <1>1, UdpStored
<1>2. ASSUME NEW a \in [Octets -> Values], dhcpc_configured(a) PROVE StoredInv'
  BY <1>2 DEF dhcpc_configured, Awake, Take
<1>3. ASSUME NEW f \in Fields, NEW v \in Values, WriteGhost(f, v) PROVE StoredInv'
  BY <1>3 DEF WriteGhost, SetGhost, Awake
<1>4. ASSUME NEW b \in BOOLEAN, WriteGhostSystem(b) PROVE StoredInv'
  BY <1>4 DEF WriteGhostSystem, Awake
<1>5. ASSUME NEW v \in {0, 1}, MenuMode(v) PROVE StoredInv'
  BY <1>5 DEF MenuMode, SetGhost, Awake
<1>6. CASE MenuDisable
  BY <1>6 DEF MenuDisable, Awake
<1>7. CASE AskRestart
  BY <1>7 DEF AskRestart, Awake
<1>8. CASE UpdateRestart
  BY <1>8, ResetStored DEF UpdateRestart
<1>9. CASE FactoryBegin
  <2> DEFINE new == [f \in Fields |-> {Factory[f]}]
  <2>1. new \in [Fields -> SUBSET Values] /\ \A f \in Fields : Factory[f] \in new[f]
    BY ConfigAssumption DEF Fields
  <2>2. Offer(new)
    BY <1>9, Zenon DEF FactoryBegin
  <2> HIDE DEF new
  <2>3. \A f \in Fields :
        /\ Factory[f] \in since'[f]
        /\ Busy => \A v \in since[f] : v \in since'[f]
        /\ eeprom[f] \in before'[f]
    BY <2>1, <2>2, OfferStored
  <2>4. /\ wiped' = Mode /\ ~Booting
        /\ UNCHANGED <<registers, eeprom, flash, net, netField, netByte>>
    BY <1>9 DEF FactoryBegin, Awake
  <2>5. QED
    BY <2>3, <2>4
<1>10. QED
  BY <1>1, <1>2, <1>3, <1>4, <1>5, <1>6, <1>7, <1>8, <1>9 DEF Clients

LEMMA StoredFactory == TypeOK /\ PlaceInv /\ StoredInv /\ FactoryStore => StoredInv'
<1> SUFFICES ASSUME TypeOK, PlaceInv, StoredInv, FactoryStore PROVE StoredInv'
  OBVIOUS
<1> USE FieldFacts, Orders
<1>1. /\ wiped \in Fields
      /\ eeprom' = [eeprom EXCEPT ![wiped] = Factory[wiped]]
  BY DEF FactoryStore, Wiping, TypeOK
<1>2. CASE wiped < NumOctets
  <2>1. /\ wiped' = wiped + 1
        /\ UNCHANGED <<registers, requests, count, dhcp, flash, net, netField, netByte, history>>
    BY <1>2, Zenon DEF FactoryStore
  <2>2. Wiping /\ Wiping'
    BY <1>1, <1>2, <2>1 DEF FactoryStore, Wiping
  <2>3. ~Booting /\ pc' = pc
    BY <2>1, <2>2 DEF PlaceInv, flash
  <2>4. QED
    BY <1>1, <2>1, <2>2, <2>3
       DEF StoredInv, CommitInv, UdpInv, WipeInv, BootInv, Recoverable, Busy, Committing, Storing,
           Booting, PlaceInv, TypeOK, registers, flash, history
<1>3. CASE ~(wiped < NumOctets)
  <2>1. Reset(TRUE)
    BY <1>3, Zenon DEF FactoryStore
  <2>2. \A f \in Fields : eeprom'[f] \in since[f]
    BY <1>1, <1>3 DEF FactoryStore, StoredInv, WipeInv, TypeOK
  <2>3. QED
    BY <2>1, <2>2, ResetStored
<1>4. QED
  BY <1>2, <1>3

LEMMA StoredStep == TypeOK /\ PlaceInv /\ StoredInv /\ [Next]_vars => StoredInv'
<1> SUFFICES ASSUME TypeOK, PlaceInv, StoredInv, [Next]_vars PROVE StoredInv'
  OBVIOUS
<1>1. CASE PowerFailure
  BY <1>1, ResetStored DEF PowerFailure
<1>2. CASE UNCHANGED vars
  BY <1>2 DEF vars, registers, requests, flash, network, bounds, history,
       StoredInv, CommitInv, UdpInv, WipeInv, BootInv, Recoverable, Busy, Wiping, Committing, Storing
<1>3. QED
  BY <1>1, <1>2, StoredBoot, StoredFlash, StoredNet, StoredFactory, StoredClients DEF Next

(* Wherever tasks interfere, requests are lost and power fails, a restart  *)
(* loads in every field what its ghost or a UDP command said last, or      *)
(* while it is being replaced, said before.                                *)
THEOREM StoredWasOffered == Spec => []Recoverable
<1>1. Init => TypeOK /\ PlaceInv /\ StoredInv
  BY TypeInit, StoredInit
<1>2. TypeOK /\ PlaceInv /\ StoredInv /\ [Next]_vars => (TypeOK /\ PlaceInv /\ StoredInv)'
  BY TypeStep, PlaceStep, StoredStep
<1>3. StoredInv => Recoverable
  BY DEF StoredInv
<1>4. QED
  BY <1>1, <1>2, <1>3, PTL DEF Spec
-----------------------------------------------------------------------------
(* What is in use is stored. *)

(* The flash task has stored what is in use in the fields it has passed,   *)
(* and leaves those alone that the UDP command stores at the same time.  A *)
(* factory reset, which ends in a restart, is left out.                    *)
CommitLive ==
  /\ Committing /\ ~Wiping => \A f \in Fields \ unstored :
       f < field \/ pc = "finish" => live[f] = eeprom[f]
  /\ pc = "store" /\ ~Wiping /\ field \notin unstored => byte = live[field]
  /\ Storing /\ Committing /\ ~Wiping => Octets \subseteq unstored

(* So has the UDP command. *)
UdpLive ==
  /\ Storing /\ ~Committing /\ ~Wiping => \A f \in Fields \ unstored :
       f < netField => live[f] = eeprom[f]
  /\ net = "store" /\ ~Wiping /\ netField \notin unstored => netByte = live[netField]

(* And so has the boot. *)
BootLive ==
  /\ pc = "mode" => \A o \in Octets : live[o] = eeprom[o]
  /\ pc = "default" => \A o \in Octets : o < field => eeprom[o] = Default[o]

LiveInv == CommitLive /\ UdpLive /\ BootLive /\ LiveIsStored

LEMMA ResetLive ==
  ASSUME NEW done \in BOOLEAN, Reset(done)
  PROVE  LiveInv'
<1>1. pc' = "load" /\ net' = "poll"
  BY DEF Reset
<1>2. QED
  BY <1>1 DEF LiveInv, CommitLive, UdpLive, BootLive, LiveIsStored, Committing, Storing, Wiping

LEMMA LiveInit == Init => LiveInv
BY DEF Init, LiveInv, CommitLive, UdpLive, BootLive, LiveIsStored, Committing, Storing, Wiping

LEMMA LiveBoot == TypeOK /\ PlaceInv /\ LiveInv /\ Boot => LiveInv'
<1> SUFFICES ASSUME TypeOK, PlaceInv, LiveInv, Boot PROVE LiveInv'
  OBVIOUS
<1> USE FieldFacts, Orders DEF registers, requests, flash, network, bounds, history,
        LiveInv, CommitLive, UdpLive, BootLive, LiveIsStored, Committing, Storing, Wiping, Offer, PlaceInv, Booting, TypeOK
<1>1. CASE BootLoad
  BY <1>1 DEF BootLoad, Take
<1>2. CASE BootDefault
  BY <1>2 DEF BootDefault, Take
<1>3. CASE BootMode
  BY <1>3 DEF BootMode
<1>4. QED
  BY <1>1, <1>2, <1>3 DEF Boot

LEMMA LiveFlash == TypeOK /\ PlaceInv /\ LiveInv /\ Flash => LiveInv'
<1> SUFFICES ASSUME TypeOK, PlaceInv, LiveInv, Flash PROVE LiveInv'
  OBVIOUS
<1> USE FieldFacts, Orders DEF registers, requests, flash, network, bounds, history,
        LiveInv, CommitLive, UdpLive, BootLive, LiveIsStored, Committing, Storing, Wiping, Offer, PlaceInv, Booting, TypeOK
<1>1. CASE FlashStart
  BY <1>1 DEF FlashStart
<1>2. CASE CommitBegin
  BY <1>2 DEF CommitBegin
<1>3. CASE CommitCopy
  BY <1>3 DEF CommitCopy
<1>4. CASE CommitFetch
  BY <1>4 DEF CommitFetch
<1>5. CASE CommitStore
  BY <1>5 DEF CommitStore
<1>6. CASE CommitFinish
  BY <1>6 DEF CommitFinish
<1>7. QED
  BY <1>1, <1>2, <1>3, <1>4, <1>5, <1>6 DEF Flash

LEMMA LiveNet == TypeOK /\ PlaceInv /\ LiveInv /\ Net => LiveInv'
<1> SUFFICES ASSUME TypeOK, PlaceInv, LiveInv, Net PROVE LiveInv'
  OBVIOUS
<1>1. CASE NetTurn
  <2>1. CASE count + 1 = Turns
    <3>1. Reset(FALSE)
      BY <1>1, <2>1, Zenon DEF NetTurn
    <3>2. QED
      BY <3>1, ResetLive
  <2>2. CASE count + 1 # Turns
    <3>1. UNCHANGED <<registers, eeprom, flash, network, history>>
      BY <1>1, <2>2, Zenon DEF NetTurn
    <3>2. QED
      BY <3>1 DEF registers, flash, network, history, LiveInv, CommitLive, UdpLive, BootLive,
           LiveIsStored, Committing, Storing, Wiping
  <2>3. QED
    BY <2>1, <2>2
<1> USE FieldFacts, Orders DEF registers, requests, flash, network, bounds, history,
        LiveInv, CommitLive, UdpLive, BootLive, LiveIsStored, Committing, Storing, Wiping, Offer, PlaceInv, Booting, TypeOK
<1>2. CASE UdpFetch
  BY <1>2 DEF UdpFetch
<1>3. CASE UdpStore
  BY <1>3 DEF UdpStore
<1>4. QED
  BY <1>1, <1>2, <1>3 DEF Net

LEMMA LiveClients == TypeOK /\ PlaceInv /\ LiveInv /\ Clients => LiveInv'
<1> SUFFICES ASSUME TypeOK, PlaceInv, LiveInv, Clients PROVE LiveInv'
  OBVIOUS
<1> USE FieldFacts, Orders DEF registers, requests, flash, network, bounds, history,
        LiveInv, CommitLive, UdpLive, BootLive, LiveIsStored, Committing, Storing, Wiping, Offer, PlaceInv, Booting, TypeOK
<1>1. ASSUME NEW a \in [Octets -> Values], UdpCommand(a) PROVE LiveInv'
  BY <1>1 DEF UdpCommand, Awake
<1>2. ASSUME NEW a \in [Octets -> Values], dhcpc_configured(a) PROVE LiveInv'
  BY <1>2 DEF dhcpc_configured, Awake, Take
<1>3. ASSUME NEW f \in Fields, NEW v \in Values, WriteGhost(f, v) PROVE LiveInv'
  BY <1>3 DEF WriteGhost, SetGhost, Awake
<1>4. ASSUME NEW b \in BOOLEAN, WriteGhostSystem(b) PROVE LiveInv'
  BY <1>4 DEF WriteGhostSystem, Awake
<1>5. ASSUME NEW v \in {0, 1}, MenuMode(v) PROVE LiveInv'
  BY <1>5 DEF MenuMode, SetGhost, Awake
<1>6. CASE MenuDisable
  BY <1>6 DEF MenuDisable, Awake
<1>7. CASE AskRestart
  BY <1>7 DEF AskRestart, Awake
<1>8. CASE UpdateRestart
  BY <1>8, ResetLive DEF UpdateRestart
<1>9. CASE FactoryBegin
  BY <1>9 DEF FactoryBegin, Awake
<1>10. QED
  BY <1>1, <1>2, <1>3, <1>4, <1>5, <1>6, <1>7, <1>8, <1>9 DEF Clients

LEMMA LiveFactory == TypeOK /\ PlaceInv /\ LiveInv /\ FactoryStore => LiveInv'
<1> SUFFICES ASSUME TypeOK, PlaceInv, LiveInv, FactoryStore PROVE LiveInv'
  OBVIOUS
<1>1. CASE wiped < NumOctets
  <2>1. wiped' = wiped + 1 /\ pc' = pc /\ net' = net
    BY <1>1 DEF FactoryStore, flash
  <2>2. Wiping /\ Wiping'
    BY <1>1, <2>1, FieldFacts DEF FactoryStore, Wiping, TypeOK
  <2>3. ~Booting
    BY <2>2 DEF PlaceInv
  <2>4. QED
    BY <2>1, <2>2, <2>3
       DEF LiveInv, CommitLive, UdpLive, BootLive, LiveIsStored, Booting
<1>2. CASE ~(wiped < NumOctets)
  <2>1. Reset(TRUE)
    BY <1>2, Zenon DEF FactoryStore
  <2>2. QED
    BY <2>1, ResetLive
<1>3. QED
  BY <1>1, <1>2

LEMMA LiveStep == TypeOK /\ PlaceInv /\ LiveInv /\ [Next]_vars => LiveInv'
<1> SUFFICES ASSUME TypeOK, PlaceInv, LiveInv, [Next]_vars PROVE LiveInv'
  OBVIOUS
<1>1. CASE PowerFailure
  BY <1>1, ResetLive DEF PowerFailure
<1>2. CASE UNCHANGED vars
  BY <1>2 DEF vars, registers, requests, flash, network, bounds, history,
       LiveInv, CommitLive, UdpLive, BootLive, LiveIsStored, Committing, Storing, Wiping
<1>3. QED
  BY <1>1, <1>2, LiveBoot, LiveFlash, LiveNet, LiveFactory, LiveClients DEF Next

(* While neither task stores, the controller uses what it will use after a *)
(* restart, except leases, the mode and an untested address of a UDP       *)
(* command, and addresses that two tasks have stored at once.              *)
THEOREM UsedIsStored == Spec => []LiveIsStored
<1>1. Init => TypeOK /\ PlaceInv /\ LiveInv
  BY TypeInit, LiveInit
<1>2. TypeOK /\ PlaceInv /\ LiveInv /\ [Next]_vars => (TypeOK /\ PlaceInv /\ LiveInv)'
  BY TypeStep, PlaceStep, LiveStep
<1>3. LiveInv => LiveIsStored
  BY DEF LiveInv
<1>4. QED
  BY <1>1, <1>2, <1>3, PTL DEF Spec
-----------------------------------------------------------------------------
(* NetConfig implements OfferedStore.  What the steps of its tasks mean     *)
(* there, whichever task it is:                                            *)

(* - nothing,                                                              *)
LEMMA Stutters ==
  ASSUME UNCHANGED <<eeprom, since, before>>, Busy' <=> Busy
  PROVE  UNCHANGED Offered!vars
<1>1. Busy' = Busy
  BY DEF Busy, Committing, Storing, Wiping
<1> QED
  BY <1>1 DEF Offered!vars

(* - an offer,                                                             *)
LEMMA Begins ==
  ASSUME TypeOK, TypeOK', NEW new \in [Fields -> SUBSET Values], Offer(new),
         \A f \in Fields : new[f] # {}, Busy', UNCHANGED eeprom
  PROVE  Offered!Begin
<1>1. \A f \in Fields : since'[f] # {} /\ (Busy => since[f] \subseteq since'[f])
  BY DEF Offer
<1>2. \A f \in Fields : before'[f] = since[f] \cup IF Busy THEN before[f] ELSE {}
  BY DEF Offer
<1>3. Busy' = TRUE
  BY DEF Busy, Committing, Storing, Wiping
<1> QED
  BY <1>1, <1>2, <1>3 DEF Offered!Begin, TypeOK

(* - another value for a task at work,                                     *)
LEMMA Extends ==
  ASSUME TypeOK', Busy, Busy', \A f \in Fields : since[f] \subseteq since'[f],
         UNCHANGED <<eeprom, before>>
  PROVE  Offered!Extend
<1>1. Busy' = Busy
  BY DEF Busy, Committing, Storing, Wiping
<1> QED
  BY <1>1 DEF Offered!Extend, TypeOK

(* - a byte, perhaps the last one,                                         *)
LEMMA Writes ==
  ASSUME StoredInv', NEW f \in Fields, NEW v \in since[f], Busy,
         eeprom' = [eeprom EXCEPT ![f] = v], UNCHANGED since, Busy' => UNCHANGED before
  PROVE  Offered!Write(f)
<1>1. CASE Busy'
  <2>1. Busy' = Busy
    BY <1>1 DEF Busy, Committing, Storing, Wiping
  <2> QED
    BY <1>1, <2>1 DEF Offered!Write
<1>2. CASE ~Busy'
  <2>1. Busy' = FALSE
    BY <1>2 DEF Busy, Committing, Storing, Wiping
  <2>2. \A g \in Fields : eeprom'[g] \in since[g]
    BY <1>2 DEF StoredInv, Recoverable
  <2>3. Offered!Leave
    BY <2>1, <2>2 DEF Offered!Leave
  <2> QED
    BY <2>3 DEF Offered!Write
<1> QED
  BY <1>1, <1>2

(* - the end of a task, perhaps the last one,                              *)
LEMMA Finishes ==
  ASSUME StoredInv', Busy, UNCHANGED <<eeprom, since, before>>
  PROVE  Offered!Finish \/ UNCHANGED Offered!vars
<1>1. CASE Busy'
  BY <1>1, Stutters
<1>2. CASE ~Busy'
  <2>1. Busy' = FALSE
    BY <1>2 DEF Busy, Committing, Storing, Wiping
  <2>2. \A g \in Fields : eeprom'[g] \in since[g]
    BY <1>2 DEF StoredInv, Recoverable
  <2>3. Offered!Leave
    BY <2>1, <2>2 DEF Offered!Leave
  <2> QED
    BY <2>3 DEF Offered!Finish
<1> QED
  BY <1>1, <1>2

(* - or a restart, which cuts off who is at work.                          *)
LEMMA Crashes ==
  ASSUME TypeOK, Reset(FALSE), UNCHANGED eeprom
  PROVE  Offered!Crash \/ UNCHANGED Offered!vars
<1>1. Busy' = FALSE
  BY DEF Reset, Busy, Committing, Storing, Wiping
<1>2. since' = [f \in Fields |-> since[f] \cup IF Busy THEN before[f] ELSE {}]
  BY DEF Reset
<1>3. CASE Busy
  BY <1>1, <1>2, <1>3 DEF Offered!Crash
<1>4. CASE ~Busy
  <2>1. Busy' = Busy
    BY <1>1, <1>4 DEF Busy, Committing, Storing, Wiping
  <2>2. since' = since
    BY <1>2, <1>4 DEF TypeOK
  <2> QED
    BY <1>1, <1>4, <2>1, <2>2 DEF Offered!vars
<1> QED
  BY <1>3, <1>4

StepInv == TypeOK /\ PlaceInv /\ StoredInv
Mapped == [Offered!Next]_(Offered!vars)

LEMMA MappedBoot ==
  ASSUME StepInv, StepInv', Boot
  PROVE  Mapped
<1> USE FieldFacts DEF StepInv
<1>1. Booting => ~Storing /\ ~Wiping
  BY DEF PlaceInv, Storing
<1>2. CASE BootLoad /\ pc' = "default"
  <2>1. /\ pc = "load" /\ before' = since /\ eeprom' = eeprom
        /\ since' = [f \in Fields |-> IF f \in Octets THEN {Default[f]} ELSE since[f]]
    BY <1>2, Zenon DEF BootLoad
  <2>2. Busy = FALSE /\ Busy' = TRUE
    BY <1>1, <1>2, <2>1 DEF Busy, Booting, Committing, Storing, Wiping
  <2>3. \A f \in Fields : since'[f] # {}
    BY <2>1, <2>2 DEF StoredInv, Recoverable
  <2>4. since' \in [Fields -> SUBSET Values]
    BY DEF TypeOK
  <2>5. /\ ~Busy
        /\ [f \in Fields |-> IF Busy THEN before[f] ELSE {}]'
           = [f \in Fields |-> since[f] \cup [g \in Fields |-> IF Busy THEN before[g] ELSE {}][f]]
    BY <2>1, <2>2
  <2>6. Offered!Begin
    BY <2>1, <2>2, <2>3, <2>4, <2>5 DEF Offered!Begin
  <2> QED
    BY <2>6 DEF Mapped, Offered!Next
<1>3. CASE BootLoad /\ pc' # "default"
  <2>1. pc = "load" /\ pc' = "mode" /\ UNCHANGED <<eeprom, since, before, network>>
    BY <1>3, Zenon DEF BootLoad
  <2>2. Busy' <=> Busy
    BY <2>1 DEF Busy, Committing, Storing, Wiping, network
  <2> QED
    BY <2>1, <2>2, Stutters DEF Mapped
<1>4. CASE BootDefault
  <2>1. /\ pc = "default" /\ Busy /\ field \in Octets
        /\ eeprom' = [eeprom EXCEPT ![field] = Default[field]]
        /\ UNCHANGED <<since, before>>
    BY <1>4 DEF BootDefault, Busy, PlaceInv, history
  <2>2. Default[field] \in since[field]
    BY <2>1 DEF StoredInv, BootInv
  <2>3. Offered!Write(field)
    BY <2>1, <2>2, Writes
  <2> QED
    BY <2>1, <2>3 DEF Mapped, Offered!Next
<1>5. CASE BootMode /\ eeprom[Mode] > 1
  <2>1. /\ pc = "mode" /\ pc' = "start" /\ UNCHANGED network
        /\ eeprom' = [eeprom EXCEPT ![Mode] = 0] /\ since' = [since EXCEPT ![Mode] = {0}]
    BY <1>5, Zenon DEF BootMode
  <2>2. Busy = FALSE /\ Busy' = FALSE
    BY <1>1, <2>1 DEF Busy, Booting, Committing, Storing, Wiping, network
  <2>3. eeprom[Mode] \notin {0, 1}
    BY <1>5 DEF TypeOK
  <2>4. Offered!Repair(Mode)
    BY <2>1, <2>2, <2>3 DEF Offered!Repair
  <2> QED
    BY <2>4 DEF Mapped, Offered!Next
<1>6. CASE BootMode /\ ~(eeprom[Mode] > 1)
  <2>1. /\ pc = "mode" /\ pc' = "start" /\ UNCHANGED <<network, since, before>>
        /\ eeprom' = [eeprom EXCEPT ![Mode] = eeprom[Mode]]
    BY <1>6, Zenon DEF BootMode
  <2>2. eeprom' = eeprom
    BY <2>1 DEF TypeOK
  <2>3. Busy' <=> Busy
    BY <2>1 DEF Busy, Committing, Storing, Wiping, network
  <2> QED
    BY <2>1, <2>2, <2>3, Stutters DEF Mapped
<1> QED
  BY <1>2, <1>3, <1>4, <1>5, <1>6 DEF Boot

LEMMA MappedFlash ==
  ASSUME StepInv, StepInv', Flash
  PROVE  Mapped
<1> USE DEF StepInv
<1> DEFINE new == [f \in Fields |-> {ghost[f]}]
<1>1. CASE CommitBegin
  <2>1. Offer(new) /\ pc' = "copy" /\ UNCHANGED eeprom
    BY <1>1, Zenon DEF CommitBegin
  <2>2. new \in [Fields -> SUBSET Values] /\ \A f \in Fields : new[f] # {}
    BY DEF TypeOK
  <2>3. Busy'
    BY <2>1 DEF Busy, Committing
  <2> HIDE DEF new
  <2>4. Offered!Begin
    BY <2>1, <2>2, <2>3, Begins
  <2> QED
    BY <2>4 DEF Mapped, Offered!Next
<1>2. CASE CommitStore
  <2>1. /\ pc = "store" /\ Busy /\ field \in Fields
        /\ eeprom' = [eeprom EXCEPT ![field] = byte] /\ UNCHANGED <<since, before>>
    BY <1>2 DEF CommitStore, Busy, Committing, TypeOK, history
  <2>2. byte \in since[field]
    BY <2>1 DEF StoredInv, CommitInv
  <2>3. Offered!Write(field)
    BY <2>1, <2>2, Writes
  <2> QED
    BY <2>1, <2>3 DEF Mapped, Offered!Next
<1>3. CASE CommitFinish
  <2>1. Busy /\ UNCHANGED <<eeprom, since, before>>
    BY <1>3 DEF CommitFinish, Busy, Committing, history
  <2> QED
    BY <2>1, Finishes DEF Mapped, Offered!Next
<1>4. CASE FlashStart \/ CommitCopy \/ CommitFetch
  <2>1. UNCHANGED <<eeprom, since, before, network>> /\ (Committing' <=> Committing)
        /\ (pc' = "default" <=> pc = "default")
    BY <1>4 DEF FlashStart, CommitCopy, CommitFetch, Committing, history
  <2>2. Busy' <=> Busy
    BY <2>1 DEF Busy, Storing, Wiping, network
  <2> QED
    BY <2>1, <2>2, Stutters DEF Mapped
<1> QED
  BY <1>1, <1>2, <1>3, <1>4 DEF Flash

LEMMA MappedNet ==
  ASSUME StepInv, StepInv', Net
  PROVE  Mapped
<1> USE FieldFacts DEF StepInv
<1>1. CASE NetTurn /\ count + 1 = Turns
  <2>1. Reset(FALSE) /\ UNCHANGED eeprom
    BY <1>1, Zenon DEF NetTurn
  <2> QED
    BY <2>1, Crashes DEF Mapped, Offered!Next
<1>2. CASE NetTurn /\ count + 1 # Turns
  <2>1. UNCHANGED <<eeprom, flash, network, history>>
    BY <1>2, Zenon DEF NetTurn
  <2>2. Busy' <=> Busy
    BY <2>1 DEF Busy, Committing, Storing, Wiping, flash, network
  <2> QED
    BY <2>1, <2>2, Stutters DEF Mapped, history
<1>3. CASE UdpFetch
  <2>1. UNCHANGED <<eeprom, flash, wiped, history>> /\ Storing /\ Storing'
    BY <1>3 DEF UdpFetch, Storing
  <2>2. Busy' <=> Busy
    BY <2>1 DEF Busy, Committing, Wiping, flash
  <2> QED
    BY <2>1, <2>2, Stutters DEF Mapped, history
<1>4. CASE UdpStore
  <2>1. /\ net = "store" /\ Storing /\ Busy
        /\ eeprom' = [eeprom EXCEPT ![netField] = netByte] /\ UNCHANGED <<since, before>>
    BY <1>4 DEF UdpStore, Busy, Storing, history
  <2>2. netField \in Fields /\ netByte \in since[netField]
    BY <2>1 DEF StoredInv, UdpInv, PlaceInv
  <2>3. Offered!Write(netField)
    BY <2>1, <2>2, Writes
  <2> QED
    BY <2>2, <2>3 DEF Mapped, Offered!Next
<1> QED
  BY <1>1, <1>2, <1>3, <1>4 DEF Net

LEMMA MappedFactory ==
  ASSUME StepInv, StepInv', FactoryStore
  PROVE  Mapped
<1> USE FieldFacts DEF StepInv
<1>1. /\ Wiping /\ Busy /\ wiped \in Fields
      /\ eeprom' = [eeprom EXCEPT ![wiped] = Factory[wiped]]
  BY DEF FactoryStore, Busy, Wiping, TypeOK
<1>2. Factory[wiped] \in since[wiped]
  BY <1>1 DEF StoredInv, WipeInv
<1>3. UNCHANGED since /\ (Busy' => UNCHANGED before)
  <2>1. CASE wiped < NumOctets
    BY <2>1, Zenon DEF FactoryStore, history
  <2>2. CASE ~(wiped < NumOctets)
    <3>1. Reset(TRUE)
      BY <2>2, Zenon DEF FactoryStore
    <3>2. ~Busy'
      BY <3>1 DEF Reset, Busy, Committing, Storing, Wiping
    <3>3. since' = [f \in Fields |-> since[f]]
      BY <3>1 DEF Reset
    <3> QED
      BY <3>2, <3>3 DEF TypeOK
  <2> QED
    BY <2>1, <2>2
<1>4. Offered!Write(wiped)
  BY <1>1, <1>2, <1>3, Writes
<1> QED
  BY <1>1, <1>4 DEF Mapped, Offered!Next

LEMMA MappedUdp ==
  ASSUME StepInv, StepInv', NEW a \in [Octets -> Values], UdpCommand(a)
  PROVE  Mapped
<1> USE FieldFacts DEF StepInv
<1> DEFINE new == [f \in Fields |-> IF f \in Octets THEN {a[f]}
                                    ELSE since[f] \cup IF Busy THEN {0} ELSE {}]
<1>1. CASE Offer(new) /\ (net' = "fetch" \/ Busy)
  <2>1. new \in [Fields -> SUBSET Values]
    BY DEF TypeOK
  <2>2. \A f \in Fields : new[f] # {}
    BY DEF StoredInv, Recoverable
  <2>3. /\ UNCHANGED <<eeprom, flash, wiped>>
        /\ net = "poll" /\ (net' = "fetch" \/ net' = net)
    BY Zenon DEF UdpCommand
  <2>4. Busy'
    BY <1>1, <2>3 DEF Busy, Committing, Storing, Wiping, flash
  <2> HIDE DEF new
  <2>5. Offered!Begin
    BY <1>1, <2>1, <2>2, <2>3, <2>4, Begins
  <2> QED
    BY <2>5 DEF Mapped, Offered!Next
<1>2. CASE ~(Offer(new) /\ (net' = "fetch" \/ Busy))
  <2>1. UNCHANGED <<eeprom, flash, net, wiped, since, before>>
    BY <1>2, Zenon DEF UdpCommand
  <2>2. Busy' <=> Busy
    BY <2>1 DEF Busy, Committing, Storing, Wiping, flash
  <2> QED
    BY <2>1, <2>2, Stutters DEF Mapped
<1> QED
  BY <1>1, <1>2

LEMMA MappedClients ==
  ASSUME StepInv, StepInv', Clients
  PROVE  Mapped
<1> USE FieldFacts DEF StepInv
<1>1. ASSUME UNCHANGED <<eeprom, before, flash, network>>,
             UNCHANGED since \/ (Committing /\ \A f \in Fields : since[f] \subseteq since'[f])
      PROVE  Mapped
  <2>1. Busy' <=> Busy
    BY <1>1 DEF Busy, Committing, Storing, Wiping, flash, network
  <2>2. CASE UNCHANGED since
    BY <1>1, <2>1, <2>2, Stutters DEF Mapped
  <2>3. CASE Committing /\ \A f \in Fields : since[f] \subseteq since'[f]
    <3>1. Offered!Extend
      BY <1>1, <2>1, <2>3, Extends DEF Busy
    <3> QED
      BY <3>1 DEF Mapped, Offered!Next
  <2> QED
    BY <1>1, <2>2, <2>3
<1>2. ASSUME NEW f \in Fields, NEW v, SetGhost(f, v)
      PROVE  UNCHANGED since \/ (Committing /\ \A g \in Fields : since[g] \subseteq since'[g])
  BY <1>2 DEF SetGhost, TypeOK
<1>3. ASSUME NEW a \in [Octets -> Values], UdpCommand(a) PROVE Mapped
  BY <1>3, MappedUdp
<1>4. ASSUME NEW a \in [Octets -> Values], dhcpc_configured(a) PROVE Mapped
  <2>1. /\ UNCHANGED <<eeprom, before, flash, network>>
        /\ since' = [f \in Fields |-> IF f \in Octets /\ Committing THEN since[f] \cup {a[f]} ELSE since[f]]
    BY <1>4 DEF dhcpc_configured
  <2>2. UNCHANGED since \/ (Committing /\ \A f \in Fields : since[f] \subseteq since'[f])
    BY <2>1 DEF TypeOK
  <2> QED
    BY <1>1, <2>1, <2>2
<1>5. ASSUME NEW f \in Fields, NEW v \in Values, WriteGhost(f, v) PROVE Mapped
  BY <1>1, <1>2, <1>5 DEF WriteGhost, SetGhost
<1>6. ASSUME NEW b \in BOOLEAN, WriteGhostSystem(b) PROVE Mapped
  BY <1>1, <1>6 DEF WriteGhostSystem, history
<1>7. ASSUME NEW v \in {0, 1}, MenuMode(v) PROVE Mapped
  BY <1>1, <1>2, <1>7 DEF MenuMode, SetGhost
<1>8. CASE MenuDisable
  <2>1. /\ UNCHANGED <<eeprom, before, flash, network>>
        /\ since' = IF Committing THEN [f \in Fields |-> since[f] \cup {live[f]}] ELSE since
    BY <1>8 DEF MenuDisable
  <2>2. UNCHANGED since \/ (Committing /\ \A f \in Fields : since[f] \subseteq since'[f])
    BY <2>1
  <2> QED
    BY <1>1, <2>1, <2>2
<1>9. CASE AskRestart
  BY <1>1, <1>9 DEF AskRestart, history
<1>10. CASE UpdateRestart
  BY <1>10, Crashes DEF UpdateRestart, Mapped, Offered!Next
<1>11. CASE FactoryBegin
  <2> DEFINE new == [f \in Fields |-> {Factory[f]}]
  <2>1. Offer(new) /\ wiped' = Mode /\ UNCHANGED eeprom
    BY <1>11, Zenon DEF FactoryBegin
  <2>2. new \in [Fields -> SUBSET Values] /\ \A f \in Fields : new[f] # {}
    BY ConfigAssumption DEF Fields
  <2>3. Busy'
    BY <2>1 DEF Busy, Wiping
  <2> HIDE DEF new
  <2>4. Offered!Begin
    BY <2>1, <2>2, <2>3, Begins
  <2> QED
    BY <2>4 DEF Mapped, Offered!Next
<1> QED
  BY <1>3, <1>4, <1>5, <1>6, <1>7, <1>8, <1>9, <1>10, <1>11 DEF Clients

LEMMA MappedInit == Init => Offered!Init
<1> SUFFICES ASSUME Init PROVE Offered!Init
  OBVIOUS
<1>1. Busy = FALSE
  BY DEF Init, Busy, Committing, Storing, Wiping
<1>2. eeprom = [f \in Fields |-> 255] /\ since = [f \in Fields |-> {255}]
  BY DEF Init
<1> QED
  BY <1>1, <1>2, FieldFacts DEF Offered!Init

LEMMA MappedStep == StepInv /\ StepInv' /\ [Next]_vars => Mapped
<1> SUFFICES ASSUME StepInv, StepInv', [Next]_vars PROVE Mapped
  OBVIOUS
<1>1. CASE PowerFailure
  BY <1>1, Crashes DEF PowerFailure, StepInv, Mapped, Offered!Next
<1>2. CASE UNCHANGED vars
  <2>1. UNCHANGED <<eeprom, flash, network, history>>
    BY <1>2 DEF vars
  <2>2. Busy' <=> Busy
    BY <2>1 DEF Busy, Committing, Storing, Wiping, flash, network
  <2> QED
    BY <2>1, <2>2, Stutters DEF Mapped, history
<1> QED
  BY <1>1, <1>2, MappedBoot, MappedFlash, MappedNet, MappedFactory, MappedClients DEF Next

(* The EEPROM is written by the boot, the flash task, the network task and  *)
(* the factory reset without a lock, and cut off by restarts; all the same  *)
(* it changes only while one of them stores, only to what one of them was   *)
(* given, and holds nothing else once the last of them is done.            *)
THEOREM ImplementsOffered == Spec => OfferSpec
<1>1. Init => StepInv
  BY TypeInit, StoredInit DEF StepInv
<1>2. StepInv /\ [Next]_vars => StepInv'
  BY TypeStep, PlaceStep, StoredStep DEF StepInv
<1>3. StepInv /\ StepInv' /\ [Next]_vars => [Offered!Next]_(Offered!vars)
  BY MappedStep DEF Mapped
<1> QED
  BY <1>1, <1>2, <1>3, MappedInit, PTL DEF Spec, OfferSpec, Offered!Spec
=============================================================================
