---------------------------- MODULE KeypadProofs ----------------------------
(* What is proved about the keys and the menus, for every password, queue  *)
(* and time: types, the lock of the settings, and that an edit is fresh.    *)
EXTENDS Keypad, TLAPS

LEMMA UpInRange ==
  ASSUME NEW n \in Nat, NEW last \in Nat
  PROVE  Up(n, last) \in 0 .. last /\ Down(n, last) \in 0 .. last
BY DEF Up, Down

(* The variables of the menu, apart from those of the keys. *)
MenuTyped ==
  /\ menu \in {"idle", "main", "conf"} /\ waited \in 0 .. BlockTime - 1
  /\ menu_password \in BOOLEAN /\ in_sub_menu \in BOOLEAN /\ proven \in BOOLEAN
  /\ password_buffer \in [DOMAIN user_password -> 0 .. Star]
  /\ password_index \in DOMAIN user_password
  /\ item_index \in Items /\ loaded \in Items \cup {NoItem}
  /\ value \in 0 .. MaxValue /\ set_value \in 0 .. MaxValue /\ use_password \in {0, 1}

(* One digit of the password is changed. *)
LEMMA DigitChanged ==
  ASSUME NEW k, KeypadAssumption, MenuTyped
  PROVE  [password_buffer EXCEPT ![password_index] =
            IF k = "up" THEN Up(@, MaxDigit) ELSE Down(@, MaxDigit)]
           \in [DOMAIN user_password -> 0 .. Star]
<1> DEFINE old == password_buffer[password_index]
           new == IF k = "up" THEN Up(old, MaxDigit) ELSE Down(old, MaxDigit)
<1>1. MaxDigit \in Nat BY DEF KeypadAssumption
<1>2. old \in 0 .. Star BY DEF MenuTyped
<1>3. old \in Nat BY <1>1, <1>2 DEF Star
<1>4. new \in 0 .. MaxDigit
  <2> HIDE DEF old
  <2> QED BY <1>1, <1>3, UpInRange
<1>5. new \in 0 .. Star BY <1>1, <1>4 DEF Star
<1> HIDE DEF new
<1>6. [password_buffer EXCEPT ![password_index] = new] \in [DOMAIN user_password -> 0 .. Star]
  BY <1>5 DEF MenuTyped
<1> QED BY <1>6 DEF new
-----------------------------------------------------------------------------
(* The lock: a menu that is open, or whose password is given, has it        *)
(* proven, and MenuIdle forgets it.                                        *)
Guarded ==
  /\ menu = "conf" => proven
  /\ menu = "main" /\ menu_password => proven
  /\ menu = "idle" => ~menu_password

(* An edit, also one that was broken off, is in the range of its setting.   *)
EditInRange == in_sub_menu => set_value \in 0 .. Range(item_index)

MenuInv == MenuTyped /\ Guarded /\ EditInRange /\ EditFresh

LEMMA Idling ==
  ASSUME KeypadAssumption, MenuInv, Idle_init
  PROVE  MenuInv'
<1>1. menu' = "idle" /\ menu_password' = FALSE /\ proven' = FALSE /\ waited' = 0 BY DEF Idle_init
<1>2. UNCHANGED <<password_buffer, password_index, in_sub_menu, item_index, set_value, value,
                  use_password, loaded>>
  BY DEF Idle_init, edit, config
<1>3. waited' \in 0 .. BlockTime - 1 BY <1>1 DEF KeypadAssumption
<1>4. MenuTyped' BY <1>1, <1>2, <1>3 DEF MenuInv, MenuTyped
<1>5. EditInRange' BY <1>2 DEF MenuInv, EditInRange, Range
<1>6. Guarded' /\ EditFresh' BY <1>1 DEF Guarded, EditFresh
<1> QED BY <1>4, <1>5, <1>6 DEF MenuInv

LEMMA Started == KeypadAssumption => Digits \in [DOMAIN user_password -> 0 .. Star] /\ 1 \in DOMAIN user_password
<1> SUFFICES ASSUME KeypadAssumption
             PROVE  Digits \in [DOMAIN user_password -> 0 .. Star] /\ 1 \in DOMAIN user_password
  OBVIOUS
<1>1. Star \in 0 .. Star BY DEF KeypadAssumption, Star
<1>2. user_password \in Seq(0 .. MaxDigit) /\ Len(user_password) > 0 BY DEF KeypadAssumption
<1>3. 1 \in DOMAIN user_password BY <1>2
<1> QED BY <1>1, <1>3 DEF Digits

LEMMA AskedFor ==
  ASSUME KeypadAssumption, MenuTyped, NEW given \in BOOLEAN, Co2_Main_init(given)
  PROVE  /\ menu_password' \in BOOLEAN
         /\ menu_password' <=> given \/ use_password = 0
         /\ password_buffer' \in [DOMAIN user_password -> 0 .. Star]
         /\ password_index' \in DOMAIN user_password
<1>1. menu_password' = (given \/ use_password = 0) BY DEF Co2_Main_init
<1>2. CASE menu_password'
  BY <1>1, <1>2 DEF Co2_Main_init, MenuTyped
<1>3. CASE ~menu_password'
  <2>1. password_buffer' = Digits /\ password_index' = 1 BY <1>3 DEF Co2_Main_init
  <2> QED BY <1>1, <2>1, Started
<1> QED BY <1>2, <1>3

LEMMA Returning ==
  ASSUME KeypadAssumption, MenuInv, Main, menu \in {"idle", "conf"}
  PROVE  MenuInv'
<1>1. menu_password \in BOOLEAN BY DEF MenuInv, MenuTyped
<1>2. Co2_Main_init(menu_password) BY DEF Main
<1>3. /\ menu_password' \in BOOLEAN
      /\ menu_password' <=> menu_password \/ use_password = 0
      /\ password_buffer' \in [DOMAIN user_password -> 0 .. Star]
      /\ password_index' \in DOMAIN user_password
  BY <1>1, <1>2, AskedFor DEF MenuInv
<1>4. menu' = "main" /\ waited' = 0 /\ proven' = (proven \/ use_password = 0)
  BY DEF Main
<1>5. UNCHANGED <<in_sub_menu, item_index, set_value, value, use_password, loaded>>
  BY DEF Main, edit, config
<1>6. MenuTyped'
  <2>1. waited' \in 0 .. BlockTime - 1 BY <1>4 DEF KeypadAssumption
  <2>2. proven' \in BOOLEAN BY <1>4
  <2> QED BY <1>3, <1>4, <1>5, <2>1, <2>2 DEF MenuInv, MenuTyped
<1>7. Guarded'
  <2>1. menu = "conf" => proven BY DEF MenuInv, Guarded
  <2>2. menu = "idle" => ~menu_password BY DEF MenuInv, Guarded
  <2>3. menu_password' => proven' BY Zenon, <1>3, <1>4, <2>1, <2>2
  <2> QED BY <1>4, <2>3 DEF Guarded
<1>8. EditInRange' BY <1>5 DEF MenuInv, EditInRange, Range
<1>9. EditFresh' BY <1>4 DEF EditFresh
<1> QED BY <1>6, <1>7, <1>8, <1>9 DEF MenuInv

LEMMA Entering ==
  ASSUME KeypadAssumption, MenuInv, Conf_init, menu = "main", menu_password
  PROVE  MenuInv'
<1>1. proven BY DEF MenuInv, Guarded
<1>2. menu' = "conf" /\ in_sub_menu' = FALSE /\ loaded' = NoItem /\ waited' = 0 BY DEF Conf_init
<1>3. UNCHANGED <<menu_password, password_buffer, password_index, item_index, set_value, value,
                  use_password, proven>>
  BY DEF Conf_init, entry, config
<1>4. waited' \in 0 .. BlockTime - 1 BY <1>2 DEF KeypadAssumption
<1>5. MenuTyped' BY <1>2, <1>3, <1>4 DEF MenuInv, MenuTyped
<1>6. Guarded' BY <1>1, <1>2, <1>3 DEF Guarded
<1>7. EditInRange' /\ EditFresh' BY <1>2 DEF EditInRange, EditFresh
<1> QED BY <1>5, <1>6, <1>7 DEF MenuInv
-----------------------------------------------------------------------------
(* A key that leaves the menu where it is. *)
LEMMA StaysPut ==
  ASSUME KeypadAssumption, MenuInv, Nothing
  PROVE  MenuInv'
<1>1. waited' \in 0 .. BlockTime - 1 BY DEF Nothing, Stay, KeypadAssumption
<1>2. UNCHANGED <<menu, menu_password, password_buffer, password_index, in_sub_menu, item_index,
                  set_value, value, use_password, proven, loaded>>
  BY DEF Nothing, Stay, entry, edit, config, marks
<1>3. MenuTyped' BY <1>1, <1>2 DEF MenuInv, MenuTyped
<1>4. Guarded' /\ EditInRange' /\ EditFresh'
  BY <1>2 DEF MenuInv, Guarded, EditInRange, EditFresh, Range
<1> QED BY <1>3, <1>4 DEF MenuInv

LEMMA PasswordKey ==
  ASSUME KeypadAssumption, MenuInv, menu = "main", ~menu_password, NEW k, Password_keycope(k)
  PROVE  MenuInv'
<1>1. CASE k = "left" /\ password_index = 1 /\ Idle_init BY <1>1, Idling
<1>2. CASE /\ k \in {"up", "down"} /\ Stay
           /\ password_buffer' = [password_buffer EXCEPT ![password_index] =
                                    IF k = "up" THEN Up(@, MaxDigit) ELSE Down(@, MaxDigit)]
           /\ UNCHANGED <<menu_password, password_index, edit, config, marks>>
  <2>1. password_buffer' \in [DOMAIN user_password -> 0 .. Star] BY <1>2, DigitChanged DEF MenuInv
  <2>2. waited' \in 0 .. BlockTime - 1 /\ menu' = menu BY <1>2 DEF Stay, KeypadAssumption
  <2>3. UNCHANGED <<menu_password, password_index, in_sub_menu, item_index, set_value, value,
                    use_password, proven, loaded>>
    BY <1>2 DEF edit, config, marks
  <2>4. MenuTyped' BY <2>1, <2>2, <2>3 DEF MenuInv, MenuTyped
  <2>5. Guarded' /\ EditInRange' /\ EditFresh'
    BY <2>2, <2>3 DEF MenuInv, Guarded, EditInRange, EditFresh, Range
  <2> QED BY <2>4, <2>5 DEF MenuInv
<1>3. CASE /\ \/ k = "left" /\ password_index > 1 /\ password_index' = password_index - 1
              \/ /\ k = "right" /\ password_index < Len(user_password)
                 /\ password_index' = password_index + 1
           /\ Stay /\ UNCHANGED <<menu_password, password_buffer, edit, config, marks>>
  <2>1. DOMAIN user_password = 1 .. Len(user_password) /\ Len(user_password) \in Nat
    BY DEF KeypadAssumption
  <2>2. password_index' \in DOMAIN user_password BY <1>3, <2>1 DEF MenuInv, MenuTyped
  <2>3. waited' \in 0 .. BlockTime - 1 /\ menu' = menu BY <1>3 DEF Stay, KeypadAssumption
  <2>4. UNCHANGED <<menu_password, password_buffer, in_sub_menu, item_index, set_value, value,
                    use_password, proven, loaded>>
    BY <1>3 DEF edit, config, marks
  <2>5. MenuTyped' BY <2>2, <2>3, <2>4 DEF MenuInv, MenuTyped
  <2>6. Guarded' /\ EditInRange' /\ EditFresh'
    BY <2>3, <2>4 DEF MenuInv, Guarded, EditInRange, EditFresh, Range
  <2> QED BY <2>5, <2>6 DEF MenuInv
<1>4. CASE /\ k = "right" /\ password_index = Len(user_password) /\ Stay
           /\ Co2_Main_init(password_buffer = user_password)
           /\ proven' = (use_password = 0 \/ password_buffer = user_password)
           /\ UNCHANGED <<edit, config, loaded>>
  <2> DEFINE given == password_buffer = user_password
  <2>1. given \in BOOLEAN OBVIOUS
  <2>2. /\ menu_password' \in BOOLEAN
        /\ menu_password' <=> given \/ use_password = 0
        /\ password_buffer' \in [DOMAIN user_password -> 0 .. Star]
        /\ password_index' \in DOMAIN user_password
    BY <1>4, <2>1, AskedFor DEF MenuInv
  <2>3. waited' \in 0 .. BlockTime - 1 /\ menu' = menu BY <1>4 DEF Stay, KeypadAssumption
  <2>4. UNCHANGED <<in_sub_menu, item_index, set_value, value, use_password, loaded>>
    BY <1>4 DEF edit, config
  <2>5. proven' \in BOOLEAN /\ (menu_password' => proven') BY Zenon, <1>4, <2>2
  <2>6. MenuTyped' BY <2>2, <2>3, <2>4, <2>5 DEF MenuInv, MenuTyped
  <2>7. Guarded' BY <2>3, <2>5 DEF Guarded
  <2>8. EditInRange' /\ EditFresh' BY <2>3, <2>4 DEF MenuInv, EditInRange, EditFresh, Range
  <2> QED BY <2>6, <2>7, <2>8 DEF MenuInv
<1> QED BY Zenon, <1>1, <1>2, <1>3, <1>4 DEF Password_keycope

LEMMA SelectKey ==
  ASSUME KeypadAssumption, MenuInv, menu = "conf", ~in_sub_menu, NEW k, Select_keycope(k)
  PROVE  MenuInv'
<1>1. CASE k = "left" /\ Main BY <1>1, Returning
<1>2. CASE /\ k = "right" /\ Stay
           /\ in_sub_menu' = TRUE /\ loaded' = item_index
           /\ set_value' = IF item_index = 0 THEN value ELSE use_password
           /\ UNCHANGED <<entry, item_index, config, proven>>
  <2>1. waited' \in 0 .. BlockTime - 1 /\ menu' = menu BY <1>2 DEF Stay, KeypadAssumption
  <2>2. UNCHANGED <<menu_password, password_buffer, password_index, item_index, value,
                    use_password, proven>>
    BY <1>2 DEF entry, config
  <2>3. /\ item_index \in Items /\ value \in 0 .. MaxValue /\ use_password \in {0, 1}
        /\ MaxValue \in Nat \ {0}
    BY DEF MenuInv, MenuTyped, KeypadAssumption
  <2>4. set_value' \in 0 .. Range(item_index) /\ set_value' \in 0 .. MaxValue
    BY <1>2, <2>3 DEF Range
  <2>5. loaded' \in Items \cup {NoItem} BY <1>2, <2>3
  <2>6. MenuTyped' BY <1>2, <2>1, <2>2, <2>4, <2>5 DEF MenuInv, MenuTyped
  <2>7. Guarded' BY <2>1, <2>2 DEF MenuInv, Guarded
  <2>8. EditInRange' BY <2>2, <2>4 DEF EditInRange, Range
  <2>9. EditFresh' BY <1>2, <2>2 DEF EditFresh
  <2> QED BY <2>6, <2>7, <2>8, <2>9 DEF MenuInv
<1>3. CASE /\ k \in {"up", "down"} /\ Stay
           /\ item_index' = 1 - item_index
           /\ UNCHANGED <<entry, in_sub_menu, set_value, config, marks>>
  <2>1. waited' \in 0 .. BlockTime - 1 /\ menu' = menu BY <1>3 DEF Stay, KeypadAssumption
  <2>2. UNCHANGED <<menu_password, password_buffer, password_index, in_sub_menu, set_value, value,
                    use_password, proven, loaded>>
    BY <1>3 DEF entry, config, marks
  <2>3. item_index' \in Items BY <1>3 DEF MenuInv, MenuTyped, Items
  <2>4. MenuTyped' BY <2>1, <2>2, <2>3 DEF MenuInv, MenuTyped
  <2>5. Guarded' BY <2>1, <2>2 DEF MenuInv, Guarded
  <2>6. EditInRange' /\ EditFresh' BY <2>2 DEF EditInRange, EditFresh
  <2> QED BY <2>4, <2>5, <2>6 DEF MenuInv
<1> QED BY Zenon, <1>1, <1>2, <1>3 DEF Select_keycope

LEMMA EditKey ==
  ASSUME KeypadAssumption, MenuInv, menu = "conf", in_sub_menu, NEW k, Edit_keycope(k)
  PROVE  MenuInv'
<1>1. waited' \in 0 .. BlockTime - 1 /\ menu' = menu
  <2>1. Stay BY Zenon DEF Edit_keycope
  <2> QED BY <2>1 DEF Stay, KeypadAssumption
<1>2. UNCHANGED <<menu_password, password_buffer, password_index, item_index, proven, loaded>>
  BY DEF Edit_keycope, entry, marks
<1>3. Guarded' BY <1>1, <1>2 DEF MenuInv, Guarded
<1>4. set_value \in 0 .. Range(item_index) /\ item_index \in Items /\ loaded = item_index
  BY DEF MenuInv, MenuTyped, EditInRange, EditFresh
<1>5. MaxValue \in Nat \ {0} BY DEF KeypadAssumption
<1>6. CASE /\ k = "left" /\ Stay
           /\ in_sub_menu' = FALSE
           /\ UNCHANGED <<entry, item_index, set_value, config, marks>>
  <2>1. MenuTyped' BY <1>6, <1>1, <1>2 DEF MenuInv, MenuTyped, config
  <2>2. EditInRange' /\ EditFresh' BY <1>6 DEF EditInRange, EditFresh
  <2> QED BY <1>3, <2>1, <2>2 DEF MenuInv
<1>7. CASE /\ k = "right" /\ Stay
           /\ in_sub_menu' = FALSE
           /\ IF item_index = 0
              THEN value' = set_value /\ UNCHANGED use_password
              ELSE use_password' = set_value /\ UNCHANGED value
           /\ UNCHANGED <<entry, item_index, set_value, marks>>
  <2>1. value' \in 0 .. MaxValue /\ use_password' \in {0, 1}
    BY <1>7, <1>4, <1>5 DEF MenuInv, MenuTyped, Range, Items
  <2>2. MenuTyped' BY <1>7, <1>1, <1>2, <2>1 DEF MenuInv, MenuTyped
  <2>3. EditInRange' /\ EditFresh' BY <1>7 DEF EditInRange, EditFresh
  <2> QED BY <1>3, <2>2, <2>3 DEF MenuInv
<1>8. CASE /\ k \in {"up", "down"} /\ Stay
           /\ set_value' = IF k = "up" THEN Up(set_value, Range(item_index))
                           ELSE Down(set_value, Range(item_index))
           /\ UNCHANGED <<entry, in_sub_menu, item_index, config, marks>>
  <2>1. Range(item_index) \in Nat /\ Range(item_index) <= MaxValue
    BY <1>4, <1>5 DEF Range, Items
  <2>2. set_value \in Nat BY <1>4, <2>1
  <2>3. set_value' \in 0 .. Range(item_index)
    <3>1. /\ Up(set_value, Range(item_index)) \in 0 .. Range(item_index)
          /\ Down(set_value, Range(item_index)) \in 0 .. Range(item_index)
      BY <2>1, <2>2, UpInRange
    <3> QED BY Zenon, <1>8, <3>1
  <2>4. set_value' \in 0 .. MaxValue BY <2>1, <2>3, <1>5
  <2>5. MenuTyped' BY <1>8, <1>1, <1>2, <2>4 DEF MenuInv, MenuTyped, config
  <2>6. EditInRange' BY <1>2, <2>3 DEF EditInRange, Range
  <2>7. EditFresh' BY <1>2, <1>4 DEF EditFresh
  <2> QED BY <1>3, <2>5, <2>6, <2>7 DEF MenuInv
<1> QED BY Zenon, <1>6, <1>7, <1>8 DEF Edit_keycope

LEMMA KeyHandled ==
  ASSUME KeypadAssumption, MenuInv, NEW k, KeyCope(k)
  PROVE  MenuInv'
<1>1. CASE Nothing BY <1>1, StaysPut
<1>2. CASE menu = "idle" /\ Idle_keycope(k)
  <2>1. Main \/ Nothing BY <1>2 DEF Idle_keycope
  <2> QED BY <1>2, <2>1, Returning, StaysPut
<1>3. CASE menu = "main" /\ ~menu_password /\ Password_keycope(k) BY <1>3, PasswordKey
<1>4. CASE menu = "main" /\ menu_password /\ Main_keycope(k)
  <2>1. Nothing \/ Idle_init \/ Conf_init BY <1>4 DEF Main_keycope
  <2> QED BY <1>4, <2>1, StaysPut, Idling, Entering
<1>5. CASE menu = "conf" /\ ~in_sub_menu /\ Select_keycope(k) BY <1>5, SelectKey
<1>6. CASE menu = "conf" /\ in_sub_menu /\ Edit_keycope(k) BY <1>6, EditKey
<1> QED BY Zenon, <1>1, <1>2, <1>3, <1>4, <1>5, <1>6 DEF KeyCope
-----------------------------------------------------------------------------
(* The keys and their queue. *)
KeysTyped ==
  /\ held \in Events /\ pre_key \in Events /\ long_press \in 0 .. LongPress
  /\ qKey \in Seq(Events) /\ Len(qKey) <= QueueLen

LEMMA SendTyped ==
  ASSUME KeypadAssumption, KeysTyped, NEW k \in Events, Send(k)
  PROVE  qKey' \in Seq(Events) /\ Len(qKey') <= QueueLen
<1>1. CASE Len(qKey) < QueueLen
  BY <1>1 DEF Send, KeysTyped, KeypadAssumption
<1>2. CASE ~(Len(qKey) < QueueLen)
  BY <1>2 DEF Send, KeysTyped
<1> QED BY <1>1, <1>2

Inv == KeysTyped /\ MenuInv

LEMMA InitInv == KeypadAssumption /\ Init => Inv
<1> SUFFICES ASSUME KeypadAssumption, Init PROVE Inv
  OBVIOUS
<1>1. KeysTyped BY DEF Init, KeysTyped, Events, KEY_NON, KeypadAssumption
<1>2. /\ password_buffer \in [DOMAIN user_password -> 0 .. Star]
      /\ password_index \in DOMAIN user_password
  BY Started DEF Init
<1>3. /\ menu = "idle" /\ waited \in 0 .. BlockTime - 1 /\ item_index \in Items
      /\ loaded \in Items \cup {NoItem}
      /\ value \in 0 .. MaxValue /\ set_value \in 0 .. MaxValue /\ use_password \in {0, 1}
  BY DEF Init, KeypadAssumption, Items
<1>4. menu_password = FALSE /\ in_sub_menu = FALSE /\ proven = FALSE BY DEF Init
<1>5. MenuTyped BY <1>2, <1>3, <1>4 DEF MenuTyped
<1>6. Guarded /\ EditInRange /\ EditFresh BY <1>3, <1>4 DEF Guarded, EditInRange, EditFresh
<1> QED BY <1>1, <1>5, <1>6 DEF Inv, MenuInv

LEMMA MenuKept ==
  ASSUME MenuInv, UNCHANGED <<menu, waited, entry, edit, config, marks>>
  PROVE  MenuInv'
BY DEF MenuInv, MenuTyped, Guarded, EditInRange, EditFresh, Range, entry, edit, config, marks

LEMMA StepInv == KeypadAssumption /\ Inv /\ [Next]_vars => Inv'
<1> SUFFICES ASSUME KeypadAssumption, Inv, [Next]_vars PROVE Inv'
  OBVIOUS
<1>1. CASE Press
  <2>1. KeysTyped' BY <1>1 DEF Press, Inv, KeysTyped
  <2>2. MenuInv' BY <1>1, MenuKept DEF Press, Inv
  <2> QED BY <2>1, <2>2 DEF Inv
<1>2. CASE Scan
  <2>1. MenuInv' BY <1>2, MenuKept DEF Scan, Inv
  <2>2. held \in Events BY DEF Inv, KeysTyped
  <2>3. qKey' \in Seq(Events) /\ Len(qKey') <= QueueLen
    <3>1. Send(held) \/ UNCHANGED qKey BY <1>2 DEF Scan
    <3> QED BY <2>2, <3>1, SendTyped DEF Inv, KeysTyped
  <2>4. held' \in Events /\ pre_key' \in Events /\ long_press' \in 0 .. LongPress
    BY <1>2 DEF Scan, Inv, KeysTyped, KeypadAssumption
  <2> QED BY <2>1, <2>3, <2>4 DEF Inv, KeysTyped
<1>3. CASE Handle
  <2>1. MenuInv' BY <1>3, KeyHandled DEF Handle, Inv
  <2>2. KeysTyped' BY <1>3 DEF Handle, Inv, KeysTyped, keys, KeypadAssumption
  <2> QED BY <2>1, <2>2 DEF Inv
<1>4. CASE Wait
  <2>1. KeysTyped' BY <1>4 DEF Wait, Inv, KeysTyped, keys
  <2>2. CASE Idle_init BY <2>1, <2>2, Idling DEF Inv
  <2>3. CASE waited + 1 < BlockTime /\ waited' = waited + 1
             /\ UNCHANGED <<menu, entry, edit, config, marks>>
    <3>1. waited' \in 0 .. BlockTime - 1 BY <2>3 DEF Inv, MenuInv, MenuTyped, KeypadAssumption
    <3>2. MenuTyped' BY <2>3, <3>1 DEF Inv, MenuInv, MenuTyped, entry, edit, config, marks
    <3>3. Guarded' /\ EditInRange' /\ EditFresh'
      BY <2>3 DEF Inv, MenuInv, Guarded, EditInRange, EditFresh, Range, entry, edit, marks
    <3> QED BY <2>1, <3>2, <3>3 DEF Inv, MenuInv
  <2>4. waited \in Nat /\ BlockTime \in Nat BY DEF Inv, MenuInv, MenuTyped, KeypadAssumption
  <2> QED BY <1>4, <2>2, <2>3, <2>4 DEF Wait
<1>5. CASE ClientPassword
  <2>1. use_password' \in {0, 1} BY <1>5 DEF ClientPassword, Inv, MenuInv, MenuTyped
  <2>2. MenuTyped' BY <1>5, <2>1 DEF ClientPassword, Inv, MenuInv, MenuTyped, entry, edit, marks
  <2>3. Guarded' /\ EditInRange' /\ EditFresh'
    BY <1>5 DEF ClientPassword, Inv, MenuInv, Guarded, EditInRange, EditFresh, Range, entry, edit, marks
  <2>4. KeysTyped' BY <1>5 DEF ClientPassword, Inv, KeysTyped, keys
  <2> QED BY <2>2, <2>3, <2>4 DEF Inv, MenuInv
<1>6. CASE UNCHANGED vars
  <2>1. KeysTyped' BY <1>6 DEF vars, keys, Inv, KeysTyped
  <2>2. MenuInv' BY <1>6, MenuKept DEF vars, Inv
  <2> QED BY <2>1, <2>2 DEF Inv
<1> QED BY <1>1, <1>2, <1>3, <1>4, <1>5, <1>6 DEF Next, MenuTask

LEMMA Invariance == Spec => []Inv
<1>1. Init => Inv BY InitInv, KeypadAssumption
<1>2. Inv /\ [Next]_vars => Inv' BY StepInv, KeypadAssumption
<1> QED BY <1>1, <1>2, PTL DEF Spec

(* The queue never holds more than its room, and the settings, the digits   *)
(* and what is edited stay in their ranges.                                *)
THEOREM TypeCorrect == Spec => []TypeOK
<1>1. Inv => TypeOK BY DEF Inv, KeysTyped, MenuInv, MenuTyped, TypeOK
<1> QED BY <1>1, Invariance, PTL

(* No way leads to the settings but by the password, or while none was      *)
(* needed, whatever a client does to the need for it meanwhile.            *)
THEOREM SettingsAreLocked == Spec => []Locked
<1>1. Inv => Locked BY DEF Inv, MenuInv, Guarded, Locked
<1> QED BY <1>1, Invariance, PTL

(* What is edited was taken from the setting it will be written to.         *)
THEOREM EditsAreFresh == Spec => []EditFresh
<1>1. Inv => EditFresh BY DEF Inv, MenuInv
<1> QED BY <1>1, Invariance, PTL
-----------------------------------------------------------------------------
(* The menus keep the promise of the editor of the settings, step by step.  *)
Setting == [i \in Items |-> IF i = 0 THEN value ELSE use_password]

LEMMA EditorKept ==
  ASSUME UNCHANGED <<menu, edit, config, proven>>
  PROVE  UNCHANGED Editor!vars
BY DEF Editor!vars, Editing, edit, config

(* Outside the menu of the settings: who may enter it is found out. *)
LEMMA EditorOutside ==
  ASSUME menu # "conf", menu' # "conf", UNCHANGED config, proven' \in BOOLEAN
  PROVE  Editor!Next
<1>1. ~Editing /\ ~Editing' BY DEF Editing
<1>2. Setting' = Setting BY DEF Setting, config
<1>3. CASE proven' = TRUE
  <2>1. Editor!Allow BY <1>1, <1>2, <1>3 DEF Editor!Allow, Setting
  <2> QED BY <2>1 DEF Editor!Next
<1>4. CASE proven' = FALSE
  <2>1. Editor!Deny BY <1>1, <1>2, <1>4 DEF Editor!Deny, Setting
  <2> QED BY <2>1 DEF Editor!Next
<1> QED BY <1>3, <1>4

LEMMA EditorClose ==
  ASSUME menu = "conf", menu' # "conf", UNCHANGED config, proven' \in {proven, FALSE}
  PROVE  Editor!Next
<1>1. ~Editing' BY DEF Editing
<1>2. Setting' = Setting BY DEF Setting, config
<1>3. Editor!Close BY <1>1, <1>2 DEF Editor!Close, Setting
<1> QED BY <1>3 DEF Editor!Next

(* The timer and MenuIdle. *)
LEMMA EditorIdle ==
  ASSUME MenuInv, Idle_init
  PROVE  Editor!Next
<1>1. menu' = "idle" /\ proven' = FALSE /\ UNCHANGED config BY DEF Idle_init
<1>2. CASE menu = "conf" BY <1>1, <1>2, EditorClose
<1>3. CASE menu # "conf" BY <1>1, <1>3, EditorOutside
<1> QED BY <1>2, <1>3

LEMMA EditorMain ==
  ASSUME MenuInv, Main
  PROVE  Editor!Next
<1>1. /\ menu' = "main" /\ UNCHANGED config
      /\ proven' = (proven \/ use_password = 0)
  BY DEF Main
<1>2. CASE menu = "conf"
  <2>1. proven = TRUE BY <1>2 DEF MenuInv, MenuTyped, Guarded
  <2>2. proven' = proven BY <1>1, <2>1
  <2> QED BY <1>1, <1>2, <2>2, EditorClose
<1>3. CASE menu # "conf"
  <2>1. proven' \in BOOLEAN BY <1>1
  <2> QED BY <1>1, <1>3, <2>1, EditorOutside
<1> QED BY <1>2, <1>3

(* The menu opens only when proven, and without a draft. *)
LEMMA EditorOpen ==
  ASSUME MenuInv, menu = "main", menu_password, Conf_init
  PROVE  Editor!Next
<1>1. proven BY DEF MenuInv, Guarded
<1>2. menu' = "conf" /\ in_sub_menu' = FALSE /\ UNCHANGED <<config, proven>> BY DEF Conf_init
<1>3. ~Editing /\ ~Editing' BY <1>2 DEF Editing
<1>4. Setting' = Setting BY <1>2 DEF Setting, config
<1>5. Editor!Open BY <1>1, <1>2, <1>3, <1>4 DEF Editor!Open, Setting
<1> QED BY <1>5 DEF Editor!Next

LEMMA EditorPassword ==
  ASSUME MenuInv, menu = "main", NEW k, Password_keycope(k)
  PROVE  Editor!Next
<1>1. CASE Idle_init BY <1>1, EditorIdle
<1>2. CASE Stay /\ UNCHANGED <<edit, config>> /\ proven' \in BOOLEAN
  <2>1. menu' = menu BY <1>2 DEF Stay
  <2> QED BY <1>2, <2>1, EditorOutside
<1>3. proven \in BOOLEAN BY DEF MenuInv, MenuTyped
<1> QED BY <1>1, <1>2, <1>3, Zenon DEF Password_keycope, marks

LEMMA EditorSelect ==
  ASSUME MenuInv, menu = "conf", ~in_sub_menu, NEW k, Select_keycope(k)
  PROVE  [Editor!Next]_(Editor!vars)
<1>1. CASE Main BY <1>1, EditorMain
<1>2. CASE /\ Stay /\ in_sub_menu' = TRUE
           /\ set_value' = IF item_index = 0 THEN value ELSE use_password
           /\ UNCHANGED <<item_index, config, proven>>
  <2>1. ~Editing /\ Editing' BY <1>2 DEF Editing, Stay
  <2>2. item_index \in Items BY DEF MenuInv, MenuTyped
  <2>3. Setting' = Setting /\ set_value' = Setting[item_index]
    BY <1>2, <2>2 DEF Setting, config
  <2>4. Editor!Begin(item_index) BY <1>2, <2>1, <2>3 DEF Editor!Begin, Setting, Stay
  <2> QED BY <2>2, <2>4 DEF Editor!Next
<1>3. CASE Stay /\ UNCHANGED <<in_sub_menu, config, proven>>
  <2>1. ~Editing /\ ~Editing' BY <1>3 DEF Editing
  <2> QED BY <1>3, <2>1 DEF Editor!vars, Stay, config
<1> QED BY <1>1, <1>2, <1>3, Zenon DEF Select_keycope, marks

LEMMA EditorEdit ==
  ASSUME KeypadAssumption, MenuInv, menu = "conf", in_sub_menu, NEW k, Edit_keycope(k)
  PROVE  Editor!Next
<1>1. Editing /\ item_index \in Items /\ item_index # NoItem /\ menu' = menu
      /\ UNCHANGED <<item_index, proven>>
  <2>1. Stay /\ UNCHANGED <<item_index, marks>> BY Zenon DEF Edit_keycope
  <2> QED BY <2>1 DEF Editing, MenuInv, MenuTyped, Items, NoItem, Stay, marks
<1>2. CASE in_sub_menu' = FALSE /\ UNCHANGED config
  <2>1. ~Editing' BY <1>2 DEF Editing
  <2>2. Setting' = Setting BY <1>2 DEF Setting, config
  <2>3. Editor!Abandon BY <1>1, <2>1, <2>2 DEF Editor!Abandon, Setting
  <2> QED BY <2>3 DEF Editor!Next
<1>3. CASE /\ in_sub_menu' = FALSE
           /\ IF item_index = 0
              THEN value' = set_value /\ UNCHANGED use_password
              ELSE use_password' = set_value /\ UNCHANGED value
  <2>1. ~Editing' BY <1>3 DEF Editing
  <2>2. Setting' = [Setting EXCEPT ![item_index] = set_value]
    BY <1>1, <1>3 DEF Setting, Items
  <2>3. Editor!Confirm BY <1>1, <2>1, <2>2 DEF Editor!Confirm, Setting
  <2> QED BY <2>3 DEF Editor!Next
<1>4. CASE /\ set_value' = IF k = "up" THEN Up(set_value, Range(item_index))
                           ELSE Down(set_value, Range(item_index))
           /\ UNCHANGED <<in_sub_menu, config>>
  <2>1. Editing' BY <1>1, <1>4 DEF Editing
  <2>2. Setting' = Setting BY <1>4 DEF Setting, config
  <2>3. set_value \in Nat /\ Range(item_index) \in Nat
    BY <1>1 DEF MenuInv, MenuTyped, Range, KeypadAssumption
  <2>4. set_value' \in 0 .. Range(item_index)
    <3>1. /\ Up(set_value, Range(item_index)) \in 0 .. Range(item_index)
          /\ Down(set_value, Range(item_index)) \in 0 .. Range(item_index)
      BY <2>3, UpInRange
    <3> QED BY Zenon, <1>4, <3>1
  <2>5. Editor!Turn BY <1>1, <2>1, <2>2, <2>4 DEF Editor!Turn, Setting
  <2> QED BY <2>5 DEF Editor!Next
<1> QED BY <1>2, <1>3, <1>4, Zenon DEF Edit_keycope

LEMMA EditorKey ==
  ASSUME KeypadAssumption, MenuInv, NEW k, KeyCope(k)
  PROVE  [Editor!Next]_(Editor!vars)
<1>1. CASE Nothing
  <2>1. UNCHANGED <<menu, edit, config, proven>> BY <1>1 DEF Nothing, Stay, marks
  <2> QED BY <2>1, EditorKept
<1>2. CASE menu = "idle" /\ Idle_keycope(k)
  <2>1. Main \/ Nothing BY <1>2 DEF Idle_keycope
  <2> QED BY <1>1, <2>1, EditorMain
<1>3. CASE menu = "main" /\ ~menu_password /\ Password_keycope(k) BY <1>3, EditorPassword
<1>4. CASE menu = "main" /\ menu_password /\ Main_keycope(k)
  <2>1. Nothing \/ Idle_init \/ Conf_init BY <1>4 DEF Main_keycope
  <2> QED BY <1>1, <1>4, <2>1, EditorIdle, EditorOpen
<1>5. CASE menu = "conf" /\ ~in_sub_menu /\ Select_keycope(k) BY <1>5, EditorSelect
<1>6. CASE menu = "conf" /\ in_sub_menu /\ Edit_keycope(k) BY <1>6, EditorEdit
<1> QED BY Zenon, <1>1, <1>2, <1>3, <1>4, <1>5, <1>6 DEF KeyCope

LEMMA EditorRemote ==
  ASSUME MenuInv, ClientPassword
  PROVE  Editor!Next
<1>1. UNCHANGED <<menu, edit, value, proven>> BY DEF ClientPassword, marks
<1>2. use_password' \in 0 .. 1 BY DEF ClientPassword, MenuInv, MenuTyped
<1>3. Setting' = [Setting EXCEPT ![1] = use_password']
  <2>1. value' = value BY <1>1
  <2>2. Setting' = [i \in Items |-> IF i = 1 THEN use_password' ELSE Setting[i]]
    BY <2>1 DEF Setting, Items
  <2>3. 1 \in Items BY DEF Items
  <2> QED BY <2>2, <2>3, Zenon DEF Setting
<1>4. [i \in Items |-> Range(i)][1] = 1 BY DEF Items, Range
<1>5. Editor!Elsewhere(1)
  BY <1>1, <1>2, <1>3, <1>4 DEF Editor!Elsewhere, Setting, Editing, edit
<1> QED BY <1>5 DEF Editor!Next

LEMMA EditorStep == KeypadAssumption /\ MenuInv /\ [Next]_vars => [Editor!Next]_(Editor!vars)
<1> SUFFICES ASSUME KeypadAssumption, MenuInv, [Next]_vars PROVE [Editor!Next]_(Editor!vars)
  OBVIOUS
<1>1. CASE Press \/ Scan \/ UNCHANGED vars
  <2>1. UNCHANGED <<menu, edit, config, proven>> BY <1>1 DEF Press, Scan, vars, marks
  <2> QED BY <2>1, EditorKept
<1>2. CASE Handle BY <1>2, EditorKey DEF Handle
<1>3. CASE Wait
  <2>1. Idle_init \/ UNCHANGED <<menu, edit, config, proven>> BY <1>3 DEF Wait, marks
  <2> QED BY <2>1, EditorIdle, EditorKept
<1>4. CASE ClientPassword BY <1>4, EditorRemote
<1> QED BY <1>1, <1>2, <1>3, <1>4 DEF Next, MenuTask

LEMMA EditorInit == KeypadAssumption /\ Init => Editor!Init
<1> SUFFICES ASSUME KeypadAssumption, Init PROVE Editor!Init
  OBVIOUS
<1>1. /\ proven = FALSE /\ menu = "idle"
      /\ value \in 0 .. MaxValue /\ use_password \in {0, 1} /\ MaxValue \in Nat
  BY Zenon DEF Init, KeypadAssumption
<1>2. ~Editing BY <1>1 DEF Editing
<1>3. Setting \in [Items -> Nat] /\ \A i \in Items : Setting[i] <= [j \in Items |-> Range(j)][i]
  BY <1>1 DEF Setting, Items, Range
<1> QED BY <1>1, <1>2, <1>3 DEF Editor!Init, Setting

(* For every password and range, the settings change only by confirming a   *)
(* draft that was taken from the setting since the menu was entered, by     *)
(* who had given the password or needed none, or from a client.            *)
THEOREM ImplementsEditor == Spec => EditorSpec
<1>1. Init => Editor!Init BY EditorInit, KeypadAssumption
<1>2. Inv /\ [Next]_vars => [Editor!Next]_(Editor!vars) BY EditorStep, KeypadAssumption DEF Inv
<1> QED BY <1>1, <1>2, Invariance, PTL DEF Spec, EditorSpec, Editor!Spec
=============================================================================
