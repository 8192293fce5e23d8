------------------------------- MODULE Keypad -------------------------------
(***************************************************************************)
(* The keys and the menus: vKEYTask scans the keys and sends what changes, *)
(* or is held long, to the queue qKey without waiting; MenuTask takes one  *)
(* key in each pass, and goes back to MenuIdle when none comes for long.   *)
(*                                                                         *)
(* Of the menus with settings one is modelled, with two settings: a number *)
(* and use_password.  The speed that a long press adds is left out.        *)
(***************************************************************************)
EXTENDS Naturals, Sequences

CONSTANTS
  Keys,           \* "left", "right", "up", "down", or some of them
  QueueLen,       \* room of qKey (5)
  LongPress,      \* LONG_PRESS_TIMER_SPEED_1, scans until a key repeats (10)
  BlockTime,      \* passes of MenuTask without a key until it goes to MenuIdle
  MaxDigit,       \* the digits of a password are 0 .. MaxDigit (9)
  user_password,  \* the password, a sequence of digits (4 of them)
  MaxValue        \* the first setting is 0 .. MaxValue (1000)

ASSUME KeypadAssumption ==
  /\ Keys \subseteq {"left", "right", "up", "down"}
  /\ QueueLen \in Nat \ {0} /\ LongPress \in Nat /\ BlockTime \in Nat \ {0}
  /\ MaxDigit \in Nat /\ MaxValue \in Nat \ {0}
  /\ user_password \in Seq(0 .. MaxDigit) /\ Len(user_password) > 0

KEY_NON == "none"
Events  == Keys \cup {KEY_NON}
Items   == {0, 1}
Star    == MaxDigit + 1        \* a digit not yet chosen
NoItem  == 2

VARIABLES
  held,                        \* the key that the user holds
  pre_key, long_press,         \* vKEYTask
  qKey,
  menu,                        \* CurrentState: "idle", "main", "conf"
  waited,                      \* passes since menu_block_timer_start
  menu_password, password_buffer, password_index,
  in_sub_menu, item_index, set_value,
  value, use_password,         \* the settings
  proven,                      \* history: the password was given, or not needed,
                               \* since the display was last in MenuIdle
  loaded                       \* history: the setting that set_value was taken from
                               \* since the menu was entered

keys   == <<held, pre_key, long_press>>
entry  == <<menu_password, password_buffer, password_index>>
edit   == <<in_sub_menu, item_index, set_value>>
config == <<value, use_password>>
marks  == <<proven, loaded>>
vars   == <<keys, qKey, menu, waited, entry, edit, config, marks>>

Digits == [i \in DOMAIN user_password |-> Star]

Init ==
  /\ held = KEY_NON /\ pre_key = KEY_NON /\ long_press = 0 /\ qKey = <<>>
  /\ menu = "idle" /\ waited = 0
  /\ menu_password = FALSE /\ password_buffer = Digits /\ password_index = 1
  /\ in_sub_menu = FALSE /\ item_index = 0 /\ set_value = 0
  /\ value \in 0 .. MaxValue /\ use_password \in {0, 1}
  /\ proven = FALSE /\ loaded = NoItem
-----------------------------------------------------------------------------
(* The user changes the key, also between two scans and without releasing. *)
Press ==
  /\ \E k \in Events \ {held} : held' = k
  /\ UNCHANGED <<pre_key, long_press, qKey, menu, waited, entry, edit, config, marks>>

Send(k) == qKey' = IF Len(qKey) < QueueLen THEN Append(qKey, k) ELSE qKey

(* Variant: a held key is sent once. *)
Scan_Once ==
  /\ IF held # pre_key
     THEN Send(held) /\ pre_key' = held /\ long_press' = 0
     ELSE UNCHANGED <<qKey, pre_key, long_press>>
  /\ UNCHANGED <<held, menu, waited, entry, edit, config, marks>>

(* A key that changed counts as sent even if the queue was full. *)
Scan ==
  /\ IF held # pre_key
     THEN Send(held) /\ pre_key' = held /\ long_press' = 0
     ELSE /\ IF held # KEY_NON /\ long_press >= LongPress THEN Send(held) ELSE UNCHANGED qKey
          /\ long_press' = IF held # KEY_NON /\ long_press < LongPress THEN long_press + 1
                           ELSE long_press
          /\ UNCHANGED pre_key
  /\ UNCHANGED <<held, menu, waited, entry, edit, config, marks>>
-----------------------------------------------------------------------------
(* update_menu_state: each menu has its initialization. *)

(* Variant: the password stays given. *)
Idle_init_Open ==
  /\ menu' = "idle" /\ waited' = 0
  /\ proven' = FALSE
  /\ UNCHANGED <<entry, edit, config, loaded>>

Idle_init ==
  /\ menu' = "idle" /\ waited' = 0
  /\ menu_password' = FALSE /\ proven' = FALSE
  /\ UNCHANGED <<password_buffer, password_index, edit, config, loaded>>

(* The display of the main menu; without the password, the request for it. *)
Co2_Main_init(given) ==
  /\ menu_password' = (given \/ use_password = 0)
  /\ IF menu_password' THEN UNCHANGED <<password_buffer, password_index>>
     ELSE password_buffer' = Digits /\ password_index' = 1

Main ==
  /\ menu' = "main" /\ waited' = 0
  /\ Co2_Main_init(menu_password)
  /\ proven' = (proven \/ use_password = 0)
  /\ UNCHANGED <<edit, config, loaded>>

(* Variant: a menu goes on where it was left. *)
Conf_init_Resume ==
  /\ menu' = "conf" /\ waited' = 0
  /\ loaded' = NoItem
  /\ UNCHANGED <<entry, edit, config, proven>>

Conf_init ==
  /\ menu' = "conf" /\ waited' = 0
  /\ in_sub_menu' = FALSE /\ loaded' = NoItem
  /\ UNCHANGED <<entry, item_index, set_value, config, proven>>

Stay == menu' = menu /\ waited' = 0
-----------------------------------------------------------------------------
(* KeyCope of each menu, and the block timer starts again. *)

Up(n, last) == IF n >= last THEN 0 ELSE n + 1
Down(n, last) == IF n = 0 \/ n > last THEN last ELSE n - 1

Nothing == Stay /\ UNCHANGED <<entry, edit, config, marks>>

Idle_keycope(k) == IF k = "right" THEN Main ELSE Nothing

(* The main menu asks for the password ... *)
Password_keycope(k) ==
  \/ /\ k \in {"up", "down"} /\ Stay
     /\ password_buffer' = [password_buffer EXCEPT ![password_index] =
                              IF k = "up" THEN Up(@, MaxDigit) ELSE Down(@, MaxDigit)]
     /\ UNCHANGED <<menu_password, password_index, edit, config, marks>>
  \/ /\ k = "left" /\ password_index = 1 /\ Idle_init
  \/ /\ \/ k = "left" /\ password_index > 1 /\ password_index' = password_index - 1
        \/ /\ k = "right" /\ password_index < Len(user_password)
           /\ password_index' = password_index + 1
     /\ Stay /\ UNCHANGED <<menu_password, password_buffer, edit, config, marks>>
  \/ /\ k = "right" /\ password_index = Len(user_password) /\ Stay
     /\ Co2_Main_init(password_buffer = user_password)
     /\ proven' = (use_password = 0 \/ password_buffer = user_password)
     /\ UNCHANGED <<edit, config, loaded>>

(* ... and then leads to the settings. *)
Main_keycope(k) ==
  \/ k \in {"up", "down"} /\ Nothing
  \/ k = "left" /\ Idle_init
  \/ k = "right" /\ Conf_init

(* Selecting a setting, *)
Select_keycope(k) ==
  \/ k = "left" /\ Main
  \/ /\ k = "right" /\ Stay
     /\ in_sub_menu' = TRUE /\ loaded' = item_index
     /\ set_value' = IF item_index = 0 THEN value ELSE use_password
     /\ UNCHANGED <<entry, item_index, config, proven>>
  \/ /\ k \in {"up", "down"} /\ Stay
     /\ item_index' = 1 - item_index
     /\ UNCHANGED <<entry, in_sub_menu, set_value, config, marks>>

(* and changing it. *)
Range(i) == IF i = 0 THEN MaxValue ELSE 1
Edit_keycope(k) ==
  \/ /\ k = "left" /\ Stay
     /\ in_sub_menu' = FALSE
     /\ UNCHANGED <<entry, item_index, set_value, config, marks>>
  \/ /\ k = "right" /\ Stay
     /\ in_sub_menu' = FALSE
     /\ IF item_index = 0
        THEN value' = set_value /\ UNCHANGED use_password
        ELSE use_password' = set_value /\ UNCHANGED value
     /\ UNCHANGED <<entry, item_index, set_value, marks>>
  \/ /\ k \in {"up", "down"} /\ Stay
     /\ set_value' = IF k = "up" THEN Up(set_value, Range(item_index))
                     ELSE Down(set_value, Range(item_index))
     /\ UNCHANGED <<entry, in_sub_menu, item_index, config, marks>>

KeyCope(k) ==
  IF k = KEY_NON THEN Nothing
  ELSE \/ menu = "idle" /\ Idle_keycope(k)
       \/ menu = "main" /\ ~menu_password /\ Password_keycope(k)
       \/ menu = "main" /\ menu_password /\ Main_keycope(k)
       \/ menu = "conf" /\ ~in_sub_menu /\ Select_keycope(k)
       \/ menu = "conf" /\ in_sub_menu /\ Edit_keycope(k)

Handle ==
  /\ qKey # <<>> /\ qKey' = Tail(qKey)
  /\ KeyCope(Head(qKey))
  /\ UNCHANGED keys

(* Variant: the time only runs while a setting is selected. *)
Wait_Select ==
  /\ qKey = <<>> /\ menu # "idle" /\ ~in_sub_menu
  /\ IF waited + 1 >= BlockTime THEN Idle_init
     ELSE waited' = waited + 1 /\ UNCHANGED <<menu, entry, edit, config, marks>>
  /\ UNCHANGED <<keys, qKey>>

(* A pass without a key.  The time does not run in MenuIdle.               *)
Wait ==
  /\ qKey = <<>> /\ menu # "idle"
  /\ IF waited + 1 >= BlockTime THEN Idle_init
     ELSE waited' = waited + 1 /\ UNCHANGED <<menu, entry, edit, config, marks>>
  /\ UNCHANGED <<keys, qKey>>

MenuTask == Handle \/ Wait
-----------------------------------------------------------------------------
(* MODBUS_PASSWORD_ENABLE: use_password is also set by a client.           *)
ClientPassword ==
  /\ use_password' = 1 - use_password
  /\ UNCHANGED <<keys, qKey, menu, waited, entry, edit, value, marks>>

Next == Press \/ Scan \/ MenuTask \/ ClientPassword

(* Both tasks run every tenth of a second. *)
Spec == Init /\ [][Next]_vars /\ WF_vars(Scan) /\ WF_vars(MenuTask)
-----------------------------------------------------------------------------
TypeOK ==
  /\ held \in Events /\ pre_key \in Events /\ long_press \in 0 .. LongPress
  /\ qKey \in Seq(Events) /\ Len(qKey) <= QueueLen
  /\ menu \in {"idle", "main", "conf"} /\ waited \in 0 .. BlockTime - 1
  /\ menu_password \in BOOLEAN /\ in_sub_menu \in BOOLEAN /\ proven \in BOOLEAN
  /\ password_buffer \in [DOMAIN user_password -> 0 .. Star]
  /\ password_index \in DOMAIN user_password
  /\ item_index \in Items /\ loaded \in Items \cup {NoItem}
  /\ value \in 0 .. MaxValue /\ set_value \in 0 .. MaxValue /\ use_password \in {0, 1}

(* The settings are only reached when the password was given, or not        *)
(* needed, since the display was last in MenuIdle, however it came there.   *)
Locked == menu = "conf" => proven

(* What is changed, and may be written to a setting, was taken from that    *)
(* setting since its menu was entered: a change that the timer broke off    *)
(* is not taken up again.                                                  *)
EditFresh == menu = "conf" /\ in_sub_menu => loaded = item_index

(* What the menus promise of the settings.  Leaving the menu, also by the   *)
(* timer in the middle of a change, abandons the change, although           *)
(* in_sub_menu and set_value keep their values until it is entered again.  *)
Editing == menu = "conf" /\ in_sub_menu
Editor == INSTANCE SettingsEditor WITH
  Settings <- Items, Limit <- [i \in Items |-> Range(i)], Remote <- {1}, None <- NoItem,
  allowed <- proven, open <- menu = "conf",
  item <- IF Editing THEN item_index ELSE NoItem,
  draft <- IF Editing THEN set_value ELSE 0,
  stored <- [i \in Items |-> IF i = 0 THEN value ELSE use_password]

(* The settings change only by the confirmation of a draft that was taken   *)
(* from the setting since the menu was entered by who may enter it, or by  *)
(* a client: a change that the timer broke off is not taken up again.      *)
EditorSpec == Editor!Spec

(* When all keys are released the display goes back to MenuIdle and stays   *)
(* there, whatever waits in the queue.                                     *)
Home == <>[](held = KEY_NON) => <>[](menu = "idle")

(* A key that is held is handled again and again, also when its press or    *)
(* the release of the key before it found the queue full.                   *)
Responds ==
  \A k \in Keys : <>[](held = k) => []<><<Handle /\ Head(qKey) = k>>_<<qKey, menu, waited>>
=============================================================================
