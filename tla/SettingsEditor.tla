--------------------------- MODULE SettingsEditor ---------------------------
(***************************************************************************)
(* What a menu with settings behind a lock promises: it only opens for     *)
(* who has been allowed in; a setting is edited as a draft that starts     *)
(* from its value, and changes only when the draft is confirmed; a draft   *)
(* that is abandoned, and any draft when the menu closes, is gone.  A      *)
(* remote setting may change from elsewhere at any time.                   *)
(***************************************************************************)
EXTENDS Naturals

CONSTANTS Settings,   \* the settings
          Limit,      \* [Settings -> Nat], their largest values
          Remote,     \* those that change from elsewhere, too
          None        \* no setting

VARIABLES allowed,    \* may the menu be opened?
          open,
          item,       \* the setting being edited, or None
          draft,      \* its value to be, 0 when none is edited
          stored      \* the values

vars == <<allowed, open, item, draft, stored>>

Init ==
  /\ allowed = FALSE /\ open = FALSE /\ item = None /\ draft = 0
  /\ stored \in [Settings -> Nat] /\ \A s \in Settings : stored[s] <= Limit[s]

Allow == ~open /\ allowed' = TRUE /\ UNCHANGED <<open, item, draft, stored>>
Deny  == ~open /\ allowed' = FALSE /\ UNCHANGED <<open, item, draft, stored>>

Open ==
  /\ ~open /\ allowed
  /\ open' = TRUE
  /\ UNCHANGED <<allowed, item, draft, stored>>

(* By the user, who stays allowed, or by the time, and then not. *)
Close ==
  /\ open /\ open' = FALSE
  /\ allowed' \in {allowed, FALSE}
  /\ item' = None /\ draft' = 0
  /\ UNCHANGED stored

Begin(s) ==
  /\ open /\ item = None
  /\ item' = s /\ draft' = stored[s]
  /\ UNCHANGED <<allowed, open, stored>>

Turn ==
  /\ item \in Settings
  /\ draft' \in 0 .. Limit[item]
  /\ UNCHANGED <<allowed, open, item, stored>>

Abandon ==
  /\ open
  /\ item' = None /\ draft' = 0
  /\ UNCHANGED <<allowed, open, stored>>

Confirm ==
  /\ item \in Settings
  /\ stored' = [stored EXCEPT ![item] = draft]
  /\ item' = None /\ draft' = 0
  /\ UNCHANGED <<allowed, open>>

Elsewhere(s) ==
  /\ \E v \in 0 .. Limit[s] : stored' = [stored EXCEPT ![s] = v]
  /\ UNCHANGED <<allowed, open, item, draft>>

Next ==
  \/ Allow \/ Deny \/ Open \/ Close
  \/ (\E s \in Settings : Begin(s)) \/ Turn \/ Abandon \/ Confirm
  \/ \E s \in Remote : Elsewhere(s)

Spec == Init /\ [][Next]_vars
=============================================================================
