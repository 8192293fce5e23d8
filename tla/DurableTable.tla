---------------------------- MODULE DurableTable ----------------------------
(***************************************************************************)
(* What a flash page promises for a table of names: a save replaces what a *)
(* restart finds by a picture of the table, every row of which has a value *)
(* it had during the save; a restart in the middle of a save finds the     *)
(* factory names; nothing else changes what a restart finds.               *)
(***************************************************************************)
CONSTANTS Tables, Rows, Names, Default, None

VARIABLES current,   \* the tables in memory
          durable,   \* the tables a restart would find
          saving,    \* the table being saved, or None
          since      \* the values each row has had since its last save began

vars == <<current, durable, saving, since>>

Factory == [r \in Rows |-> Default]

Init ==
  /\ current = [t \in Tables |-> Factory]
  /\ durable = [t \in Tables |-> Factory]
  /\ saving = None
  /\ since = [t \in Tables |-> [r \in Rows |-> {Default}]]

Change(t, r, n) ==
  /\ current' = [current EXCEPT ![t][r] = n]
  /\ since' = [since EXCEPT ![t][r] = @ \cup {n}]
  /\ UNCHANGED <<durable, saving>>

Begin(t) ==
  /\ saving = None
  /\ saving' = t
  /\ durable' = [durable EXCEPT ![t] = Factory]
  /\ since' = [since EXCEPT ![t] = [r \in Rows |-> {current[t][r]}]]
  /\ UNCHANGED current

Commit(t) ==
  /\ saving = t
  /\ saving' = None
  /\ \E picture \in [Rows -> Names] :
       /\ \A r \in Rows : picture[r] \in since[t][r]
       /\ durable' = [durable EXCEPT ![t] = picture]
  /\ UNCHANGED <<current, since>>

Restart ==
  /\ current' = durable
  /\ saving' = None
  /\ UNCHANGED <<durable, since>>

Next ==
  \/ \E t \in Tables, r \in Rows, n \in Names : Change(t, r, n)
  \/ \E t \in Tables : Begin(t) \/ Commit(t)
  \/ Restart

Spec == Init /\ [][Next]_vars
=============================================================================
