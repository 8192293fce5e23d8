---------------------------- MODULE OfferedStore ----------------------------
(***************************************************************************)
(* What a store of several fields promises that is written field by field  *)
(* by several writers without a lock: it changes only while some writer is *)
(* at work, and only to a value that a writer has brought; when the last   *)
(* of them leaves, every field holds what one of them brought.  After a    *)
(* crash a field may also hold what it held before they began.            *)
(***************************************************************************)
CONSTANTS Fields, Values,
          Valid      \* [Fields -> SUBSET Values], what needs no repair

VARIABLES stored,    \* the fields
          busy,      \* is some writer at work?
          wanted,    \* what is to be stored in each field once none is
          rest       \* what a crash may leave of it instead

vars == <<stored, busy, wanted, rest>>

Init ==
  /\ stored \in [Fields -> Values] /\ busy = FALSE
  /\ wanted = [f \in Fields |-> {stored[f]}]
  /\ rest = [f \in Fields |-> {}]

(* Those that are at work already may come last, too. *)
Begin ==
  /\ busy' = TRUE /\ UNCHANGED stored
  /\ rest' = [f \in Fields |-> wanted[f] \cup rest[f]]
  /\ wanted' \in [Fields -> SUBSET Values]
  /\ \A f \in Fields : wanted'[f] # {} /\ (busy => wanted[f] \subseteq wanted'[f])

(* A writer at work is given something else. *)
Extend ==
  /\ busy /\ UNCHANGED <<stored, busy, rest>>
  /\ wanted' \in [Fields -> SUBSET Values]
  /\ \A f \in Fields : wanted[f] \subseteq wanted'[f]

Leave ==
  /\ busy' = FALSE /\ rest' = [f \in Fields |-> {}]
  /\ \A f \in Fields : stored'[f] \in wanted[f]

Write(f) ==
  /\ busy
  /\ \E v \in wanted[f] : stored' = [stored EXCEPT ![f] = v]
  /\ UNCHANGED wanted
  /\ Leave \/ UNCHANGED <<busy, rest>>

Finish == busy /\ Leave /\ UNCHANGED <<stored, wanted>>

Crash ==
  /\ busy /\ busy' = FALSE /\ UNCHANGED stored
  /\ wanted' = [f \in Fields |-> wanted[f] \cup rest[f]]
  /\ rest' = [f \in Fields |-> {}]

Repair(f) ==
  /\ ~busy /\ stored[f] \notin Valid[f]
  /\ \E v \in Valid[f] : /\ stored' = [stored EXCEPT ![f] = v]
                         /\ wanted' = [wanted EXCEPT ![f] = {v}]
  /\ UNCHANGED <<busy, rest>>

Next ==
  \/ Extend \/ Begin \/ Finish \/ Crash
  \/ \E f \in Fields : Write(f) \/ Repair(f)

Spec == Init /\ [][Next]_vars
=============================================================================
