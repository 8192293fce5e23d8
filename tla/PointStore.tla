----------------------------- MODULE PointStore -----------------------------
(***************************************************************************)
(* The point tables (outputs, inputs, variables) and their flash pages.    *)
(* BACnet clients rename a point and mark its table; the flash task saves  *)
(* marked tables; mass_flash_init loads the tables at boot; the controller *)
(* may restart between any two steps.                                      *)
(*                                                                         *)
(* A page starts with a half-word that reads 0xffff when it is erased and  *)
(* 10000 once the page has been written; the rows follow.  A row stands    *)
(* for the names of one point.  Erasing a page is one step: the controller *)
(* stalls while the flash is erased.                                       *)
(***************************************************************************)
EXTENDS Naturals

CONSTANTS
  NumRows,     \* rows of a table
  Names,       \* the names of a point
  Default,     \* the name it has from the factory
  Erased,      \* an erased row of a page
  Zero,        \* a row of a table after a reset
  None,        \* no table
  MaxChanges,  \* bound: how often a point is renamed
  MaxRestarts  \* bound: how often the controller restarts

ASSUME StoreAssumption ==
  /\ NumRows \in Nat \ {0}
  /\ Default \in Names
  /\ Erased \notin Names
  /\ Zero \notin Names
  /\ None \notin {0, 1, 2}
  /\ MaxChanges \in Nat
  /\ MaxRestarts \in Nat

OUT_TYPE == 0
IN_TYPE  == 1
VAR_TYPE == 2
Types    == {OUT_TYPE, IN_TYPE, VAR_TYPE}
Rows     == 0 .. NumRows - 1
Cells    == Names \cup {Erased, Zero}

VARIABLES
  ram,             \* outputs, inputs and var
  write_page_en,   \* tables to be saved
  page,            \* the rows of each page
  written,         \* does the first half-word of a page read 10000?
  unlocked,        \* is the flash controller unlocked?
  tempbuf,         \* the copy of a table that is written
  pc,              \* "sleep", "test", "erase", "copy", "write", "mark", "clear"
  booting,         \* mass_flash_init runs, and no task yet
  cur,             \* the table being saved or loaded
  row,             \* the row being copied or written
  changes,         \* renames so far
  restarts,        \* restarts so far
  since,           \* history: values each row has had since its save began
  unpromised       \* history: changed rows that no save is due for

memory  == <<ram, write_page_en, tempbuf>>
flash   == <<page, written, unlocked>>
control == <<pc, booting, cur, row>>
count   == <<changes, restarts>>
history == <<since, unpromised>>
vars    == <<memory, flash, control, count, history>>

Factory == [r \in Rows |-> Default]
Blank   == [r \in Rows |-> Erased]

(* Flash_Write_Mass saves outputs, inputs, variables; mass_flash_init      *)
(* loads outputs, variables, inputs.                                       *)
NextSaved(t)  == IF t = VAR_TYPE THEN None ELSE t + 1
NextLoaded(t) == IF t = OUT_TYPE THEN VAR_TYPE ELSE IF t = VAR_TYPE THEN IN_TYPE ELSE None

ClearedFirst_None == {}     \* faulty: every mark is taken away afterwards

(* The tables whose mark is taken away before they are saved; that of the  *)
(* variables is taken away afterwards.                                     *)
ClearedFirst == {OUT_TYPE, IN_TYPE}

(* The tables for which mass_flash_init unlocks the flash: not the inputs. *)
UnlockedAtBoot == {OUT_TYPE, VAR_TYPE}

Init ==
  /\ ram = [t \in Types |-> [r \in Rows |-> Zero]]
  /\ write_page_en = [t \in Types |-> FALSE]
  /\ page = [t \in Types |-> Blank]
  /\ written = [t \in Types |-> FALSE]
  /\ unlocked = FALSE
  /\ tempbuf = Blank
  /\ pc = "test" /\ booting = TRUE /\ cur = OUT_TYPE /\ row = 0
  /\ changes = 0 /\ restarts = 0
  /\ since = [t \in Types |-> [r \in Rows |-> {Default}]]
  /\ unpromised = {}
-----------------------------------------------------------------------------
(* The clients.  They run in tasks of a higher priority than the flash     *)
(* task, or of the same one, once the scheduler has started.               *)

(* write_bacnet_name_to_buf, write_bacnet_description_to_buf: the row is   *)
(* written and its table marked.  The mark is lost if the variables are    *)
(* being saved.                                                            *)
write_bacnet(t, r, n) ==
  /\ ~booting
  /\ changes < MaxChanges
  /\ changes' = changes + 1
  /\ ram' = [ram EXCEPT ![t][r] = n]
  /\ write_page_en' = [write_page_en EXCEPT ![t] = TRUE]
  /\ since' = [since EXCEPT ![t][r] = @ \cup {n}]
  /\ unpromised' = IF t = VAR_TYPE /\ cur = VAR_TYPE /\ pc \notin {"sleep", "test", "erase"}
                   THEN unpromised \cup {<<t, r>>} ELSE unpromised \ {<<t, r>>}
  /\ UNCHANGED <<flash, tempbuf, control, restarts>>

(* write_user_data_by_block: a Modbus block write changes the row and does *)
(* not mark its table.                                                     *)
write_user_data_by_block(t, r, n) ==
  /\ ~booting
  /\ changes < MaxChanges
  /\ changes' = changes + 1
  /\ ram' = [ram EXCEPT ![t][r] = n]
  /\ since' = [since EXCEPT ![t][r] = @ \cup {n}]
  /\ unpromised' = unpromised \cup {<<t, r>>}
  /\ UNCHANGED <<write_page_en, tempbuf, flash, control, restarts>>
-----------------------------------------------------------------------------
(* Saving a table, at boot and in the flash task. *)

(* On to the next table, or, after the last one, to sleep. *)
Advance ==
  LET next == IF booting THEN NextLoaded(cur) ELSE NextSaved(cur) IN
  IF next = None
  THEN pc' = "sleep" /\ booting' = FALSE /\ UNCHANGED cur
  ELSE pc' = "test"  /\ UNCHANGED booting /\ cur' = next

NextRow_Short(then) ==     \* faulty: stops one row early
  IF row + 2 < NumRows THEN row' = row + 1 /\ UNCHANGED pc
                       ELSE row' = 0 /\ pc' = then

NextRow(then) ==
  IF row + 1 < NumRows THEN row' = row + 1 /\ UNCHANGED pc
                       ELSE row' = 0 /\ pc' = then

ErasePage_KeepMarker(unlock) ==     \* faulty: the marker is on another page
  /\ unlocked' = unlock
  /\ page' = IF unlock THEN [page EXCEPT ![cur] = Blank] ELSE page
  /\ UNCHANGED written

ErasePage_Locked(unlock) ==         \* faulty: the flash stays locked
  UNCHANGED flash

(* STMFLASH_Unlock, STMFLASH_ErasePage: a locked flash is not erased.      *)
(* (The second page erased for the variables is never written.)            *)
ErasePage(unlock) ==
  /\ unlocked' = unlock
  /\ page' = IF unlock THEN [page EXCEPT ![cur] = Blank] ELSE page
  /\ written' = [written EXCEPT ![cur] = @ /\ ~unlock]

(* vTaskDelay(1000) is over: Flash_Write_Mass is called. *)
Wake ==
  /\ pc = "sleep"
  /\ pc' = "test"
  /\ cur' = OUT_TYPE
  /\ UNCHANGED <<memory, flash, booting, row, count, history>>

(* Flash_Write_Mass: is the table to be saved? *)
TestMark ==
  /\ pc = "test" /\ ~booting
  /\ IF write_page_en[cur]
     THEN /\ pc' = "erase"
          /\ write_page_en' = [write_page_en EXCEPT ![cur] = @ /\ cur \notin ClearedFirst]
          /\ UNCHANGED <<booting, cur>>
     ELSE Advance /\ UNCHANGED write_page_en
  /\ UNCHANGED <<ram, tempbuf, flash, row, count, history>>

(* Flash_Write_Mass: the page is erased. *)
SaveErase ==
  /\ pc = "erase" /\ ~booting
  /\ ErasePage(TRUE)
  /\ pc' = "copy" /\ row' = 0
  /\ since' = [since EXCEPT ![cur] = [r \in Rows |-> {ram[cur][r]}]]
  /\ UNCHANGED <<memory, booting, cur, count, unpromised>>

(* mass_flash_init: a written page is read into its table. *)
LoadPage ==
  /\ pc = "test" /\ booting
  /\ written[cur]
  /\ ram' = [ram EXCEPT ![cur] = page[cur]]
  /\ Advance
  /\ UNCHANGED <<write_page_en, tempbuf, flash, row, count, history>>

(* mass_flash_init: a page that is not written gets the factory names.     *)
LoadDefaults ==
  /\ pc = "test" /\ booting
  /\ ~written[cur]
  /\ ErasePage(cur \in UnlockedAtBoot)
  /\ ram' = [ram EXCEPT ![cur] = Factory]
  /\ pc' = "copy" /\ row' = 0
  /\ UNCHANGED <<write_page_en, tempbuf, booting, cur, count, history>>

(* memcpy to tempbuf, a row at a time: the task may be preempted. *)
CopyRow ==
  /\ pc = "copy"
  /\ tempbuf' = [tempbuf EXCEPT ![row] = ram[cur][row]]
  /\ NextRow("write")
  /\ unpromised' = unpromised \ {<<cur, row>>}
  /\ UNCHANGED <<ram, write_page_en, flash, booting, cur, count, since>>

(* iap_write_appbin: only an erased row of an unlocked flash is written. *)
WriteRow ==
  /\ pc = "write"
  /\ page' = IF unlocked /\ page[cur][row] = Erased
             THEN [page EXCEPT ![cur][row] = tempbuf[row]] ELSE page
  /\ NextRow("mark")
  /\ UNCHANGED <<memory, written, unlocked, booting, cur, count, history>>

(* STMFLASH_WriteHalfWord(..., 10000), STMFLASH_Lock *)
WriteMarker ==
  /\ pc = "mark"
  /\ written' = [written EXCEPT ![cur] = @ \/ unlocked]
  /\ unlocked' = FALSE
  /\ IF booting \/ cur \in ClearedFirst THEN Advance
     ELSE pc' = "clear" /\ UNCHANGED <<booting, cur>>
  /\ UNCHANGED <<memory, page, row, count, history>>

(* write_page_en[VAR_TYPE] = 0 *)
ClearMark ==
  /\ pc = "clear"
  /\ write_page_en' = [write_page_en EXCEPT ![cur] = FALSE]
  /\ Advance
  /\ UNCHANGED <<ram, tempbuf, flash, row, count, history>>
-----------------------------------------------------------------------------
(* SoftReset, the watchdog or a power failure.  mass_flash_init takes all  *)
(* the marks away.                                                         *)
Restart ==
  /\ restarts < MaxRestarts
  /\ restarts' = restarts + 1
  /\ ram' = [t \in Types |-> [r \in Rows |-> Zero]]
  /\ write_page_en' = [t \in Types |-> FALSE]
  /\ unlocked' = FALSE
  /\ pc' = "test" /\ booting' = TRUE /\ cur' = OUT_TYPE /\ row' = 0
  /\ unpromised' = {}
  /\ UNCHANGED <<tempbuf, page, written, changes, since>>

Boot    == LoadPage \/ LoadDefaults
Save    == Wake \/ TestMark \/ SaveErase \/ ClearMark
Program == CopyRow \/ WriteRow \/ WriteMarker
Clients == \E t \in Types, r \in Rows, n \in Names :
             write_bacnet(t, r, n) \/ write_user_data_by_block(t, r, n)

Next == Boot \/ Save \/ Program \/ Clients \/ Restart

Spec == Init /\ [][Next]_vars

(* The flash task is scheduled again and again, since the clients sleep    *)
(* between their requests.                                                 *)
FairSpec == Spec /\ WF_vars(Boot \/ Save \/ Program)
-----------------------------------------------------------------------------
(* What a restart would load. *)
Recovered(t) == IF written[t] THEN page[t] ELSE Factory

(* The page of t is being replaced. *)
Saving(t) == cur = t /\ ~booting /\ pc \in {"erase", "copy", "write", "mark"}

(* The variables have their types: rows are names, erased, or zero after a *)
(* reset.                                                                  *)
TypeOK ==
  /\ ram \in [Types -> [Rows -> Cells]]
  /\ write_page_en \in [Types -> BOOLEAN]
  /\ page \in [Types -> [Rows -> Cells]]
  /\ written \in [Types -> BOOLEAN]
  /\ unlocked \in BOOLEAN
  /\ tempbuf \in [Rows -> Cells]
  /\ pc \in {"sleep", "test", "erase", "copy", "write", "mark", "clear"}
  /\ booting \in BOOLEAN
  /\ cur \in Types
  /\ row \in Rows
  /\ changes \in Nat /\ restarts \in Nat
  /\ since \in [Types -> [Rows -> SUBSET Cells]]
  /\ unpromised \subseteq Types \X Rows

(* A page with the marker 10000 is complete, and the tables the tasks work *)
(* on hold names only, wherever the controller has been restarted: the     *)
(* marker is erased first and written last.                                *)
WholeTables ==
  /\ \A t \in Types : written[t] => page[t] \in [Rows -> Names]
  /\ ~booting => ram \in [Types -> [Rows -> Names]]

(* A table that is not marked and not being saved would be found by a      *)
(* restart as it is, in every row that was last changed through BACnet;    *)
(* except the variables renamed while they were being saved.               *)
StoredWhenClean ==
  \A t \in Types, r \in Rows :
    ~booting /\ ~write_page_en[t] /\ ~Saving(t) /\ <<t, r>> \notin unpromised
      => Recovered(t)[r] = ram[t][r]

(* Renamed points end up in the flash: once the clients are quiet, every   *)
(* row whose save is due is stored and stays so.                           *)
EventuallyStored ==
  <>[] \A t \in Types, r \in Rows :
         <<t, r>> \notin unpromised => Recovered(t)[r] = ram[t][r]

(* The tables and what a restart would find behave as DurableTable says.   *)
(* A table that mass_flash_init has not loaded yet counts as loaded.       *)
Loaded(t) ==
  \/ ~booting
  \/ t = OUT_TYPE /\ cur # OUT_TYPE
  \/ t = VAR_TYPE /\ cur = IN_TYPE

Current == [t \in Types |-> IF Loaded(t) THEN ram[t] ELSE Recovered(t)]
Stored  == [t \in Types |-> Recovered(t)]
Busy    == IF ~booting /\ pc \in {"copy", "write", "mark"} THEN cur ELSE None

Durable == INSTANCE DurableTable WITH
  Tables <- Types, current <- Current, durable <- Stored, saving <- Busy

DurableSpec == Durable!Spec
=============================================================================
