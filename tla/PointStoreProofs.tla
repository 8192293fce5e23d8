-------------------------- MODULE PointStoreProofs --------------------------
(***************************************************************************)
(* Proofs about the point tables and their flash pages, for every number   *)
(* of rows, every set of names and any number of changes and restarts.     *)
(***************************************************************************)
EXTENDS PointStore, TLAPS

-----------------------------------------------------------------------------
(* Type correctness. *)

LEMMA FactoryType == Factory \in [Rows -> Names] /\ Factory \in [Rows -> Cells]
BY StoreAssumption DEF Factory, Cells

LEMMA BlankType == Blank \in [Rows -> Cells]
BY DEF Blank, Cells

(* Going on to the next table leaves pc, booting and cur in their types. *)
LEMMA AdvanceType ==
  ASSUME TypeOK, Advance
  PROVE  /\ pc' \in {"sleep", "test"}
         /\ booting' \in BOOLEAN
         /\ cur' \in Types
<1>1. NextSaved(cur) \in Types \cup {None} /\ NextLoaded(cur) \in Types \cup {None}
  BY StoreAssumption
     DEF TypeOK, NextSaved, NextLoaded, Types, OUT_TYPE, IN_TYPE, VAR_TYPE
<1>2. (IF booting THEN NextLoaded(cur) ELSE NextSaved(cur)) \in Types \cup {None}
  BY <1>1
<1>3. QED
  BY <1>2, Zenon DEF TypeOK, Advance

LEMMA NextRowType ==
  ASSUME TypeOK, NEW then, NextRow(then)
  PROVE  row' \in Rows /\ pc' \in {pc, then}
BY StoreAssumption DEF TypeOK, NextRow, Rows

LEMMA ErasePageType ==
  ASSUME TypeOK, NEW unlock \in BOOLEAN, ErasePage(unlock)
  PROVE  /\ unlocked' \in BOOLEAN
         /\ page' \in [Types -> [Rows -> Cells]]
         /\ written' \in [Types -> BOOLEAN]
BY BlankType DEF TypeOK, ErasePage

LEMMA ZeroType == [t \in Types |-> [r \in Rows |-> Zero]] \in [Types -> [Rows -> Cells]]
BY DEF Cells

LEMMA FirstRow == 0 \in Rows /\ OUT_TYPE \in Types
BY StoreAssumption DEF Rows, Types

LEMMA TypeInit == Init => TypeOK
<1> SUFFICES ASSUME Init PROVE TypeOK
  OBVIOUS
<1>1. since \in [Types -> [Rows -> SUBSET Cells]]
  BY StoreAssumption DEF Init, Cells
<1>2. page \in [Types -> [Rows -> Cells]]
  BY BlankType DEF Init
<1>3. QED
  BY <1>1, <1>2, BlankType, ZeroType, FirstRow DEF Init, TypeOK

LEMMA TypeStep == TypeOK /\ [Next]_vars => TypeOK'
<1> SUFFICES ASSUME TypeOK, [Next]_vars PROVE TypeOK'
  OBVIOUS
<1> USE DEF TypeOK, memory, flash, control, count, history
<1>1. CASE Wake
  BY <1>1 DEF Wake, Types, OUT_TYPE
<1>2. CASE TestMark
  BY <1>2, AdvanceType DEF TestMark
<1>3. CASE SaveErase
  <2>1. row' \in Rows
    BY <1>3, StoreAssumption DEF SaveErase, Rows
  <2>2. since' \in [Types -> [Rows -> SUBSET Cells]]
    BY <1>3 DEF SaveErase
  <2>3. unlocked' \in BOOLEAN /\ page' \in [Types -> [Rows -> Cells]] /\ written' \in [Types -> BOOLEAN]
    BY <1>3, ErasePageType DEF SaveErase
  <2>4. QED
    BY <1>3, <2>1, <2>2, <2>3 DEF SaveErase
<1>4. CASE ClearMark
  BY <1>4, AdvanceType DEF ClearMark
<1>5. CASE LoadPage
  <2>1. ram' \in [Types -> [Rows -> Cells]]
    BY <1>5 DEF LoadPage
  <2>2. QED
    BY <1>5, <2>1, AdvanceType DEF LoadPage
<1>6. CASE LoadDefaults
  <2>1. row' \in Rows
    BY <1>6, StoreAssumption DEF LoadDefaults, Rows
  <2>2. ram' \in [Types -> [Rows -> Cells]]
    BY <1>6, FactoryType DEF LoadDefaults
  <2>3. unlocked' \in BOOLEAN /\ page' \in [Types -> [Rows -> Cells]] /\ written' \in [Types -> BOOLEAN]
    <3>1. (cur \in UnlockedAtBoot) \in BOOLEAN
      OBVIOUS
    <3>2. ErasePage(cur \in UnlockedAtBoot)
      BY <1>6 DEF LoadDefaults
    <3>3. QED
      BY <3>1, <3>2, ErasePageType
  <2>4. QED
    BY <1>6, <2>1, <2>2, <2>3 DEF LoadDefaults
<1>7. CASE CopyRow
  <2>1. row' \in Rows /\ pc' \in {pc, "write"}
    BY <1>7, NextRowType DEF CopyRow
  <2>2. tempbuf' \in [Rows -> Cells]
    BY <1>7 DEF CopyRow
  <2>3. QED
    BY <1>7, <2>1, <2>2 DEF CopyRow
<1>8. CASE WriteRow
  <2>1. row' \in Rows /\ pc' \in {pc, "mark"}
    BY <1>8, NextRowType DEF WriteRow
  <2>2. page' \in [Types -> [Rows -> Cells]]
    BY <1>8 DEF WriteRow
  <2>3. QED
    BY <1>8, <2>1, <2>2 DEF WriteRow
<1>9. CASE WriteMarker
  <2>1. pc' \in {"sleep", "test", "clear"} /\ booting' \in BOOLEAN /\ cur' \in Types
    BY <1>9, AdvanceType DEF WriteMarker
  <2>2. QED
    BY <1>9, <2>1 DEF WriteMarker
<1>10. ASSUME NEW t \in Types, NEW r \in Rows, NEW n \in Names, write_bacnet(t, r, n)
       PROVE TypeOK'
  <2>1. ram' \in [Types -> [Rows -> Cells]]
    BY <1>10 DEF write_bacnet, Cells
  <2>2. since' \in [Types -> [Rows -> SUBSET Cells]]
    BY <1>10 DEF write_bacnet, Cells
  <2>3. unpromised' \subseteq Types \X Rows
    BY <1>10 DEF write_bacnet
  <2>4. QED
    BY <1>10, <2>1, <2>2, <2>3 DEF write_bacnet
<1>11. ASSUME NEW t \in Types, NEW r \in Rows, NEW n \in Names, write_user_data_by_block(t, r, n)
       PROVE TypeOK'
  <2>1. ram' \in [Types -> [Rows -> Cells]]
    BY <1>11 DEF write_user_data_by_block, Cells
  <2>2. since' \in [Types -> [Rows -> SUBSET Cells]]
    BY <1>11 DEF write_user_data_by_block, Cells
  <2>3. QED
    BY <1>11, <2>1, <2>2 DEF write_user_data_by_block
<1>12. CASE Restart
  <2>1. write_page_en' \in [Types -> BOOLEAN] /\ restarts' \in Nat
    BY <1>12 DEF Restart
  <2>2. ram' \in [Types -> [Rows -> Cells]] /\ unpromised' \subseteq Types \X Rows
    BY <1>12, ZeroType DEF Restart
  <2>3. unlocked' \in BOOLEAN /\ booting' \in BOOLEAN /\ pc' = "test" /\ cur' \in Types /\ row' \in Rows
    BY <1>12, FirstRow DEF Restart
  <2>4. UNCHANGED <<tempbuf, page, written, changes, since>>
    BY <1>12 DEF Restart
  <2>5. QED
    BY <2>1, <2>2, <2>3, <2>4
<1>13. CASE UNCHANGED vars
  BY <1>13 DEF vars
<1>14. QED
  BY <1>1, <1>2, <1>3, <1>4, <1>5, <1>6, <1>7, <1>8, <1>9, <1>10, <1>11, <1>12, <1>13
     DEF Next, Boot, Save, Program, Clients

(* Type correctness: the tables, pages and the position of the flash task  *)
(* stay in range.                                                          *)
THEOREM TypeCorrect == Spec => []TypeOK
<1>1. Init => TypeOK
  BY TypeInit
<1>2. TypeOK /\ [Next]_vars => TypeOK'
  BY TypeStep
<1>3. QED
  BY <1>1, <1>2, PTL DEF Spec

-----------------------------------------------------------------------------
(* The inductive invariant. *)

InSave    == pc \in {"copy", "write", "mark"}
Copied(r) == pc \in {"write", "mark"} \/ (pc = "copy" /\ r < row)
Put(r)    == pc = "mark" \/ (pc = "write" /\ r < row)

(* Where the flash task can be; the variables stay marked until "clear".   *)
ControlInv ==
  /\ booting => pc \in {"test", "copy", "write", "mark"}
  /\ pc = "clear" => cur = VAR_TYPE
  /\ ~booting /\ cur = VAR_TYPE /\ (InSave \/ pc \in {"erase", "clear"}) => write_page_en[VAR_TYPE]
  /\ InSave => ~written[cur]
  /\ InSave /\ ~booting => unlocked

(* What has been copied are names; while the program boots, factory names. *)
BufferInv ==
  InSave => \A r \in Rows : Copied(r) => /\ tempbuf[r] \in Names
                                         /\ booting => tempbuf[r] = Default

(* The page being written is erased but for the rows that have been put.   *)
PageInv ==
  /\ \A t \in Types : written[t] => page[t] \in [Rows -> Names]
  /\ InSave /\ unlocked =>
       \A r \in Rows : page[cur][r] = IF Put(r) THEN tempbuf[r] ELSE Erased

(* A table that has been loaded holds names; until the clients run it is   *)
(* what a restart would load.                                              *)
LoadInv ==
  /\ \A t \in Types : Loaded(t) => ram[t] \in [Rows -> Names]
  /\ booting => \A t \in Types : Loaded(t) => ram[t] = Recovered(t)
  /\ booting /\ InSave => ram[cur] = Factory

(* A row that is due to be stored is on its way: in the buffer, or put.    *)
StoreInv ==
  /\ ~booting /\ InSave /\ (cur = VAR_TYPE \/ ~write_page_en[cur]) =>
       \A r \in Rows : Copied(r) /\ <<cur, r>> \notin unpromised => tempbuf[r] = ram[cur][r]
  /\ pc = "clear" =>
       \A r \in Rows : <<VAR_TYPE, r>> \notin unpromised => Recovered(VAR_TYPE)[r] = ram[VAR_TYPE][r]
  /\ StoredWhenClean

(* The buffer holds values its rows have had since the save began.         *)
SinceInv ==
  ~booting /\ InSave =>
    \A r \in Rows : /\ ram[cur][r] \in since[cur][r]
                    /\ Copied(r) => tempbuf[r] \in since[cur][r]

IInv == TypeOK /\ ControlInv /\ BufferInv /\ PageInv /\ LoadInv /\ StoreInv /\ SinceInv

LEMMA TypesAre == Types = {0, 1, 2} /\ OUT_TYPE = 0 /\ IN_TYPE = 1 /\ VAR_TYPE = 2
BY DEF Types, OUT_TYPE, IN_TYPE, VAR_TYPE

LEMMA NextTables ==
  /\ NextSaved(0) = 1 /\ NextSaved(1) = 2 /\ NextSaved(2) = None
  /\ NextLoaded(0) = 2 /\ NextLoaded(2) = 1 /\ NextLoaded(1) = None
BY DEF NextSaved, NextLoaded, OUT_TYPE, IN_TYPE, VAR_TYPE

(* While the program boots, outputs are followed by variables, variables by *)
(* inputs, and inputs by the tasks.                                        *)
LEMMA AdvanceBoot ==
  ASSUME TypeOK, Advance, booting
  PROVE  \/ cur = 0 /\ cur' = 2 /\ pc' = "test" /\ booting'
         \/ cur = 2 /\ cur' = 1 /\ pc' = "test" /\ booting'
         \/ cur = 1 /\ cur' = 1 /\ pc' = "sleep" /\ ~booting'
<1>1. cur \in {0, 1, 2}
  BY TypesAre DEF TypeOK
<1>2. None # 1 /\ None # 2
  BY StoreAssumption
<1>3. CASE cur = 0
  BY <1>2, <1>3, NextTables, Zenon DEF Advance
<1>4. CASE cur = 1
  BY <1>2, <1>4, NextTables, Zenon DEF Advance
<1>5. CASE cur = 2
  BY <1>2, <1>5, NextTables, Zenon DEF Advance
<1>6. QED
  BY <1>1, <1>3, <1>4, <1>5

(* In the flash task the table does not matter: every one is tested. *)
LEMMA AdvanceSave ==
  ASSUME TypeOK, Advance, ~booting
  PROVE  ~booting' /\ pc' \in {"sleep", "test"} /\ cur' \in Types
<1>1. ~booting'
  BY Zenon DEF Advance
<1>2. QED
  BY <1>1, AdvanceType

-----------------------------------------------------------------------------
(* Every step keeps the invariant. *)

LEMMA InvInit == Init => IInv
<1> SUFFICES ASSUME Init PROVE IInv
  OBVIOUS
<1>1. TypeOK
  BY TypeInit
<1>2. pc = "test" /\ booting /\ cur = 0
  BY TypesAre DEF Init
<1>3. \A t \in Types : ~written[t]
  BY DEF Init
<1>4. \A t \in Types : ~Loaded(t)
  BY <1>2, TypesAre DEF Loaded
<1>5. ControlInv /\ BufferInv /\ PageInv /\ SinceInv
  BY <1>2, <1>3 DEF ControlInv, BufferInv, PageInv, SinceInv, InSave
<1>6. LoadInv /\ StoreInv
  BY <1>2, <1>4 DEF LoadInv, StoreInv, StoredWhenClean, InSave
<1>7. QED
  BY <1>1, <1>5, <1>6 DEF IInv

LEMMA InvRestart == IInv /\ Restart => IInv'
<1> SUFFICES ASSUME IInv, Restart PROVE IInv'
  OBVIOUS
<1>1. TypeOK'
  BY TypeStep DEF IInv, Next
<1>2. pc' = "test" /\ booting' /\ cur' = 0
  BY TypesAre DEF Restart
<1>3. UNCHANGED <<page, written>>
  BY DEF Restart
<1>4. \A t \in Types : ~Loaded(t)'
  BY <1>2, TypesAre DEF Loaded
<1>5. ControlInv' /\ BufferInv' /\ SinceInv'
  BY <1>2 DEF ControlInv, BufferInv, SinceInv, InSave
<1>6. PageInv'
  BY <1>2, <1>3 DEF IInv, PageInv, InSave
<1>7. LoadInv' /\ StoreInv'
  BY <1>2, <1>4 DEF LoadInv, StoreInv, StoredWhenClean, InSave
<1>8. QED
  BY <1>1, <1>5, <1>6, <1>7 DEF IInv

LEMMA InvWake == IInv /\ Wake => IInv'
<1> SUFFICES ASSUME IInv, Wake PROVE IInv'
  OBVIOUS
<1>1. TypeOK'
  BY TypeStep DEF IInv, Next, Save
<1>2. pc = "sleep" /\ pc' = "test" /\ ~booting /\ ~booting'
  BY Zenon DEF Wake, IInv, ControlInv
<1>3. UNCHANGED <<ram, write_page_en, tempbuf, page, written, unpromised>>
  BY DEF Wake, memory, flash, history
<1>4. ControlInv' /\ BufferInv' /\ SinceInv'
  BY <1>2 DEF ControlInv, BufferInv, SinceInv, InSave
<1>5. PageInv'
  BY <1>2, <1>3 DEF IInv, PageInv, InSave
<1>6. LoadInv'
  BY <1>2, <1>3 DEF IInv, LoadInv, Loaded
<1>7. StoreInv'
  BY <1>2, <1>3 DEF IInv, StoreInv, StoredWhenClean, InSave, Saving, Recovered
<1>8. QED
  BY <1>1, <1>4, <1>5, <1>6, <1>7 DEF IInv

LEMMA InvClients ==
  ASSUME IInv, NEW t \in Types, NEW r \in Rows, NEW n \in Names,
         write_bacnet(t, r, n) \/ write_user_data_by_block(t, r, n)
  PROVE  IInv'
<1>1. TypeOK'
  BY TypeStep DEF IInv, Next, Clients
<1>2. ~booting /\ ~booting'
  <2>1. ~booting /\ booting' = booting
    BY DEF write_bacnet, write_user_data_by_block, control
  <2>2. QED
    BY <2>1, Zenon
<1>3. UNCHANGED <<pc, cur, row, page, written, unlocked, tempbuf>>
  BY DEF write_bacnet, write_user_data_by_block, flash, control
<1>4. /\ ram' = [ram EXCEPT ![t][r] = n]
      /\ since' = [since EXCEPT ![t][r] = @ \cup {n}]
  BY DEF write_bacnet, write_user_data_by_block
<1>5. /\ write_page_en' \in {write_page_en, [write_page_en EXCEPT ![t] = TRUE]}
      /\ \A u \in Types, q \in Rows : <<u, q>> # <<t, r>> /\ <<u, q>> \in unpromised => <<u, q>> \in unpromised'
  BY DEF write_bacnet, write_user_data_by_block
<1>6. <<t, r>> \in unpromised' \/ (write_page_en'[t] /\ ~(t = VAR_TYPE /\ cur = VAR_TYPE /\ (InSave \/ pc = "clear")))
  <2>1. CASE write_bacnet(t, r, n)
    BY <2>1 DEF write_bacnet, IInv, TypeOK, InSave
  <2>2. CASE write_user_data_by_block(t, r, n)
    BY <2>2 DEF write_user_data_by_block
  <2>3. QED
    BY <2>1, <2>2
<1>7. ControlInv'
  BY <1>2, <1>3, <1>5 DEF IInv, ControlInv, InSave, TypeOK
<1>8. BufferInv' /\ PageInv'
  BY <1>2, <1>3 DEF IInv, BufferInv, PageInv, InSave, Copied, Put
<1>9. LoadInv'
  BY <1>2, <1>4 DEF IInv, LoadInv, Loaded, TypeOK
<1>10. StoreInv'
  <2>1. \A u \in Types, q \in Rows : <<u, q>> # <<t, r>> => ram'[u][q] = ram[u][q]
    BY <1>4 DEF IInv, TypeOK
  <2>2. \A u \in Types : write_page_en[u] => write_page_en'[u]
    BY <1>5 DEF IInv, TypeOK
  <2>3. \A u \in Types : Recovered(u)' = Recovered(u)
    BY <1>3 DEF Recovered
  <2>4. ASSUME NEW u \in Types, NEW q \in Rows, <<u, q>> \notin unpromised',
               ~write_page_en'[u] \/ (u = VAR_TYPE /\ cur = VAR_TYPE /\ (InSave \/ pc = "clear"))
        PROVE  ram'[u][q] = ram[u][q] /\ <<u, q>> \notin unpromised
               /\ (~write_page_en[u] \/ (u = VAR_TYPE /\ cur = VAR_TYPE))
    BY <1>5, <1>6, <2>1, <2>2, <2>4
  <2>5. ASSUME InSave', cur' = VAR_TYPE \/ ~write_page_en'[cur'],
               NEW q \in Rows, Copied(q)', <<cur', q>> \notin unpromised'
        PROVE  tempbuf'[q] = ram'[cur'][q]
    <3>1. cur \in Types /\ InSave /\ Copied(q) /\ cur' = cur
      BY <1>3, <2>5 DEF IInv, TypeOK, InSave, Copied
    <3>2. ram'[cur][q] = ram[cur][q] /\ <<cur, q>> \notin unpromised /\ (~write_page_en[cur] \/ cur = VAR_TYPE)
      BY <2>4, <2>5, <3>1
    <3>3. QED
      BY <1>2, <1>3, <3>1, <3>2 DEF IInv, StoreInv
  <2>6. ASSUME pc' = "clear", NEW q \in Rows, <<VAR_TYPE, q>> \notin unpromised'
        PROVE  Recovered(VAR_TYPE)'[q] = ram'[VAR_TYPE][q]
    <3>1. pc = "clear" /\ cur = VAR_TYPE
      BY <1>3, <2>6 DEF IInv, ControlInv
    <3>2. VAR_TYPE \in Types
      BY DEF Types
    <3>3. ram'[VAR_TYPE][q] = ram[VAR_TYPE][q] /\ <<VAR_TYPE, q>> \notin unpromised
      BY <2>4, <2>6, <3>1, <3>2
    <3>4. Recovered(VAR_TYPE)' = Recovered(VAR_TYPE)
      BY <2>3, <3>2
    <3>5. QED
      BY <3>1, <3>3, <3>4 DEF IInv, StoreInv
  <2>7. ASSUME NEW u \in Types, NEW q \in Rows, ~write_page_en'[u], ~Saving(u)', <<u, q>> \notin unpromised'
        PROVE  Recovered(u)'[q] = ram'[u][q]
    <3>1. ram'[u][q] = ram[u][q] /\ <<u, q>> \notin unpromised /\ ~write_page_en[u]
      BY <2>2, <2>4, <2>7
    <3>2. ~Saving(u)
      BY <1>2, <1>3, <2>7 DEF Saving
    <3>3. QED
      BY <1>2, <2>3, <3>1, <3>2 DEF IInv, StoreInv, StoredWhenClean
  <2>8. QED
    BY <2>5, <2>6, <2>7 DEF StoreInv, StoredWhenClean
<1>11. SinceInv'
  <2>1. \A u \in Types, q \in Rows : since[u][q] \subseteq since'[u][q]
    BY <1>4 DEF IInv, TypeOK
  <2>2. \A u \in Types, q \in Rows : ram'[u][q] = ram[u][q] \/ ram'[u][q] \in since'[u][q]
    BY <1>4 DEF IInv, TypeOK
  <2>3. QED
    BY <1>2, <1>3, <2>1, <2>2 DEF IInv, SinceInv, InSave, Copied, TypeOK
<1>12. QED
  BY <1>1, <1>7, <1>8, <1>9, <1>10, <1>11 DEF IInv

(* A step between two tables in the flash task: nothing is being saved, and *)
(* every table that is not marked is stored.                               *)
LEMMA InvBetween ==
  ASSUME IInv, TypeOK', ~booting, ~booting', pc' \in {"sleep", "test"},
         UNCHANGED <<ram, page, written, unpromised>>,
         StoredWhenClean'
  PROVE  IInv'
<1>1. ControlInv' /\ BufferInv' /\ SinceInv'
  BY DEF ControlInv, BufferInv, SinceInv, InSave
<1>2. PageInv'
  BY DEF IInv, PageInv, InSave
<1>3. LoadInv'
  BY DEF IInv, LoadInv, Loaded
<1>4. StoreInv'
  BY DEF StoreInv, InSave
<1>5. QED
  BY <1>1, <1>2, <1>3, <1>4 DEF IInv

LEMMA InvTestMark == IInv /\ TestMark => IInv'
<1> SUFFICES ASSUME IInv, TestMark PROVE IInv'
  OBVIOUS
<1>1. TypeOK'
  BY TypeStep DEF IInv, Next, Save
<1>2. pc = "test" /\ ~booting /\ UNCHANGED <<ram, page, written, tempbuf, unpromised>>
  BY DEF TestMark, flash, history
<1>3. CASE write_page_en[cur]
  <2>1. pc' = "erase" /\ ~booting' /\ cur' = cur
    BY <1>2, <1>3, Zenon DEF TestMark
  <2>2. write_page_en' = [write_page_en EXCEPT ![cur] = @ /\ cur \notin ClearedFirst]
    BY <1>3 DEF TestMark
  <2>3. \A t \in Types : t # cur => write_page_en'[t] = write_page_en[t]
    BY <2>2 DEF IInv, TypeOK
  <2>4. cur = VAR_TYPE => write_page_en'[VAR_TYPE]
    BY <1>3, <2>2, TypesAre DEF IInv, TypeOK, ClearedFirst
  <2>5. ControlInv' /\ BufferInv' /\ SinceInv'
    BY <2>1, <2>4 DEF ControlInv, BufferInv, SinceInv, InSave
  <2>6. PageInv' /\ LoadInv'
    BY <1>2, <2>1 DEF IInv, PageInv, LoadInv, Loaded, InSave
  <2>7. StoredWhenClean'
    BY <1>2, <2>1, <2>3 DEF IInv, StoreInv, StoredWhenClean, Saving, Recovered
  <2>8. QED
    BY <1>1, <2>1, <2>5, <2>6, <2>7 DEF IInv, StoreInv, InSave
<1>4. CASE ~write_page_en[cur]
  <2>1. Advance /\ UNCHANGED write_page_en
    BY <1>4, Zenon DEF TestMark
  <2>2. ~booting' /\ pc' \in {"sleep", "test"}
    BY <1>2, <2>1, AdvanceSave DEF IInv
  <2>3. StoredWhenClean'
    BY <1>2, <2>1, <2>2 DEF IInv, StoreInv, StoredWhenClean, Saving, Recovered
  <2>4. QED
    BY <1>1, <1>2, <2>2, <2>3, InvBetween
<1>5. QED
  BY <1>3, <1>4

LEMMA InvClearMark == IInv /\ ClearMark => IInv'
<1> SUFFICES ASSUME IInv, ClearMark PROVE IInv'
  OBVIOUS
<1>1. TypeOK'
  BY TypeStep DEF IInv, Next, Save
<1>2. pc = "clear" /\ cur = VAR_TYPE /\ UNCHANGED <<ram, page, written, unpromised>>
  BY DEF ClearMark, flash, history, IInv, ControlInv
<1>3. ~booting
  BY <1>2 DEF IInv, ControlInv
<1>4. Advance
  BY DEF ClearMark
<1>5. ~booting' /\ pc' \in {"sleep", "test"}
  BY <1>3, <1>4, AdvanceSave DEF IInv
<1>6. \A t \in Types : t # VAR_TYPE => write_page_en'[t] = write_page_en[t]
  BY <1>2 DEF ClearMark, IInv, TypeOK
<1>7. StoredWhenClean'
  <2> SUFFICES ASSUME NEW t \in Types, NEW r \in Rows, ~write_page_en'[t], <<t, r>> \notin unpromised
               PROVE  Recovered(t)[r] = ram[t][r]
    BY <1>2 DEF StoredWhenClean, Recovered
  <2>1. CASE t = VAR_TYPE
    BY <1>2, <2>1 DEF IInv, StoreInv
  <2>2. CASE t # VAR_TYPE
    BY <1>2, <1>3, <1>6, <2>2 DEF IInv, StoreInv, StoredWhenClean, Saving
  <2>3. QED
    BY <2>1, <2>2
<1>8. QED
  BY <1>1, <1>2, <1>3, <1>5, <1>7, InvBetween

LEMMA InvSaveErase == IInv /\ SaveErase => IInv'
<1> SUFFICES ASSUME IInv, SaveErase PROVE IInv'
  OBVIOUS
<1>1. TypeOK'
  BY TypeStep DEF IInv, Next, Save
<1>2. /\ pc = "erase" /\ pc' = "copy" /\ row' = 0
      /\ UNCHANGED <<ram, write_page_en, tempbuf, cur, unpromised>>
  BY DEF SaveErase, memory
<1>3. ~booting /\ booting' = booting /\ unlocked'
  BY DEF SaveErase, ErasePage
<1>4. /\ page' = [page EXCEPT ![cur] = Blank]
      /\ \A t \in Types : written'[t] = (written[t] /\ t # cur)
  BY DEF SaveErase, ErasePage, IInv, TypeOK
<1>5. since' = [since EXCEPT ![cur] = [r \in Rows |-> {ram[cur][r]}]]
  BY DEF SaveErase
<1>6. cur \in Types
  BY DEF IInv, TypeOK
<1>7. \A r \in Rows : ~Copied(r)' /\ ~Put(r)'
  BY <1>2 DEF Copied, Put, Rows
<1>8. ControlInv'
  BY <1>2, <1>3, <1>4, <1>6 DEF IInv, ControlInv, InSave
<1>9. BufferInv'
  BY <1>7 DEF BufferInv
<1>10. PageInv'
  <2>1. \A t \in Types : written'[t] => page'[t] \in [Rows -> Names]
    BY <1>4 DEF IInv, PageInv, TypeOK
  <2>2. \A r \in Rows : page'[cur][r] = Erased
    BY <1>4, <1>6 DEF IInv, TypeOK, Blank
  <2>3. QED
    BY <1>2, <1>7, <2>1, <2>2 DEF PageInv
<1>11. LoadInv'
  BY <1>2, <1>3 DEF IInv, LoadInv, Loaded
<1>12. StoreInv'
  <2>1. StoredWhenClean'
    <3> SUFFICES ASSUME NEW t \in Types, NEW r \in Rows, ~write_page_en[t], ~Saving(t)',
                        <<t, r>> \notin unpromised
                 PROVE  Recovered(t)'[r] = ram[t][r]
      BY <1>2 DEF StoredWhenClean
    <3>1. t # cur
      BY <1>2, <1>3 DEF Saving
    <3>2. ~Saving(t)
      BY <3>1 DEF Saving
    <3>3. Recovered(t)' = Recovered(t)
      BY <1>4, <3>1 DEF Recovered, IInv, TypeOK
    <3>4. QED
      BY <1>3, <3>2, <3>3 DEF IInv, StoreInv, StoredWhenClean
  <2>2. QED
    BY <1>2, <1>7, <2>1 DEF StoreInv
<1>13. SinceInv'
  BY <1>2, <1>5, <1>6, <1>7 DEF SinceInv, IInv, TypeOK
<1>14. QED
  BY <1>1, <1>8, <1>9, <1>10, <1>11, <1>12, <1>13 DEF IInv

(* The next row, or the next stage: what has been done grows by this row.  *)
LEMMA RowDone ==
  ASSUME TypeOK, NEW then, NextRow(then)
  PROVE  \/ pc' = pc /\ row' = row + 1
         \/ pc' = then /\ row' = 0 /\ \A r \in Rows : r <= row
BY StoreAssumption DEF TypeOK, NextRow, Rows

LEMMA InvCopyRow == IInv /\ CopyRow => IInv'
<1> SUFFICES ASSUME IInv, CopyRow PROVE IInv'
  OBVIOUS
<1>1. TypeOK'
  BY TypeStep DEF IInv, Next, Program
<1>2. /\ pc = "copy" /\ tempbuf' = [tempbuf EXCEPT ![row] = ram[cur][row]]
      /\ unpromised' = unpromised \ {<<cur, row>>}
      /\ UNCHANGED <<ram, write_page_en, page, written, unlocked, cur, since>>
  BY DEF CopyRow, flash
<1>3. booting' = booting
  BY DEF CopyRow
<1>4. /\ pc' \in {"copy", "write"} /\ row \in Rows /\ cur \in Types
      /\ \A r \in Rows : Copied(r)' => Copied(r) \/ r = row
      /\ \A r \in Rows : ~Put(r) /\ ~Put(r)'
  <2>1. \/ pc' = pc /\ row' = row + 1
        \/ pc' = "write" /\ row' = 0 /\ \A r \in Rows : r <= row
    BY RowDone DEF CopyRow, IInv
  <2>2. QED
    BY <1>2, <2>1 DEF Copied, Put, IInv, TypeOK, Rows
<1>5. \A r \in Rows : tempbuf'[r] = IF r = row THEN ram[cur][r] ELSE tempbuf[r]
  BY <1>2 DEF IInv, TypeOK
<1>6. ControlInv'
  BY <1>2, <1>3, <1>4 DEF IInv, ControlInv, InSave
<1>7. ram[cur][row] \in Names /\ (booting => ram[cur][row] = Default)
  <2>1. CASE booting
    BY <1>2, <1>4, <2>1, StoreAssumption DEF IInv, LoadInv, InSave, Factory
  <2>2. CASE ~booting
    BY <1>4, <2>2 DEF IInv, LoadInv, Loaded
  <2>3. QED
    BY <2>1, <2>2
<1>8. BufferInv'
  BY <1>2, <1>3, <1>4, <1>5, <1>7 DEF IInv, BufferInv, InSave
<1>9. PageInv'
  BY <1>2, <1>4 DEF IInv, PageInv, InSave
<1>10. LoadInv'
  BY <1>2, <1>3, <1>4 DEF IInv, LoadInv, Loaded, InSave, Recovered
<1>11. StoreInv'
  <2>1. ASSUME ~booting, cur = VAR_TYPE \/ ~write_page_en[cur], NEW r \in Rows, Copied(r)',
               <<cur, r>> \notin unpromised'
        PROVE  tempbuf'[r] = ram[cur][r]
    <3>1. CASE r = row
      BY <1>5, <3>1
    <3>2. CASE r # row
      BY <1>2, <1>4, <1>5, <2>1, <3>2 DEF IInv, StoreInv, InSave
    <3>3. QED
      BY <3>1, <3>2
  <2>2. StoredWhenClean'
    <3> SUFFICES ASSUME NEW t \in Types, NEW r \in Rows, ~booting, ~write_page_en[t], ~Saving(t)',
                        <<t, r>> \notin unpromised'
                 PROVE  Recovered(t)[r] = ram[t][r]
      BY <1>2, <1>3 DEF StoredWhenClean, Recovered
    <3>1. t # cur
      BY <1>2, <1>3, <1>4 DEF Saving
    <3>2. ~Saving(t) /\ <<t, r>> \notin unpromised
      BY <1>2, <3>1 DEF Saving
    <3>3. QED
      BY <3>2 DEF IInv, StoreInv, StoredWhenClean
  <2>3. QED
    BY <1>2, <1>3, <1>4, <2>1, <2>2 DEF StoreInv
<1>12. SinceInv'
  BY <1>2, <1>3, <1>4, <1>5 DEF IInv, SinceInv, InSave
<1>13. QED
  BY <1>1, <1>6, <1>8, <1>9, <1>10, <1>11, <1>12 DEF IInv

LEMMA InvWriteRow == IInv /\ WriteRow => IInv'
<1> SUFFICES ASSUME IInv, WriteRow PROVE IInv'
  OBVIOUS
<1>1. TypeOK'
  BY TypeStep DEF IInv, Next, Program
<1>2. /\ pc = "write"
      /\ page' = IF unlocked /\ page[cur][row] = Erased
                 THEN [page EXCEPT ![cur][row] = tempbuf[row]] ELSE page
      /\ UNCHANGED <<ram, write_page_en, tempbuf, written, unlocked, cur, since, unpromised>>
  BY DEF WriteRow, memory, history
<1>3. booting' = booting
  BY DEF WriteRow
<1>4. /\ pc' \in {"write", "mark"} /\ row \in Rows /\ cur \in Types
      /\ \A r \in Rows : Copied(r) /\ Copied(r)'
      /\ \A r \in Rows : Put(r)' <=> Put(r) \/ r = row
      /\ ~Put(row)
  <2>1. \/ pc' = pc /\ row' = row + 1
        \/ pc' = "mark" /\ row' = 0 /\ \A r \in Rows : r <= row
    BY RowDone DEF WriteRow, IInv
  <2>2. QED
    BY <1>2, <2>1 DEF Copied, Put, IInv, TypeOK, Rows
<1>5. InSave /\ InSave' /\ ~written[cur]
  BY <1>2, <1>4 DEF InSave, IInv, ControlInv
<1>6. \A t \in Types : t # cur => page'[t] = page[t]
  BY <1>2 DEF IInv, TypeOK
<1>7. \A t \in Types : Recovered(t)' = Recovered(t)
  BY <1>2, <1>5, <1>6 DEF Recovered
<1>8. ControlInv'
  BY <1>2, <1>3, <1>4 DEF IInv, ControlInv, InSave
<1>9. BufferInv'
  BY <1>2, <1>3, <1>4, <1>5 DEF IInv, BufferInv
<1>10. PageInv'
  <2>1. \A t \in Types : written'[t] => page'[t] \in [Rows -> Names]
    BY <1>2, <1>5, <1>6 DEF IInv, PageInv
  <2>2. ASSUME unlocked, NEW r \in Rows
        PROVE  page'[cur][r] = IF Put(r)' THEN tempbuf[r] ELSE Erased
    <3>1. page[cur][row] = Erased
      BY <1>4, <1>5, <2>2 DEF IInv, PageInv
    <3>2. page'[cur][r] = IF r = row THEN tempbuf[r] ELSE page[cur][r]
      BY <1>2, <1>4, <2>2, <3>1 DEF IInv, TypeOK
    <3>3. QED
      BY <1>4, <1>5, <2>2, <3>2 DEF IInv, PageInv
  <2>3. QED
    BY <1>2, <2>1, <2>2 DEF PageInv
<1>11. LoadInv'
  BY <1>2, <1>3, <1>5, <1>7 DEF IInv, LoadInv, Loaded
<1>12. StoreInv'
  <2>1. \A t \in Types : Saving(t)' = Saving(t)
    BY <1>2, <1>3, <1>4 DEF Saving
  <2>2. StoredWhenClean'
    BY <1>2, <1>3, <1>7, <2>1 DEF IInv, StoreInv, StoredWhenClean
  <2>3. pc' # "clear"
    BY <1>4
  <2>4. QED
    BY <1>2, <1>3, <1>4, <1>5, <2>2, <2>3 DEF IInv, StoreInv
<1>13. SinceInv'
  BY <1>2, <1>3, <1>4, <1>5 DEF IInv, SinceInv
<1>14. QED
  BY <1>1, <1>8, <1>9, <1>10, <1>11, <1>12, <1>13 DEF IInv

(* A step to the next table while the program boots: the table left behind *)
(* is what a restart would load.                                           *)
LEMMA BootLoads ==
  ASSUME IInv, booting, Advance,
         \A t \in Types : t # cur => ram'[t] = ram[t] /\ Recovered(t)' = Recovered(t),
         \A t \in Types : t = cur => ram'[t] = Recovered(t)' /\ ram'[t] \in [Rows -> Names],
         NEW t \in Types, Loaded(t)'
  PROVE  ram'[t] = Recovered(t)' /\ ram'[t] \in [Rows -> Names]
<1>1. Loaded(t) \/ t = cur
  BY AdvanceBoot, TypesAre DEF Loaded, IInv
<1>2. CASE t = cur
  BY <1>2
<1>3. CASE t # cur
  BY <1>1, <1>3 DEF IInv, LoadInv
<1>4. QED
  BY <1>2, <1>3

LEMMA InvBoot ==
  ASSUME IInv, TypeOK', booting, Advance,
         \A t \in Types : written'[t] => page'[t] \in [Rows -> Names],
         \A t \in Types : t # cur => ram'[t] = ram[t] /\ Recovered(t)' = Recovered(t),
         \A t \in Types : t = cur => ram'[t] = Recovered(t)' /\ ram'[t] \in [Rows -> Names]
  PROVE  IInv'
<1>1. (pc' = "test" /\ booting') \/ (pc' = "sleep" /\ ~booting')
  BY AdvanceBoot DEF IInv
<1>2. ControlInv' /\ BufferInv' /\ SinceInv' /\ PageInv'
  BY <1>1 DEF ControlInv, BufferInv, SinceInv, PageInv, InSave
<1>3. \A t \in Types : Loaded(t)' => ram'[t] = Recovered(t)' /\ ram'[t] \in [Rows -> Names]
  BY BootLoads
<1>4. LoadInv'
  BY <1>1, <1>3 DEF LoadInv, InSave
<1>5. StoredWhenClean'
  <2>1. ~booting' => \A t \in Types : Loaded(t)'
    BY DEF Loaded
  <2>2. QED
    BY <1>3, <2>1 DEF StoredWhenClean
<1>6. StoreInv'
  BY <1>1, <1>5 DEF StoreInv, InSave
<1>7. QED
  BY <1>2, <1>4, <1>6 DEF IInv

LEMMA InvLoadPage == IInv /\ LoadPage => IInv'
<1> SUFFICES ASSUME IInv, LoadPage PROVE IInv'
  OBVIOUS
<1>1. TypeOK'
  BY TypeStep DEF IInv, Next, Boot
<1>2. /\ booting /\ Advance /\ written[cur] /\ cur \in Types
      /\ ram' = [ram EXCEPT ![cur] = page[cur]]
      /\ UNCHANGED <<page, written>>
  BY DEF LoadPage, flash, IInv, TypeOK
<1>3. page[cur] \in [Rows -> Names]
  BY <1>2 DEF IInv, PageInv
<1>4. \A t \in Types : Recovered(t)' = Recovered(t)
  BY <1>2 DEF Recovered
<1>5. \A t \in Types : ram'[t] = IF t = cur THEN page[cur] ELSE ram[t]
  BY <1>2 DEF IInv, TypeOK
<1>6. \A t \in Types : t = cur => Recovered(t) = page[cur]
  BY <1>2 DEF Recovered
<1>7. \A t \in Types : written'[t] => page'[t] \in [Rows -> Names]
  BY <1>2 DEF IInv, PageInv
<1>8. QED
  BY <1>1, <1>2, <1>3, <1>4, <1>5, <1>6, <1>7, InvBoot

LEMMA InvLoadDefaults == IInv /\ LoadDefaults => IInv'
<1> SUFFICES ASSUME IInv, LoadDefaults PROVE IInv'
  OBVIOUS
<1>1. TypeOK'
  BY TypeStep DEF IInv, Next, Boot
<1>2. /\ pc = "test" /\ pc' = "copy" /\ row' = 0
      /\ ram' = [ram EXCEPT ![cur] = Factory]
      /\ UNCHANGED <<write_page_en, cur>>
  BY DEF LoadDefaults
<1>3. booting /\ booting' = booting /\ ~written[cur]
  BY DEF LoadDefaults
<1>4. cur \in Types
  BY DEF IInv, TypeOK
<1>5. /\ page' = IF unlocked' THEN [page EXCEPT ![cur] = Blank] ELSE page
      /\ \A t \in Types : written'[t] = written[t]
  BY <1>3, <1>4 DEF LoadDefaults, ErasePage, IInv, TypeOK
<1>6. \A r \in Rows : ~Copied(r)' /\ ~Put(r)'
  BY <1>2 DEF Copied, Put, Rows
<1>7. \A t \in Types : t # cur => ram'[t] = ram[t] /\ page'[t] = page[t]
  BY <1>2, <1>5 DEF IInv, TypeOK
<1>8. ControlInv'
  BY <1>2, <1>3, <1>4, <1>5 DEF ControlInv, InSave
<1>9. BufferInv' /\ SinceInv'
  BY <1>3, <1>6 DEF BufferInv, SinceInv
<1>10. PageInv'
  <2>1. \A t \in Types : written'[t] => page'[t] \in [Rows -> Names]
    BY <1>3, <1>5, <1>7 DEF IInv, PageInv
  <2>2. unlocked' => \A r \in Rows : page'[cur][r] = Erased
    BY <1>4, <1>5 DEF IInv, TypeOK, Blank
  <2>3. QED
    BY <1>2, <1>6, <2>1, <2>2 DEF PageInv
<1>11. LoadInv'
  <2>1. \A t \in Types : Loaded(t)' => Loaded(t) /\ t # cur
    BY <1>2, <1>3, <1>4, TypesAre DEF Loaded
  <2>2. \A t \in Types : t # cur => Recovered(t)' = Recovered(t)
    BY <1>5, <1>7 DEF Recovered
  <2>3. ram'[cur] = Factory
    BY <1>2, <1>4 DEF IInv, TypeOK
  <2>4. QED
    BY <1>2, <1>3, <1>7, <2>1, <2>2, <2>3 DEF IInv, LoadInv
<1>12. StoreInv'
  BY <1>2, <1>3 DEF StoreInv, StoredWhenClean
<1>13. QED
  BY <1>1, <1>8, <1>9, <1>10, <1>11, <1>12 DEF IInv

(* What a restart finds once the marker is written: while the program      *)
(* boots, the factory names; after a save, the buffer.                     *)
LEMMA Marked ==
  ASSUME IInv, WriteMarker
  PROVE  /\ \A t \in Types : t # cur => Recovered(t)' = Recovered(t)
         /\ \A t \in Types : t = cur => Recovered(t)' = IF booting THEN Factory ELSE tempbuf
         /\ tempbuf \in [Rows -> Names]
         /\ \A t \in Types : written'[t] => page'[t] \in [Rows -> Names]
<1>1. /\ pc = "mark" /\ page' = page /\ cur \in Types
      /\ written' = [written EXCEPT ![cur] = @ \/ unlocked]
  BY DEF WriteMarker, IInv, TypeOK
<1>2. InSave /\ \A r \in Rows : Copied(r) /\ Put(r)
  BY <1>1 DEF InSave, Copied, Put
<1>3. ~written[cur] /\ (~booting => unlocked)
  BY <1>2 DEF IInv, ControlInv
<1>4. \A t \in Types : IF t = cur THEN written'[t] <=> unlocked ELSE written'[t] = written[t]
  BY <1>1, <1>3 DEF IInv, TypeOK
<1>5. tempbuf \in [Rows -> Names] /\ (booting => tempbuf = Factory)
  <2>1. \A r \in Rows : tempbuf[r] \in Names /\ (booting => tempbuf[r] = Default)
    BY <1>2 DEF IInv, BufferInv
  <2>2. QED
    BY <2>1 DEF IInv, TypeOK, Factory
<1>6. unlocked => page[cur] = tempbuf
  <2>1. unlocked => \A r \in Rows : page[cur][r] = tempbuf[r]
    BY <1>2 DEF IInv, PageInv
  <2>2. QED
    BY <1>1, <2>1 DEF IInv, TypeOK
<1>7. \A t \in Types : t # cur => Recovered(t)' = Recovered(t)
  BY <1>1, <1>4 DEF Recovered
<1>8. \A t \in Types : t = cur => Recovered(t)' = IF booting THEN Factory ELSE tempbuf
  BY <1>1, <1>3, <1>4, <1>5, <1>6 DEF Recovered
<1>9. \A t \in Types : written'[t] => page'[t] \in [Rows -> Names]
  BY <1>1, <1>4, <1>5, <1>6 DEF IInv, PageInv
<1>10. QED
  BY <1>5, <1>7, <1>8, <1>9

LEMMA InvWriteMarker == IInv /\ WriteMarker => IInv'
<1> SUFFICES ASSUME IInv, WriteMarker PROVE IInv'
  OBVIOUS
<1>1. TypeOK'
  BY TypeStep DEF IInv, Next, Program
<1>2. pc = "mark" /\ cur \in Types /\ UNCHANGED <<ram, write_page_en, tempbuf, page, since, unpromised>>
  BY DEF WriteMarker, memory, history, IInv, TypeOK
<1>3. InSave /\ \A r \in Rows : Copied(r)
  BY <1>2 DEF InSave, Copied
<1>4. CASE booting
  <2>1. Advance
    BY <1>4, Zenon DEF WriteMarker
  <2>2. ram[cur] = Factory
    BY <1>3, <1>4 DEF IInv, LoadInv
  <2>3. QED
    BY <1>1, <1>2, <1>4, <2>1, <2>2, Marked, FactoryType, InvBoot
<1>5. CASE ~booting /\ cur \in ClearedFirst
  <2>1. Advance
    BY <1>5, Zenon DEF WriteMarker
  <2>2. ~booting' /\ pc' \in {"sleep", "test"}
    BY <1>5, <2>1, AdvanceSave DEF IInv
  <2>3. StoredWhenClean'
    <3> SUFFICES ASSUME NEW t \in Types, NEW r \in Rows, ~write_page_en[t], <<t, r>> \notin unpromised
                 PROVE  Recovered(t)'[r] = ram[t][r]
      BY <1>2 DEF StoredWhenClean
    <3>1. CASE t = cur
      BY <1>3, <1>5, <3>1, Marked DEF IInv, StoreInv
    <3>2. CASE t # cur
      BY <1>5, <3>2, Marked DEF IInv, StoreInv, StoredWhenClean, Saving
    <3>3. QED
      BY <3>1, <3>2
  <2>4. PageInv'
    BY <2>2, Marked DEF PageInv, InSave
  <2>5. ControlInv' /\ BufferInv' /\ SinceInv' /\ LoadInv'
    BY <1>2, <1>5, <2>2 DEF ControlInv, BufferInv, SinceInv, LoadInv, InSave, IInv, Loaded
  <2>6. StoreInv'
    BY <2>2, <2>3 DEF StoreInv, InSave
  <2>7. QED
    BY <1>1, <2>4, <2>5, <2>6 DEF IInv
<1>6. CASE ~booting /\ cur \notin ClearedFirst
  <2>1. pc' = "clear" /\ ~booting' /\ cur' = cur
    BY <1>6, Zenon DEF WriteMarker
  <2>2. cur = VAR_TYPE
    BY <1>2, <1>6, TypesAre DEF ClearedFirst
  <2>3. write_page_en[VAR_TYPE]
    BY <1>3, <1>6, <2>2 DEF IInv, ControlInv
  <2>4. \A r \in Rows : <<VAR_TYPE, r>> \notin unpromised => Recovered(VAR_TYPE)'[r] = ram[VAR_TYPE][r]
    <3>1. Recovered(VAR_TYPE)' = tempbuf
      BY <1>2, <1>6, <2>2, Marked
    <3>2. QED
      BY <1>3, <1>6, <2>2, <3>1 DEF IInv, StoreInv
  <2>5. StoredWhenClean'
    BY <1>2, <1>6, <2>2, <2>3, Marked DEF IInv, StoreInv, StoredWhenClean, Saving
  <2>6. StoreInv'
    BY <1>2, <2>1, <2>4, <2>5 DEF StoreInv, InSave
  <2>7. PageInv'
    BY <2>1, Marked DEF PageInv, InSave
  <2>8. ControlInv' /\ BufferInv' /\ SinceInv' /\ LoadInv'
    BY <1>2, <1>6, <2>1, <2>2, <2>3 DEF ControlInv, BufferInv, SinceInv, LoadInv, InSave, IInv, Loaded
  <2>9. QED
    BY <1>1, <2>6, <2>7, <2>8 DEF IInv
<1>7. QED
  BY <1>4, <1>5, <1>6

LEMMA InvStep == IInv /\ [Next]_vars => IInv'
<1> SUFFICES ASSUME IInv, [Next]_vars PROVE IInv'
  OBVIOUS
<1>1. CASE UNCHANGED vars
  BY <1>1, TypeStep
     DEF vars, memory, flash, control, count, history, IInv, TypeOK, ControlInv, BufferInv, PageInv, LoadInv,
         StoreInv, StoredWhenClean, SinceInv, InSave, Copied, Put, Loaded, Recovered, Saving
<1>2. CASE Next
  BY <1>2, InvRestart, InvWake, InvClients, InvTestMark, InvClearMark, InvSaveErase,
     InvCopyRow, InvWriteRow, InvWriteMarker, InvLoadPage, InvLoadDefaults
     DEF Next, Boot, Save, Program, Clients
<1>3. QED
  BY <1>1, <1>2

LEMMA Invariant == Spec => []IInv
<1>1. Init => IInv
  BY InvInit
<1>2. IInv /\ [Next]_vars => IInv'
  BY InvStep
<1>3. QED
  BY <1>1, <1>2, PTL DEF Spec

-----------------------------------------------------------------------------
(* However often and wherever the controller is restarted, a page with the *)
(* marker is complete and the tasks work on names only: mass_flash_init    *)
(* never loads a page that Flash_Write_Mass has not finished.              *)
THEOREM TablesAreWhole == Spec => []WholeTables
<1>1. IInv => WholeTables
  <2> SUFFICES ASSUME IInv PROVE WholeTables
    OBVIOUS
  <2>1. \A t \in Types : written[t] => page[t] \in [Rows -> Names]
    BY DEF IInv, PageInv
  <2>2. ~booting => ram \in [Types -> [Rows -> Names]]
    BY DEF IInv, LoadInv, Loaded, TypeOK
  <2>3. QED
    BY <2>1, <2>2 DEF WholeTables
<1>2. QED
  BY <1>1, Invariant, PTL

(* A table that is not marked in write_page_en and is not being saved is   *)
(* stored, in every row whose last change came through BACnet and, for the *)
(* variables, not during a save.                                           *)
THEOREM CleanIsStored == Spec => []StoredWhenClean
<1>1. IInv => StoredWhenClean
  BY DEF IInv, StoreInv
<1>2. QED
  BY <1>1, Invariant, PTL

-----------------------------------------------------------------------------
(* The pages implement DurableTable. *)

LEMMA SameFactory == Durable!Factory = Factory
BY DEF Durable!Factory, Factory

LEMMA TableInit == Init => Durable!Init
<1> SUFFICES ASSUME Init PROVE Durable!Init
  OBVIOUS
<1>1. booting /\ cur = OUT_TYPE /\ \A t \in Types : ~written[t]
  BY DEF Init
<1>2. \A t \in Types : ~Loaded(t) /\ Recovered(t) = Factory
  BY <1>1, TypesAre DEF Loaded, Recovered
<1>3. Current = [t \in Types |-> Factory] /\ Stored = [t \in Types |-> Factory]
  BY <1>2 DEF Current, Stored
<1>4. Busy = None
  BY <1>1 DEF Busy
<1>5. QED
  BY <1>3, <1>4, SameFactory DEF Durable!Init, Init

(* While the program boots, the table is what a restart would find. *)
LEMMA BootedAsStored == IInv /\ booting => Current = Stored
BY DEF IInv, LoadInv, Current, Stored

(* A step of the boot that leaves what a restart would find alone.         *)
LEMMA BootStutters ==
  ASSUME IInv, booting, Stored' = Stored, since' = since,
         \A t \in Types : Loaded(t)' => ram'[t] = Recovered(t)',
         booting' \/ pc' = "sleep"
  PROVE  UNCHANGED Durable!vars
<1>1. Current' = Stored'
  BY DEF Current, Stored
<1>2. Busy = None /\ Busy' = None
  BY DEF Busy
<1>3. QED
  BY <1>1, <1>2, BootedAsStored DEF Durable!vars

LEMMA TableWake == IInv /\ (Wake \/ TestMark \/ ClearMark) => UNCHANGED Durable!vars
<1> SUFFICES ASSUME IInv, Wake \/ TestMark \/ ClearMark PROVE UNCHANGED Durable!vars
  OBVIOUS
<1>1. UNCHANGED <<ram, page, written, since>>
  BY DEF Wake, TestMark, ClearMark, memory, flash, history
<1>2. pc \in {"sleep", "test", "clear"} /\ ~booting
  BY DEF Wake, TestMark, ClearMark, IInv, ControlInv
<1>3. ~booting' /\ pc' \in {"sleep", "test", "erase"}
  <2>1. CASE Wake
    BY <1>2, <2>1, Zenon DEF Wake
  <2>2. CASE TestMark /\ write_page_en[cur]
    BY <1>2, <2>2, Zenon DEF TestMark
  <2>3. CASE (TestMark /\ ~write_page_en[cur]) \/ ClearMark
    <3>1. Advance
      BY <2>3, Zenon DEF TestMark, ClearMark
    <3>2. QED
      BY <1>2, <3>1, AdvanceSave DEF IInv
  <2>4. QED
    BY <2>1, <2>2, <2>3
<1>4. Current' = Current /\ Stored' = Stored
  BY <1>1, <1>2, <1>3 DEF Current, Stored, Loaded, Recovered
<1>5. Busy = None /\ Busy' = None
  BY <1>2, <1>3 DEF Busy
<1>6. QED
  BY <1>1, <1>4, <1>5 DEF Durable!vars

LEMMA TableRows == IInv /\ (CopyRow \/ WriteRow) => UNCHANGED Durable!vars
<1> SUFFICES ASSUME IInv, CopyRow \/ WriteRow PROVE UNCHANGED Durable!vars
  OBVIOUS
<1>1. UNCHANGED <<ram, written, cur, since>>
  BY DEF CopyRow, WriteRow, memory, flash, history
<1>2. booting' = booting
  BY DEF CopyRow, WriteRow
<1>3. pc \in {"copy", "write"} /\ pc' \in {"copy", "write", "mark"}
  BY RowDone DEF CopyRow, WriteRow, IInv
<1>4. \A t \in Types : written[t] => page'[t] = page[t]
  <2>1. ~written[cur]
    BY <1>3 DEF IInv, ControlInv, InSave
  <2>2. CASE CopyRow
    BY <2>2 DEF CopyRow, flash
  <2>3. CASE WriteRow
    BY <2>1, <2>3 DEF WriteRow, IInv, TypeOK
  <2>4. QED
    BY <2>2, <2>3
<1>5. Current' = Current /\ Stored' = Stored
  BY <1>1, <1>2, <1>4 DEF Current, Stored, Loaded, Recovered
<1>6. Busy' = Busy
  BY <1>1, <1>2, <1>3 DEF Busy
<1>7. QED
  BY <1>1, <1>5, <1>6 DEF Durable!vars

LEMMA TableBegin == IInv /\ SaveErase => \E t \in Types : Durable!Begin(t)
<1> SUFFICES ASSUME IInv, SaveErase PROVE Durable!Begin(cur)
  BY DEF IInv, TypeOK
<1>1. /\ pc = "erase" /\ pc' = "copy" /\ cur \in Types
      /\ UNCHANGED <<ram, cur>>
      /\ since' = [since EXCEPT ![cur] = [r \in Rows |-> {ram[cur][r]}]]
  BY DEF SaveErase, memory, IInv, TypeOK
<1>2. ~booting /\ ~booting'
  <2>1. ~booting /\ booting' = booting
    BY DEF SaveErase
  <2>2. QED
    BY <2>1, Zenon
<1>3. \A t \in Types : Recovered(t)' = IF t = cur THEN Factory ELSE Recovered(t)
  <2>1. /\ \A t \in Types : written'[t] = (written[t] /\ t # cur)
        /\ \A t \in Types : t # cur => page'[t] = page[t]
    BY DEF SaveErase, ErasePage, IInv, TypeOK
  <2>2. QED
    BY <2>1 DEF Recovered
<1>4. Stored' = [Stored EXCEPT ![cur] = Factory]
  BY <1>3 DEF Stored
<1>5. Current = [t \in Types |-> ram[t]] /\ Current' = Current
  BY <1>1, <1>2 DEF Current, Loaded
<1>6. Current[cur] = ram[cur]
  BY <1>1, <1>5
<1>7. Busy = None /\ Busy' = cur
  BY <1>1, <1>2 DEF Busy
<1>8. QED
  BY <1>1, <1>4, <1>5, <1>6, <1>7, SameFactory DEF Durable!Begin

LEMMA TableCommit == IInv /\ WriteMarker => (\E t \in Types : Durable!Commit(t)) \/ UNCHANGED Durable!vars
<1> SUFFICES ASSUME IInv, WriteMarker
             PROVE  (\E t \in Types : Durable!Commit(t)) \/ UNCHANGED Durable!vars
  OBVIOUS
<1>1. pc = "mark" /\ cur \in Types /\ UNCHANGED <<ram, since>>
  BY DEF WriteMarker, memory, history, IInv, TypeOK
<1>2. InSave /\ \A r \in Rows : Copied(r)
  BY <1>1 DEF InSave, Copied
<1>3. CASE booting
  <2>1. Advance
    BY <1>3, Zenon DEF WriteMarker
  <2>2. booting' \/ pc' = "sleep"
    BY <1>3, <2>1, AdvanceBoot DEF IInv
  <2>3. ~written[cur] /\ ram[cur] = Factory
    BY <1>2, <1>3 DEF IInv, ControlInv, LoadInv
  <2>4. \A t \in Types : t = cur => Recovered(t)' = Factory /\ Recovered(t) = Factory
    BY <1>3, <2>3, Marked DEF Recovered
  <2>5. Stored' = Stored
    BY <2>4, Marked DEF Stored
  <2>6. \A t \in Types : Loaded(t)' => ram'[t] = Recovered(t)'
    BY <1>1, <1>3, <2>1, <2>3, <2>4, Marked, FactoryType, BootLoads
  <2>7. QED
    BY <1>1, <1>3, <2>2, <2>5, <2>6, BootStutters
<1>4. CASE ~booting
  <2>1. ~booting' /\ pc' \in {"sleep", "test", "clear"}
    <3>1. CASE cur \in ClearedFirst
      BY <1>4, <3>1, AdvanceSave DEF WriteMarker, IInv
    <3>2. CASE cur \notin ClearedFirst
      BY <1>4, <3>2, Zenon DEF WriteMarker
    <3>3. QED
      BY <3>1, <3>2
  <2>2. Busy = cur /\ Busy' = None
    BY <1>1, <1>4, <2>1 DEF Busy
  <2>3. Current' = Current
    BY <1>1, <1>4, <2>1 DEF Current, Loaded
  <2>4. Stored' = [Stored EXCEPT ![cur] = tempbuf]
    BY <1>1, <1>4, Marked DEF Stored
  <2>5. tempbuf \in [Rows -> Names] /\ \A r \in Rows : tempbuf[r] \in since[cur][r]
    BY <1>2, <1>4, Marked DEF IInv, SinceInv
  <2>6. Durable!Commit(cur)
    BY <1>1, <2>2, <2>3, <2>4, <2>5 DEF Durable!Commit
  <2>7. QED
    BY <1>1, <2>6
<1>5. QED
  BY <1>3, <1>4

LEMMA TableLoad == IInv /\ Boot => UNCHANGED Durable!vars
<1> SUFFICES ASSUME IInv, Boot PROVE UNCHANGED Durable!vars
  OBVIOUS
<1>1. booting /\ pc = "test" /\ cur \in Types
  BY DEF Boot, LoadPage, LoadDefaults, IInv, TypeOK
<1>2. CASE LoadPage
  <2>1. Advance /\ written[cur] /\ UNCHANGED <<page, written, since>> /\ ram' = [ram EXCEPT ![cur] = page[cur]]
    BY <1>2 DEF LoadPage, flash, history
  <2>2. \A t \in Types : Recovered(t)' = Recovered(t)
    BY <2>1 DEF Recovered
  <2>3. \A t \in Types : ram'[t] = IF t = cur THEN Recovered(t) ELSE ram[t]
    BY <2>1 DEF Recovered, IInv, TypeOK
  <2>4. page[cur] \in [Rows -> Names]
    BY <1>1, <2>1 DEF IInv, PageInv
  <2>5. \A t \in Types : t = cur => ram'[t] \in [Rows -> Names]
    BY <2>1, <2>3, <2>4 DEF Recovered
  <2>6. \A t \in Types : Loaded(t)' => ram'[t] = Recovered(t)'
    BY <1>1, <2>1, <2>2, <2>3, <2>5, BootLoads
  <2>7. booting' \/ pc' = "sleep"
    BY <1>1, <2>1, AdvanceBoot DEF IInv
  <2>8. Stored' = Stored
    BY <2>2 DEF Stored
  <2>9. QED
    BY <1>1, <2>1, <2>6, <2>7, <2>8, BootStutters
<1>3. CASE LoadDefaults
  <2>1. UNCHANGED <<cur, since>> /\ ~written[cur] /\ ram' = [ram EXCEPT ![cur] = Factory]
    BY <1>3 DEF LoadDefaults, history
  <2>2. booting' = booting
    BY <1>3 DEF LoadDefaults
  <2>3. \A t \in Types : written'[t] = written[t] /\ (t # cur => page'[t] = page[t])
    BY <1>3, <2>1 DEF LoadDefaults, ErasePage, IInv, TypeOK
  <2>4. \A t \in Types : Recovered(t)' = Recovered(t)
    BY <2>1, <2>3 DEF Recovered
  <2>5. \A t \in Types : Loaded(t)' => Loaded(t) /\ t # cur
    BY <1>1, <2>1, <2>2, TypesAre DEF Loaded
  <2>6. \A t \in Types : t # cur => ram'[t] = ram[t]
    BY <2>1 DEF IInv, TypeOK
  <2>7. \A t \in Types : Loaded(t)' => ram'[t] = Recovered(t)'
    BY <1>1, <2>4, <2>5, <2>6 DEF IInv, LoadInv
  <2>8. Stored' = Stored
    BY <2>4 DEF Stored
  <2>9. QED
    BY <1>1, <2>1, <2>2, <2>7, <2>8, BootStutters
<1>4. QED
  BY <1>2, <1>3 DEF Boot

LEMMA TableChange ==
  ASSUME IInv, NEW t \in Types, NEW r \in Rows, NEW n \in Names,
         write_bacnet(t, r, n) \/ write_user_data_by_block(t, r, n)
  PROVE  Durable!Change(t, r, n)
<1>1. ~booting /\ ~booting'
  <2>1. ~booting /\ booting' = booting
    BY DEF write_bacnet, write_user_data_by_block, control
  <2>2. QED
    BY <2>1, Zenon
<1>2. /\ UNCHANGED <<pc, cur, page, written>>
      /\ ram' = [ram EXCEPT ![t][r] = n]
      /\ since' = [since EXCEPT ![t][r] = @ \cup {n}]
  BY DEF write_bacnet, write_user_data_by_block, flash, control
<1>3. Stored' = Stored
  BY <1>2 DEF Stored, Recovered
<1>4. Busy' = Busy
  BY <1>1, <1>2 DEF Busy
<1>5. Current = ram /\ Current' = ram'
  <2>1. Current = [u \in Types |-> ram[u]] /\ Current' = [u \in Types |-> ram'[u]]
    BY <1>1 DEF Current, Loaded
  <2>2. QED
    BY <1>2, <2>1 DEF IInv, TypeOK
<1>6. QED
  BY <1>2, <1>3, <1>4, <1>5 DEF Durable!Change

LEMMA TableRestart == IInv /\ Restart => Durable!Restart
<1> SUFFICES ASSUME IInv, Restart PROVE Durable!Restart
  OBVIOUS
<1>1. booting' /\ cur' = OUT_TYPE /\ UNCHANGED <<page, written, since>>
  BY DEF Restart
<1>2. Stored' = Stored
  BY <1>1 DEF Stored, Recovered
<1>3. \A t \in Types : ~Loaded(t)'
  BY <1>1, TypesAre DEF Loaded
<1>4. Current' = Stored
  BY <1>2, <1>3 DEF Current, Stored
<1>5. Busy' = None
  BY <1>1 DEF Busy
<1>6. QED
  BY <1>1, <1>2, <1>4, <1>5 DEF Durable!Restart

(* The tables and their pages behave as DurableTable promises: a restart   *)
(* finds a picture taken during the last finished save, or, if it cuts a   *)
(* save off, the factory names, and nothing else.                          *)
THEOREM ImplementsTable == Spec => DurableSpec
<1>1. Init => Durable!Init
  BY TableInit
<1>2. IInv /\ [Next]_vars => [Durable!Next]_(Durable!vars)
  <2> SUFFICES ASSUME IInv, [Next]_vars PROVE Durable!Next \/ UNCHANGED Durable!vars
    OBVIOUS
  <2>1. CASE UNCHANGED vars
    BY <2>1 DEF vars, memory, flash, control, history, Durable!vars, Current, Stored, Busy, Loaded, Recovered
  <2>2. CASE Boot
    BY <2>2, TableLoad
  <2>3. CASE Save
    BY <2>3, TableWake, TableBegin DEF Save, Durable!Next
  <2>4. CASE Program
    BY <2>4, TableRows, TableCommit DEF Program, Durable!Next
  <2>5. CASE Clients
    BY <2>5, TableChange DEF Clients, Durable!Next
  <2>6. CASE Restart
    BY <2>6, TableRestart DEF Durable!Next
  <2>7. QED
    BY <2>1, <2>2, <2>3, <2>4, <2>5, <2>6 DEF Next
<1>3. QED
  BY <1>1, <1>2, Invariant, PTL DEF Spec, DurableSpec, Durable!Spec
=============================================================================
