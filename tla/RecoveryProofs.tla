--------------------------- MODULE RecoveryProofs ---------------------------
(***************************************************************************)
(* Theorems about Recovery, for every number of chunks, lists and crashes. *)
(*                                                                         *)
(* RowsHaveParent and RowsFollow need that every list's rows are all there *)
(* or all gone and never say "sent"; LoadedIsTrue also that no list, row   *)
(* or state file calls a chunk acknowledged that never was.  RecoveryInv   *)
(* is the conjunction, and inductive.                                      *)
(***************************************************************************)
EXTENDS Recovery, FiniteSetTheorems, TLAPS

USE ChunksAssumption, StateAssumption, BoundsAssumption

\* The rows of a list are all there or all gone, and none says "sent".
RowsAllOrNone ==
    \A l \in List :
      \/ \A i \in Chunk : rows[l][i] = Absent
      \/ \A i \in Chunk : rows[l][i] \in {"pending", "acked", "failed"}

\* A list that was not built yet has no rows.
FutureHasNoRows ==
    /\ list <= made
    /\ \A l \in List : l > made => \A i \in Chunk : rows[l][i] = Absent

\* What is called acknowledged was acknowledged once.
AckedWasAcked ==
    \A i \in Chunk :
      /\ state[i] = "acked" => i \in ever
      /\ saved[i] = "acked" => i \in ever
      /\ \A l \in List : rows[l][i] = "acked" => i \in ever

RecoveryInv ==
    /\ TypeOK
    /\ RowsHaveParent
    /\ RowsAllOrNone
    /\ FutureHasNoRows
    /\ RowsFollow
    /\ AckedWasAcked

-----------------------------------------------------------------------------
LEMMA Basics ==
    /\ Chunk # {}
    /\ NoList \notin List
    /\ Nothing \notin Chunk
    /\ Absent \notin ItemState
    /\ NoRows \in [List -> [Chunk -> ItemState \cup {Absent}]]
    /\ AllPending \in States
BY DEF Chunk, NoList, List, Nothing, Absent, ItemState, NoRows, AllPending,
       States

\* Once no list has rows, every part about rows holds.
LEMMA NoRowsAtAll ==
    ASSUME rows' = NoRows, list' \in List \cup {NoList}
    PROVE  /\ RowsHaveParent'
           /\ RowsAllOrNone'
           /\ RowsFollow'
           /\ \A l \in List, i \in Chunk : rows'[l][i] = Absent
<1>1. \A l \in List, i \in Chunk : rows'[l][i] = Absent
  BY DEF NoRows
<1> QED
  BY <1>1 DEF RowsHaveParent, RowsAllOrNone, RowsFollow

\* Steps that leave no chunk row, and may drop or keep the list.
LEMMA RowsGone ==
    ASSUME RecoveryInv, TypeOK', rows' = NoRows,
           made' = made, ever' = ever, saved' = saved,
           list' \in {list, NoList},
           state' \in {state, AllPending}
    PROVE  RecoveryInv'
<1>1. list' \in List \cup {NoList} /\ list' <= made'
  BY DEF RecoveryInv, TypeOK, FutureHasNoRows, NoList
<1>2. /\ RowsHaveParent' /\ RowsAllOrNone' /\ RowsFollow'
      /\ \A l \in List, i \in Chunk : rows'[l][i] = Absent
  BY <1>1, NoRowsAtAll
<1>3. FutureHasNoRows'
  BY <1>1, <1>2 DEF FutureHasNoRows
<1>4. AckedWasAcked'
  BY <1>2 DEF RecoveryInv, AckedWasAcked, AllPending, Absent
<1> QED
  BY <1>2, <1>3, <1>4 DEF RecoveryInv

\* Steps that touch neither the rows nor the list, but may change the chunk
\* on its way, the state file and the flags.
LEMMA RowsKept ==
    ASSUME RecoveryInv, TypeOK', rows' = rows, list' = list, made' = made,
           ever' = ever, row' = row \/ row' # Absent,
           \A i \in Chunk : state'[i] \in {state[i], "sent"},
           saved' \in {saved, state}
    PROVE  RecoveryInv'
<1>1. RowsHaveParent'
  BY DEF RecoveryInv, RowsHaveParent
<1>2. RowsAllOrNone' /\ FutureHasNoRows'
  BY DEF RecoveryInv, RowsAllOrNone, FutureHasNoRows
<1>3. RowsFollow'
  <2> SUFFICES ASSUME list # NoList PROVE RowsFollow'
    BY DEF RowsFollow
  <2>1. list \in List
    BY DEF RecoveryInv, TypeOK
  <2>2. CASE \A i \in Chunk : rows[list][i] = Absent
    BY <2>2 DEF RowsFollow
  <2>3. CASE \A i \in Chunk : rows[list][i] \in {"pending", "acked", "failed"}
    <3>1. Chunk # {} /\ Absent \notin {"pending", "acked", "failed"}
      BY Basics DEF Absent
    <3>2. \A i \in Chunk : IF state[i] = "sent"
                           THEN rows[list][i] \in {"pending", "acked", "failed"}
                           ELSE rows[list][i] = state[i]
      BY <2>3, <3>1 DEF RecoveryInv, RowsFollow
    <3> QED
      BY <2>3, <3>2 DEF RowsFollow
  <2> QED
    BY <2>1, <2>2, <2>3 DEF RecoveryInv, RowsAllOrNone
<1>4. AckedWasAcked'
  BY DEF RecoveryInv, AckedWasAcked
<1> QED
  BY <1>1, <1>2, <1>3, <1>4 DEF RecoveryInv

\* Steps that write a verdict on one chunk in the list and its row.
LEMMA RowWritten ==
    ASSUME RecoveryInv, TypeOK', NEW i \in Chunk,
           NEW s \in {"acked", "failed"}, list # NoList,
           state' = [state EXCEPT ![i] = s], UpdateChunkRow(i, s),
           list' = list, made' = made, row' = row, saved' = saved,
           ever \subseteq ever', s = "acked" => i \in ever'
    PROVE  RecoveryInv'
<1>1. /\ list \in List
      /\ rows \in [List -> [Chunk -> ItemState \cup {Absent}]]
      /\ state \in [Chunk -> ItemState]
  BY DEF RecoveryInv, TypeOK, States
<1>2. \A l \in List, j \in Chunk :
        rows'[l][j] = IF l = list /\ j = i /\ rows[l][j] # Absent
                      THEN s ELSE rows[l][j]
  BY <1>1 DEF UpdateChunkRow
<1>3. \A j \in Chunk : state'[j] = IF j = i THEN s ELSE state[j]
  BY <1>1
<1>4. RowsHaveParent'
  <2> SUFFICES ASSUME row = Absent PROVE rows' = NoRows
    BY DEF RowsHaveParent
  <2>1. \A l \in List, j \in Chunk : rows[l][j] = Absent
    BY DEF RecoveryInv, RowsHaveParent, NoRows
  <2>2. \A l \in List, j \in Chunk : rows'[l][j] = Absent
    BY <1>2, <2>1
  <2>3. rows' \in [List -> [Chunk -> ItemState \cup {Absent}]]
    BY DEF TypeOK
  <2>4. \A l \in List : rows'[l] = [j \in Chunk |-> Absent]
    BY <2>2, <2>3
  <2> QED
    BY <2>3, <2>4 DEF NoRows
<1>5. RowsAllOrNone'
  BY <1>2 DEF RecoveryInv, RowsAllOrNone
<1>6. FutureHasNoRows'
  BY <1>2 DEF RecoveryInv, FutureHasNoRows
<1>7. RowsFollow'
  BY <1>1, <1>2, <1>3 DEF RecoveryInv, RowsFollow, RowsAllOrNone, Absent
<1>8. AckedWasAcked'
  <2>1. \A j \in Chunk : state'[j] = "acked" => j \in ever'
    BY <1>3 DEF RecoveryInv, AckedWasAcked
  <2>2. \A l \in List, j \in Chunk : rows'[l][j] = "acked" => j \in ever'
    BY <1>2 DEF RecoveryInv, AckedWasAcked
  <2> QED
    BY <2>1, <2>2 DEF RecoveryInv, AckedWasAcked
<1> QED
  BY <1>4, <1>5, <1>6, <1>7, <1>8 DEF RecoveryInv

-----------------------------------------------------------------------------
THEOREM InitEstablishes == Init => RecoveryInv
<1> SUFFICES ASSUME Init PROVE RecoveryInv
  OBVIOUS
<1>1. TypeOK
  BY Basics DEF Init, TypeOK, FileState, List, NoList, Chunk
<1>2. \A l \in List, i \in Chunk : rows[l][i] = Absent
  BY DEF Init, NoRows
<1>3. RowsHaveParent /\ RowsAllOrNone /\ RowsFollow
  BY <1>2 DEF Init, RowsHaveParent, RowsAllOrNone, RowsFollow
<1>4. FutureHasNoRows
  BY <1>2 DEF Init, FutureHasNoRows, NoList
<1>5. AckedWasAcked
  BY <1>2 DEF Init, AckedWasAcked, AllPending, Absent
<1> QED
  BY <1>1, <1>3, <1>4, <1>5 DEF RecoveryInv

-----------------------------------------------------------------------------
(* Type correctness of a step, action by action.                           *)
LEMMA TypeStep ==
    ASSUME TypeOK, [Next]_vars
    PROVE  TypeOK'
<1> USE Basics DEF TypeOK, FileState, States
<1>1. CASE \E s \in TransferState :
             SaveTransfer(s) \/ UpdateTransferState(s) \/ RecordTransfer(s)
  BY <1>1 DEF SaveTransfer, UpdateTransferState, RecordTransfer, memVars,
              fileVars
<1>2. CASE DeleteTransfer
  BY <1>2 DEF DeleteTransfer, memVars, fileVars
<1>3. CASE InitList
  <2>1. made + 1 \in List /\ made' \in 0 .. MaxLists
    BY <1>3 DEF InitList, EnsureParent, SaveChunks, List
  <2>2. AllPending \in [Chunk -> ItemState \cup {Absent}]
    BY DEF AllPending, ItemState
  <2>3. rows' \in [List -> [Chunk -> ItemState \cup {Absent}]]
    BY <1>3, <2>1, <2>2 DEF InitList, EnsureParent, SaveChunks
  <2>4. row' \in TransferState \cup {Absent}
    BY <1>3 DEF InitList, EnsureParent, SaveChunks
  <2> QED
    BY <1>3, <2>1, <2>3, <2>4 DEF InitList, EnsureParent, SaveChunks, fileVars
<1>4. CASE GetNextPendingChunk
  BY <1>4 DEF GetNextPendingChunk, diskVars, fileVars, ItemState
<1>5. CASE ChunkSent
  BY <1>5 DEF ChunkSent, diskVars, fileVars, ItemState
<1>6. CASE \E i \in Chunk : AckChunk(i) \/ MarkChunkFailed(i)
  <2>1. PICK i \in Chunk : AckChunk(i) \/ MarkChunkFailed(i)
    BY <1>6
  <2>2. CASE AckChunk(i)
    <3>1. rows' \in [List -> [Chunk -> ItemState \cup {Absent}]]
      BY <2>2 DEF AckChunk, UpdateChunkRow, ItemState
    <3> QED
      BY <2>2, <3>1 DEF AckChunk, fileVars, ItemState
  <2>3. CASE MarkChunkFailed(i)
    <3>1. rows' \in [List -> [Chunk -> ItemState \cup {Absent}]]
      BY <2>3 DEF MarkChunkFailed, UpdateChunkRow, ItemState
    <3> QED
      BY <2>3, <3>1 DEF MarkChunkFailed, fileVars, ItemState
  <2> QED
    BY <2>1, <2>2, <2>3
<1>7. CASE Cleanup
  BY <1>7 DEF Cleanup, DeleteTransferChunks, fileVars
<1>8. CASE OpenStateFile \/ WriteStateFile \/ SaveFails \/ DeleteState
  BY <1>8 DEF OpenStateFile, WriteStateFile, SaveFails, DeleteState, memVars,
              diskVars, fileVars
<1>9. CASE Crash
  <2>1. crashes' \in Nat
    BY <1>9 DEF Crash
  <2> QED
    BY <1>9, <2>1 DEF Crash, diskVars, fileVars
<1>10. CASE Restart
  BY <1>10 DEF Restart, memVars, diskVars, fileVars
<1>11. CASE UNCHANGED vars
  BY <1>11 DEF vars, memVars, diskVars, fileVars
<1> QED
  BY <1>1, <1>2, <1>3, <1>4, <1>5, <1>6, <1>7, <1>8, <1>9, <1>10, <1>11
  DEF Next

\* A new list: its rows are there and say "pending", those of the others stay.
LEMMA NewListStep ==
    ASSUME RecoveryInv, TypeOK', InitList
    PROVE  RecoveryInv'
<1>1. /\ made \in 0 .. MaxLists /\ made + 1 \in List
      /\ rows \in [List -> [Chunk -> ItemState \cup {Absent}]]
  BY DEF RecoveryInv, TypeOK, InitList, EnsureParent, SaveChunks, List
<1>2. \A l \in List, i \in Chunk :
        rows'[l][i] = IF l = made + 1 THEN "pending" ELSE rows[l][i]
  BY <1>1 DEF InitList, EnsureParent, SaveChunks, AllPending
<1>3. RowsHaveParent'
  BY StateAssumption DEF InitList, EnsureParent, SaveChunks, RowsHaveParent, Absent
<1>4. RowsAllOrNone'
  BY <1>2 DEF RecoveryInv, RowsAllOrNone
<1>5. FutureHasNoRows'
  <2>1. list' <= made' /\ made' = made + 1
    BY <1>1 DEF InitList, EnsureParent, SaveChunks
  <2>2. ASSUME NEW l \in List, l > made', NEW i \in Chunk
        PROVE  rows'[l][i] = Absent
    <3>1. l > made /\ l # made + 1
      BY <1>1, <2>1, <2>2 DEF List
    <3> QED
      BY <1>2, <3>1 DEF RecoveryInv, FutureHasNoRows
  <2> QED
    BY <2>1, <2>2 DEF FutureHasNoRows
<1>6. RowsFollow'
  BY <1>1, <1>2 DEF RowsFollow, InitList, EnsureParent, SaveChunks, AllPending
<1>7. AckedWasAcked'
  BY <1>2 DEF RecoveryInv, AckedWasAcked, InitList, EnsureParent, SaveChunks, AllPending, fileVars
<1> QED
  BY <1>3, <1>4, <1>5, <1>6, <1>7 DEF RecoveryInv

LEMMA InvStep ==
    ASSUME RecoveryInv, [Next]_vars
    PROVE  RecoveryInv'
<1>0. TypeOK'
  BY TypeStep DEF RecoveryInv
<1> USE <1>0
<1>1. ASSUME NEW s \in TransferState, SaveTransfer(s) PROVE RecoveryInv'
  BY <1>1, RowsGone DEF SaveTransfer, memVars, fileVars
<1>2. ASSUME NEW s \in TransferState, UpdateTransferState(s) PROVE RecoveryInv'
  <2>1. row' # Absent
    BY <1>2, StateAssumption DEF UpdateTransferState, Absent
  <2> QED
    BY <1>2, <2>1, RowsKept DEF UpdateTransferState, memVars, fileVars
<1>3. ASSUME NEW s \in TransferState, RecordTransfer(s) PROVE RecoveryInv'
  BY <1>3, RowsGone DEF RecordTransfer, memVars, fileVars
<1>4. CASE DeleteTransfer
  BY <1>4, RowsGone DEF DeleteTransfer, memVars, fileVars
<1>5. CASE InitList
  BY <1>5, NewListStep
<1>6. CASE GetNextPendingChunk
  <2>1. \A i \in Chunk : state'[i] \in {state[i], "sent"}
    BY <1>6 DEF GetNextPendingChunk, RecoveryInv, TypeOK, States
  <2> QED
    BY <1>6, <2>1, RowsKept DEF GetNextPendingChunk, diskVars, fileVars
<1>7. CASE ChunkSent
  <2>1. \A i \in Chunk : state'[i] \in {state[i], "sent"}
    BY <1>7 DEF ChunkSent, RecoveryInv, TypeOK, States
  <2> QED
    BY <1>7, <2>1, RowsKept DEF ChunkSent, diskVars, fileVars
<1>8. ASSUME NEW i \in Chunk, AckChunk(i) PROVE RecoveryInv'
  BY <1>8, RowWritten DEF AckChunk, fileVars
<1>9. ASSUME NEW i \in Chunk, MarkChunkFailed(i) PROVE RecoveryInv'
  BY <1>9, RowWritten DEF MarkChunkFailed, fileVars
<1>10. CASE Cleanup
  BY <1>10, RowsGone DEF Cleanup, DeleteTransferChunks, fileVars
<1>11. CASE OpenStateFile \/ WriteStateFile \/ SaveFails \/ DeleteState
            \/ Restart \/ UNCHANGED vars
  BY <1>11, RowsKept DEF OpenStateFile, WriteStateFile, SaveFails,
     DeleteState, Restart, vars, memVars, diskVars, fileVars
<1>12. CASE Crash
  <2>1. list' = NoList /\ rows' = rows /\ made' = made /\ ever' = ever
        /\ row' = row /\ saved' = saved /\ state' = AllPending
    BY <1>12 DEF Crash, diskVars, fileVars
  <2>2. RowsHaveParent' /\ RowsAllOrNone'
    BY <2>1 DEF RecoveryInv, RowsHaveParent, RowsAllOrNone
  <2>3. FutureHasNoRows' /\ RowsFollow'
    BY <2>1 DEF RecoveryInv, TypeOK, FutureHasNoRows, RowsFollow, NoList
  <2>4. AckedWasAcked'
    BY <2>1 DEF RecoveryInv, AckedWasAcked, AllPending
  <2> QED
    BY <2>2, <2>3, <2>4 DEF RecoveryInv
<1> QED
  BY <1>1, <1>2, <1>3, <1>4, <1>5, <1>6, <1>7, <1>8, <1>9, <1>10, <1>11,
     <1>12 DEF Next

(* RecoveryInv holds at every moment of every run, crashes included.       *)
THEOREM RecoveryIsInvariant == Spec => []RecoveryInv
<1>1. Init => RecoveryInv
  BY InitEstablishes
<1>2. RecoveryInv /\ [Next]_vars => RecoveryInv'
  BY InvStep
<1> QED
  BY <1>1, <1>2, PTL DEF Spec

(* Every variable keeps its type.                                          *)
THEOREM TypeCorrect == Spec => []TypeOK
BY RecoveryIsInvariant, PTL DEF RecoveryInv

(* No chunk row outlives its transfer's row (database.py:106).             *)
THEOREM NoOrphanRows == Spec => []RowsHaveParent
BY RecoveryIsInvariant, PTL DEF RecoveryInv

(* The rows of the list in memory say what it says, or are all gone: never *)
(* some of them.  That they are not gone is not claimed.                   *)
THEOREM RowsMirrorList == Spec => []RowsFollow
BY RecoveryIsInvariant, PTL DEF RecoveryInv

-----------------------------------------------------------------------------
LEMMA FromFile ==
    ASSUME file = "whole"
    PROVE  Loaded = {Entry(NoList, i, saved[i]) : i \in Chunk}
BY DEF Loaded, Load

LEMMA FromTheRows ==
    ASSUME file = "absent", Loaded # {}
    PROVE  Loaded = FromRows
BY DEF Loaded, Load

LEMMA LoadedTorn == file \notin {"whole", "absent"} => Loaded = {}
BY DEF Loaded, Load

LEMMA RowEntry ==
    ASSUME NEW e \in FromRows
    PROVE  \E l \in List, i \in Chunk :
             e.index = i /\ e.state = rows[l][i] /\ rows[l][i] # Absent
BY DEF FromRows, Entry

(* What load_state returns covers the whole file and calls no chunk        *)
(* received that never was (resumable.py:60-103).                          *)
THEOREM ResumesFromTruth == Spec => []LoadedIsTrue
<1>1. RecoveryInv => LoadedIsTrue
  <2> SUFFICES ASSUME RecoveryInv, Loaded # {}
               PROVE  /\ {e.index : e \in Loaded} = Chunk
                      /\ \A e \in Loaded : e.state = "acked" => e.index \in ever
    BY DEF LoadedIsTrue
  <2>1. CASE file = "whole"
    <3>1. Loaded = {Entry(NoList, i, saved[i]) : i \in Chunk}
      BY <2>1, FromFile
    <3>2. \A i \in Chunk : /\ Entry(NoList, i, saved[i]).index = i
                          /\ Entry(NoList, i, saved[i]).state = saved[i]
      BY DEF Entry
    <3>3. {e.index : e \in Loaded} = Chunk
      BY <3>1, <3>2
    <3>4. ASSUME NEW e \in Loaded, e.state = "acked" PROVE e.index \in ever
      BY <3>1, <3>2, <3>4 DEF RecoveryInv, AckedWasAcked
    <3> QED
      BY <3>3, <3>4
  <2>2. CASE file = "absent"
    <3>1. Loaded = FromRows
      BY <2>2, FromTheRows
    <3>2. PICK l \in List, i \in Chunk : rows[l][i] # Absent
      BY <3>1, RowEntry
    <3>3. \A j \in Chunk : rows[l][j] # Absent
      BY <3>2 DEF RecoveryInv, RowsAllOrNone, Absent
    <3>4. \A j \in Chunk : Entry(l, j, rows[l][j]) \in Loaded
      BY <3>1, <3>3 DEF FromRows, Entry
    <3>5. \A j \in Chunk : Entry(l, j, rows[l][j]).index = j
      BY DEF Entry
    <3>6. {e.index : e \in Loaded} = Chunk
      BY <3>1, <3>4, <3>5, RowEntry
    <3>7. ASSUME NEW e \in Loaded, e.state = "acked" PROVE e.index \in ever
      BY <3>1, <3>7, RowEntry DEF RecoveryInv, AckedWasAcked
    <3> QED
      BY <3>6, <3>7
  <2> QED
    BY <2>1, <2>2, LoadedTorn
<1> QED
  BY <1>1, RecoveryIsInvariant, PTL

LEMMA LoadedFinite == IsFiniteSet(FromRows)
<1>1. IsFiniteSet(List) /\ IsFiniteSet(Chunk)
  BY FS_Interval DEF List, Chunk
<1>2. IsFiniteSet(List \X Chunk)
  BY <1>1, FS_Product
<1> DEFINE All == {Entry(l, i, rows[l][i]) : l \in List, i \in Chunk}
           f == [p \in List \X Chunk |-> Entry(p[1], p[2], rows[p[1]][p[2]])]
<1>3. f \in Surjection(List \X Chunk, All)
  <2>1. \A p \in List \X Chunk : f[p] \in All
    OBVIOUS
  <2>2. f \in [List \X Chunk -> All]
    BY <2>1
  <2>3. ASSUME NEW e \in All PROVE \E p \in List \X Chunk : f[p] = e
    <3>1. PICK l \in List, i \in Chunk : e = Entry(l, i, rows[l][i])
      OBVIOUS
    <3>2. <<l, i>> \in List \X Chunk /\ f[<<l, i>>] = e
      BY <3>1
    <3> QED
      BY <3>2
  <2> QED
    BY <2>2, <2>3 DEF Surjection
<1>4. IsFiniteSet(All)
  <2> HIDE DEF All, f
  <2> QED
    BY <1>2, <1>3, FS_Surjection
<1> QED
  BY <1>4, FS_Subset DEF FromRows

LEMMA CountIsPositive ==
    ASSUME file = "absent", NEW e \in Loaded
    PROVE  Count(e.state) \in Nat /\ Count(e.state) > 0
<1> DEFINE S == {x \in Loaded : x.state = e.state}
<1>1. IsFiniteSet(S)
  BY FromTheRows, LoadedFinite, FS_Subset
<1>2. Cardinality(S) \in Nat /\ Cardinality(S) # 0
  BY <1>1, FS_CardinalityType, FS_EmptySet
<1> QED
  BY <1>2 DEF Count

LEMMA CountIsNatural ==
    ASSUME file = "absent", Loaded # {}, NEW s
    PROVE  Count(s) \in Nat
<1>1. IsFiniteSet({x \in Loaded : x.state = s})
  BY FromTheRows, LoadedFinite, FS_Subset
<1> QED
  BY <1>1, FS_CardinalityType DEF Count

(* A transfer listed as resumable by its rows can be resumed unless a chunk*)
(* has failed (resumable.py:105-137).                                      *)
THEOREM ListedCanResume == Spec => []RowsCanResume
<1>1. RecoveryInv => RowsCanResume
  <2> SUFFICES ASSUME RecoveryInv, Loaded # {}, file = "absent", ~CanResume
               PROVE  Count("failed") > 0
    BY DEF RowsCanResume, Resumable
  <2>1. PICK e \in Loaded : TRUE
    OBVIOUS
  <2>2. e.state \in {"pending", "acked", "failed"}
    BY FromTheRows, RowEntry DEF RecoveryInv, RowsAllOrNone, Absent
  <2>3. Count("acked") = 0 /\ Count("pending") = 0
    BY CountIsNatural DEF CanResume
  <2>4. Count(e.state) > 0
    BY <2>1, CountIsPositive
  <2> QED
    BY <2>2, <2>3, <2>4
<1> QED
  BY <1>1, RecoveryIsInvariant, PTL
=============================================================================
