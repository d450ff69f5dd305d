--------------------------- MODULE DiskCache_proofs --------------------------
(***************************************************************************)
(* Proofs about DiskCache for any keys, values, sizes and number of calls: *)
(* type correctness; no dirty entry is ever written off as empty; and, for *)
(* clients that use the cache as SoundUse says, data is safe in the file   *)
(* and the cache implements CacheMap.                                      *)
(***************************************************************************)
EXTENDS DiskCache, Sums, SequenceTheorems, TLAPS

(* The writer thread owns currently_writing from the moment it takes an    *)
(* entry's data until it retires it, and only then.                        *)
Owned == wpc \in {"write", "retire"}

WriteOwned ==
    /\ Owned => cw.key \in Keys /\ cw.data # Null
    /\ ~Owned => cw = NoWrite

IInv == TypeOK /\ WriteOwned /\ DirtyDataKept

(* Gaps between entries are offsets, for any table of entries.             *)
LEMMA HolesType ==
    ASSUME NEW es \in [Keys -> Entry \cup {NoEntry}], NEW n \in Nat
    PROVE  Holes(es, n) \subseteq Int
<1>1. \A k \in Placed(es) : EndOf(es[k]) \in Int
  BY DEF Placed, Live, EndOf, Entry
<1>2. BeforeHole(es, n) \subseteq Placed(es)
  BY DEF BeforeHole
<1> QED
  BY <1>1, <1>2 DEF Holes

(* find_cache_entry_to_write() as a step from a state in which nothing is  *)
(* being written: no entry is abandoned, and one is taken or none is dirty.*)
LEMMA SelectEntryKeeps ==
    ASSUME TypeOK, cw = NoWrite,
           NEW es \in [Keys -> Entry \cup {NoEntry}],
           Abandoned(es) = {},
           SelectEntry(es)
    PROVE  /\ entries' \in [Keys -> Entry \cup {NoEntry}]
           /\ cw' \in Write
           /\ wpc' \in {"write", "truncate", "poll"}
           /\ WriteOwned'
           /\ DirtyDataKept'
<1> USE NullAssumption, NoEntryAssumption
<1>1. WrittenOff(es, {}) = es
  BY DEF WrittenOff
<1>2. SUBSET Abandoned(es) = {{}}
  OBVIOUS
<1>3. CASE \E k \in Dirty(es) : /\ \E p \in Holes(es, es[k].sz) : cw' = TakenWrite(es, k, p)
                                /\ entries' = TakeData(es, k)
                                /\ wpc' = "write"
  <2>0. PICK k \in Dirty(es) :
            /\ \E p \in Holes(es, es[k].sz) : cw' = TakenWrite(es, k, p)
            /\ entries' = TakeData(es, k)
            /\ wpc' = "write"
    BY <1>3
  <2>1. PICK p \in Holes(es, es[k].sz) :
            /\ cw' = TakenWrite(es, k, p)
            /\ entries' = TakeData(es, k)
            /\ wpc' = "write"
    BY <2>0
  <2>2. k \in Keys /\ es[k] \in Entry /\ es[k].data # Null /\ es[k].sz \in Nat
    BY DEF Dirty, Live, Abandoned, Entry
  <2>3. p \in Int
    BY <2>2, HolesType
  <2>4. entries' \in [Keys -> Entry \cup {NoEntry}]
    BY <2>1, <2>2 DEF TakeData, Entry, Data
  <2>5. cw' \in Write
    BY <2>1, <2>2, <2>3 DEF TakenWrite, Write, Entry, Data
  <2>6. WriteOwned'
    BY <2>1, <2>2 DEF WriteOwned, Owned, TakenWrite
  <2>7. DirtyDataKept'
    <3> SUFFICES ASSUME NEW l \in Dirty(entries'), entries'[l].data = Null
                 PROVE  /\ cw'.data # Null /\ cw'.key = l
                        /\ cw'.sz = entries'[l].sz /\ cw'.ek = entries'[l].ek
      BY <2>1 DEF DirtyDataKept, InFlight
    <3>1. l \in Keys /\ (l # k => l \in Dirty(es) /\ es[l] = entries'[l])
      BY <2>1, <2>2 DEF Dirty, Live, TakeData
    <3>2. l = k
      BY <3>1 DEF Abandoned
    <3>3. entries'[k] = [es[k] EXCEPT !.data = Null]
      BY <2>1, <2>2 DEF TakeData
    <3> QED
      BY <2>1, <2>2, <3>2, <3>3 DEF TakenWrite, Entry
  <2> QED
    BY <2>1, <2>4, <2>5, <2>6, <2>7
<1>4. CASE /\ Dirty(es) = {} /\ entries' = es /\ cw' = cw /\ wpc' = AfterLast(es)
  BY <1>4 DEF AfterLast, WriteOwned, Owned, DirtyDataKept, TypeOK
<1> QED
  BY <1>1, <1>2, <1>3, <1>4 DEF SelectEntry

(* What a client finds under a key it added is data, or an error.          *)
LEMMA LookupType ==
    ASSUME TypeOK, NEW k \in Keys, entries[k] # NoEntry, entries[k].data = Null
    PROVE  CopyKept(k) \in Data
<1>1. entries[k] \in Entry
  BY DEF TypeOK
<1>2. CASE InFlight(k)
  BY <1>2 DEF Lookup, CopyKept, TypeOK, Write, Data
<1>3. CASE ~InFlight(k)
  <2>1. ValuesOnDisk(entries[k]) \subseteq Values
    BY DEF ValuesOnDisk
  <2>2. ValuesOnDisk(entries[k]) # {} =>
            (CHOOSE v \in ValuesOnDisk(entries[k]) : TRUE) \in Values
    BY <2>1
  <2> QED
    BY <1>3, <2>2 DEF Lookup, CopyKept, Data
<1> QED
  BY <1>2, <1>3

(* A pwrite() leaves a file of cells, also past the end of the file.       *)
LEMMA WrittenFileType ==
    ASSUME TypeOK, NEW pos \in Nat, NEW n \in Nat
    PROVE  WrittenFile(pos, n) \in Seq(Cell)
<1> DEFINE end == pos + cw.done + n
           len == IF end > Len(file) THEN end ELSE Len(file)
<1>1. cw.done \in Nat /\ cw.data \in Data /\ cw.ek \in Nat
  BY DEF TypeOK, Write
<1>2. len \in Nat /\ Len(file) \in Nat /\ end \in Nat
  BY <1>1 DEF TypeOK
<1>3. ASSUME NEW i \in 1..len PROVE WrittenFile(pos, n)[i] \in Cell
  <2>1. CASE i > end - n /\ i <= end
    <3>1. i - pos \in Nat
      BY <2>1, <1>1
    <3>2. WrittenFile(pos, n)[i] = CellOf(cw.data, cw.ek, i - pos)
      BY <2>1 DEF WrittenFile
    <3> QED
      BY <3>1, <3>2, <1>1 DEF CellOf, Cell
  <2>2. CASE ~(i > end - n /\ i <= end) /\ i <= Len(file)
    <3>1. WrittenFile(pos, n)[i] = file[i]
      BY <2>2 DEF WrittenFile
    <3> QED
      BY <2>2, <3>1, <1>2 DEF TypeOK
  <2>3. CASE ~(i > end - n /\ i <= end) /\ ~(i <= Len(file))
    <3>1. WrittenFile(pos, n)[i] = ZeroCell
      BY <2>3 DEF WrittenFile
    <3> QED
      BY <3>1 DEF ZeroCell, CellOf, Cell, Data
  <2> QED
    BY <2>1, <2>2, <2>3
<1>4. WrittenFile(pos, n) \in [1..len -> Cell]
  BY <1>3 DEF WrittenFile
<1> QED
  BY <1>2, <1>4

LEMMA NoWriteType == NoWrite \in Write
  BY DEF NoWrite, Write, Data

LEMMA InitIInv == Init => IInv
<1> SUFFICES ASSUME Init PROVE IInv
  OBVIOUS
<1>1. TypeOK
  <2>1. /\ entries \in [Keys -> Entry \cup {NoEntry}]
        /\ snap \in [Keys -> Move \cup {NoEntry}]
    BY DEF Init, NoSnapshot
  <2>2. /\ file \in Seq(Cell) /\ newfile \in Seq(Cell)
        /\ adds \in 0..MaxAdds /\ total \in Nat
    BY MaxAddsAssumption DEF Init
  <2> QED
    BY <2>1, <2>2, NoWriteType DEF Init, TypeOK
<1>2. Dirty(entries) = {}
  BY DEF Init, Dirty, Live
<1> QED
  BY <1>1, <1>2 DEF Init, IInv, WriteOwned, Owned, DirtyDataKept

(* A critical section in which a client changes the table and nothing the  *)
(* writer thread owns; every dirty entry it makes carries its data.        *)
LEMMA ClientStep ==
    ASSUME IInv, UNCHANGED <<cw, wpc>>,
           \A k \in Dirty(entries') :
                entries'[k].data = Null => k \in Dirty(entries) /\ entries'[k] = entries[k]
    PROVE  WriteOwned' /\ DirtyDataKept'
  BY DEF IInv, TypeOK, WriteOwned, Owned, DirtyDataKept, InFlight

(* The table is left alone.                                                *)
LEMMA TableKept ==
    ASSUME IInv, UNCHANGED <<cw, wpc, entries>>
    PROVE  WriteOwned' /\ DirtyDataKept'
  BY ClientStep DEF IInv, TypeOK, WriteOwned, Owned, DirtyDataKept, InFlight

LEMMA NextIInv == IInv /\ [Next]_vars => IInv'
<1> SUFFICES ASSUME IInv, [Next]_vars PROVE IInv'
  OBVIOUS
<1>u. usage' = usage
  BY DEF Next, vars
<1> USE NullAssumption, NoEntryAssumption, SizeAssumption, MaxAddsAssumption, <1>u
<1>t. TypeOK /\ WriteOwned /\ DirtyDataKept
  BY DEF IInv
<1>1. CASE StartThread
  BY <1>1, <1>t DEF StartThread, IInv, TypeOK, WriteOwned, Owned, DirtyDataKept, Dirty,
     Live, InFlight
<1>2. CASE OpenFile
  BY <1>2, <1>t, TableKept DEF OpenFile, IInv, TypeOK
<1>3. CASE ClearAll
  <2>1. Dirty(entries') = {}
    BY <1>3 DEF ClearAll, Dirty, Live
  <2>2. TypeOK'
    BY <1>3, <1>t DEF ClearAll, Woken, TypeOK
  <2> QED
    BY <2>1, <2>2, <1>3, ClientStep DEF ClearAll, IInv
<1>4. CASE WaitForWrite
  BY <1>4, <1>t, TableKept DEF WaitForWrite, IInv, TypeOK
<1>5. CASE Wakeup
  BY <1>5, <1>t, TableKept DEF Wakeup, IInv, TypeOK
<1>6. CASE Dealloc
  BY <1>6, <1>t, TableKept DEF Dealloc, IInv, TypeOK
<1>7. CASE DeallocWakeup
  BY <1>7, <1>t, TableKept DEF DeallocWakeup, IInv, TypeOK
<1>8. CASE DeallocJoin
  <2>1. Dirty(entries') = {}
    BY <1>8 DEF DeallocJoin, Dirty, Live
  <2>2. TypeOK'
    BY <1>8, <1>t, NoWriteType DEF DeallocJoin, TypeOK
  <2> QED
    BY <2>1, <2>2, <1>8, <1>t DEF DeallocJoin, IInv, WriteOwned, Owned, DirtyDataKept
<1>9. ASSUME NEW k \in Keys, RemoveEntry(k) PROVE IInv'
  <2>1. \A l \in Dirty(entries') : l \in Dirty(entries) /\ entries'[l] = entries[l]
    BY <1>9, <1>t DEF RemoveEntry, Dirty, Live, TypeOK
  <2>2. total' \in Nat
    BY <1>9, <1>t DEF RemoveEntry, TotalAfterRemove, TypeOK, Entry
  <2>3. entries' \in [Keys -> Entry \cup {NoEntry}]
    BY <1>9, <1>t DEF RemoveEntry, TypeOK
  <2>4. TypeOK'
    BY <2>2, <2>3, <1>9, <1>t DEF RemoveEntry, Woken, TypeOK
  <2> QED
    BY <2>1, <2>4, <1>9, ClientStep DEF RemoveEntry, IInv
<1>10. ASSUME NEW k \in Keys, GetIntoRam(k) PROVE IInv'
  <2>1. CopyKept(k) \in Data
    BY <1>10, <1>t, LookupType DEF GetIntoRam
  <2>2. /\ entries' \in [Keys -> Entry \cup {NoEntry}]
        /\ \A l \in Keys : l # k => entries'[l] = entries[l]
        /\ entries[k] \in Entry
        /\ entries'[k] = [entries[k] EXCEPT !.data = CopyKept(k)]
    <3>1. entries[k] \in Entry
      BY <1>10, <1>t DEF GetIntoRam, TypeOK
    <3>2. [entries[k] EXCEPT !.data = CopyKept(k)] \in Entry
      BY ONLY <2>1, <3>1 DEF Entry
    <3>3. entries' = [entries EXCEPT ![k] = [entries[k] EXCEPT !.data = CopyKept(k)]]
      BY <1>10 DEF GetIntoRam
    <3>4. entries \in [Keys -> Entry \cup {NoEntry}]
      BY <1>t DEF TypeOK
    <3> QED
      BY ONLY <3>1, <3>2, <3>3, <3>4
  <2>3. TypeOK'
    BY <2>2, <1>10, <1>t DEF GetIntoRam, TypeOK
  <2>4. ASSUME NEW l \in Dirty(entries'), entries'[l].data = Null
        PROVE  l \in Dirty(entries) /\ entries'[l].sz = entries[l].sz
               /\ entries'[l].ek = entries[l].ek /\ entries[l].data = Null
    BY <2>2, <2>4, <1>10 DEF Dirty, Live, Entry, GetIntoRam
  <2>5. DirtyDataKept'
    BY <2>4, <1>10, <1>t DEF GetIntoRam, DirtyDataKept, InFlight
  <2> QED
    BY <2>3, <2>5, <1>10, <1>t DEF GetIntoRam, IInv, WriteOwned, Owned
<1>11. ASSUME NEW k \in Keys, NEW v \in Values, Add(k, v) PROVE IInv'
  <2>1. total' \in Nat
    BY <1>11, <1>t DEF Add, TotalAfterAdd, TypeOK
  <2>2. /\ entries' \in [Keys -> Entry \cup {NoEntry}]
        /\ entries'[k].data = v
        /\ \A l \in Keys : l # k => entries'[l] = entries[l]
    <3>1. AddNew(v) \in Entry /\ AddNew(v).data = v
      BY <1>t DEF AddNew, TypeOK, Entry, Data
    <3>2. entries[k] # NoEntry =>
            AddExisting(entries[k], v) \in Entry /\ AddExisting(entries[k], v).data = v
      <4>1. entries[k] # NoEntry => entries[k] \in Entry
        BY <1>t DEF TypeOK
      <4>2. v \in Data /\ Size[v] \in Nat
        BY SizeAssumption DEF Data
      <4> QED
        BY ONLY <4>1, <4>2 DEF AddExisting, Entry
    <3>3. /\ entries \in [Keys -> Entry \cup {NoEntry}]
          /\ entries' = [entries EXCEPT
               ![k] = IF @ = NoEntry THEN AddNew(v) ELSE AddExisting(@, v)]
      BY <1>11, <1>t DEF Add, TypeOK
    <3> QED
      BY ONLY <3>1, <3>2, <3>3
  <2>3. TypeOK'
    BY <2>1, <2>2, <1>11, <1>t DEF Add, Woken, TypeOK
  <2>4. \A l \in Dirty(entries') :
            entries'[l].data = Null => l \in Dirty(entries) /\ entries'[l] = entries[l]
    BY <2>2, <1>t DEF Dirty, Live, TypeOK
  <2> QED
    BY <2>3, <2>4, <1>11, ClientStep DEF Add, IInv
<1>12. ASSUME NEW S \in SUBSET Keys, ClearFromRam(S) PROVE IInv'
  <2>1. \A k \in S : entries[k] \in Entry /\ entries[k].written
    BY <1>12, <1>t DEF ClearFromRam, MayLeaveRam, TypeOK
  <2>2. \A k \in S : /\ [entries[k] EXCEPT !.data = Null] \in Entry
                     /\ [entries[k] EXCEPT !.data = Null].written
    BY <2>1 DEF Entry, Data
  <2>3. entries' \in [Keys -> Entry \cup {NoEntry}]
    BY <2>2, <1>12, <1>t DEF ClearFromRam, TypeOK
  <2>4. \A k \in Dirty(entries') : k \in Dirty(entries) /\ entries'[k] = entries[k]
    BY <2>2, <1>12 DEF ClearFromRam, Dirty, Live
  <2>5. TypeOK'
    BY <2>3, <1>12, <1>t DEF ClearFromRam, TypeOK
  <2> QED
    BY <2>4, <2>5, <1>12, ClientStep DEF ClearFromRam, IInv
<1>13. CASE WriterExit
  BY <1>13, <1>t DEF WriterExit, IInv, TypeOK, WriteOwned, Owned, DirtyDataKept, InFlight
<1>14. ASSUME wpc = "top" \/ wpc = "defrag" PROVE cw = NoWrite /\ Abandoned(entries) = {}
  BY <1>14, <1>t DEF WriteOwned, Owned, DirtyDataKept, Abandoned
<1>15. CASE WriterFind
  BY <1>14, <1>15, <1>t, SelectEntryKeeps DEF WriterFind, IInv, TypeOK
<1>16. CASE DefragBegin
  <2>1. Snapshot \in [Keys -> Move \cup {NoEntry}]
    BY <1>t DEF Snapshot, Placed, Live, TypeOK, Entry, Move
  <2> QED
    BY <2>1, <1>16, <1>t DEF DefragBegin, IInv, TypeOK, WriteOwned, Owned, DirtyDataKept,
       InFlight
<1>17. ASSUME NEW k \in Keys, DefragCopy(k) PROVE IInv'
  <2>1. snap[k] \in Move
    BY <1>17, <1>t DEF DefragCopy, Uncopied, Remembered, TypeOK
  <2>2. SubSeq(file, snap[k].old + 1, snap[k].old + snap[k].sz) \in Seq(Cell)
    BY <2>1, <1>17, <1>t, SubSeqProperties DEF DefragCopy, TypeOK, Move
  <2>3. newfile' \in Seq(Cell)
    BY <2>2, <1>17, <1>t, ConcatProperties DEF DefragCopy, TypeOK
  <2>4. snap' \in [Keys -> Move \cup {NoEntry}]
    <3>1. [snap[k] EXCEPT !.new = Len(newfile)] \in Move
      <4>1. Len(newfile) \in Nat
        BY <1>t DEF TypeOK
      <4> QED
        BY ONLY <2>1, <4>1 DEF Move
    <3> QED
      BY <3>1, <1>17, <1>t DEF DefragCopy, TypeOK
  <2> QED
    BY <2>3, <2>4, <1>17, <1>t, TableKept DEF DefragCopy, IInv, TypeOK
<1>18. CASE DefragSwitch
  <2>1. MovedEntries \in [Keys -> Entry \cup {NoEntry}]
    <3>1. ASSUME NEW k \in Remembered, entries[k] # NoEntry
          PROVE  [entries[k] EXCEPT !.pos = snap[k].new] \in Entry
      <4>1. k \in Keys /\ entries[k] \in Entry /\ snap[k].new \in Int
        BY <3>1, <1>t DEF Remembered, TypeOK, Move
      <4> QED
        BY <4>1 DEF Entry
    <3> QED
      BY <3>1, <1>t DEF MovedEntries, TypeOK
  <2>2. Abandoned(MovedEntries) = {}
    <3>1. ASSUME NEW k \in Abandoned(MovedEntries) PROVE k \in Abandoned(entries)
      <4>1. k \in Keys /\ MovedEntries[k] # NoEntry
        BY DEF Abandoned, Dirty, Live
      <4>2. entries[k] \in Entry
        BY <4>1, <1>t DEF MovedEntries, TypeOK
      <4>3. /\ MovedEntries[k].data = entries[k].data
            /\ MovedEntries[k].written = entries[k].written
        BY <4>1, <4>2 DEF MovedEntries, Entry
      <4> QED
        BY <4>1, <4>2, <4>3 DEF Abandoned, Dirty, Live
    <3> QED
      BY <3>1, <1>14, <1>18 DEF DefragSwitch
  <2>3. file' \in Seq(Cell) /\ newfile' \in Seq(Cell)
        /\ snap' \in [Keys -> Move \cup {NoEntry}]
    BY <1>18, <1>t DEF DefragSwitch, EndDefrag, NoSnapshot, TypeOK
  <2> QED
    BY <2>1, <2>2, <2>3, <1>14, <1>18, <1>t, SelectEntryKeeps
    DEF DefragSwitch, EndDefrag, IInv, TypeOK
<1>19. CASE DefragFailed
  <2>1. newfile' \in Seq(Cell) /\ snap' \in [Keys -> Move \cup {NoEntry}]
    BY <1>19, <1>t DEF DefragFailed, EndDefrag, NoSnapshot, TypeOK
  <2> QED
    BY <2>1, <1>14, <1>19, <1>t, SelectEntryKeeps
    DEF DefragFailed, EndDefrag, IInv, TypeOK
<1>20. ASSUME wpc = "write" PROVE WritePos \in Nat
  BY <1>t DEF WritePos, FileSize, TypeOK, Write
<1>21. ASSUME NEW n \in 1..cw.sz, WriterWrite(n) PROVE IInv'
  <2>1. file' \in Seq(Cell)
    BY <1>20, <1>21, <1>t, WrittenFileType DEF WriterWrite
  <2>2. /\ cw' \in Write /\ cw'.key = cw.key /\ cw'.data = cw.data
        /\ cw'.sz = cw.sz /\ cw'.ek = cw.ek
    <3>1. cw \in Write /\ WritePos \in Int /\ cw.done + n \in Nat
      BY <1>20, <1>21, <1>t DEF WriterWrite, TypeOK, Write
    <3>2. cw' = [cw EXCEPT !.pos = WritePos, !.done = cw.done + n]
      BY <1>21 DEF WriterWrite
    <3> QED
      BY <3>1, <3>2 DEF Write
  <2> QED
    BY <2>1, <2>2, <1>21, <1>t
    DEF WriterWrite, IInv, TypeOK, WriteOwned, Owned, DirtyDataKept, InFlight
<1>22. CASE WriterWritten
  <2>1. /\ cw' \in Write /\ cw'.key = cw.key /\ cw'.data = cw.data
        /\ cw'.sz = cw.sz /\ cw'.ek = cw.ek
    BY <1>20, <1>22, <1>t DEF WriterWritten, TypeOK, Write
  <2> QED
    BY <2>1, <1>22, <1>t
    DEF WriterWritten, IInv, TypeOK, WriteOwned, Owned, DirtyDataKept, InFlight
<1>23. CASE WriterFailed
  <2>1. /\ cw' \in Write /\ cw'.key = cw.key /\ cw'.data = cw.data
        /\ cw'.sz = cw.sz /\ cw'.ek = cw.ek
    <3>1. cw \in Write /\ cw' = [cw EXCEPT !.pos = -1]
      BY <1>23, <1>t DEF WriterFailed, TypeOK
    <3> QED
      BY <3>1 DEF Write
  <2> QED
    BY <2>1, <1>23, <1>t
    DEF WriterFailed, IInv, TypeOK, WriteOwned, Owned, DirtyDataKept, InFlight
<1>24. CASE WriterRetire
  <2>1. cw.key \in Keys /\ cw \in Write
    BY <1>24, <1>t DEF WriterRetire, WriteOwned, Owned, TypeOK
  <2>2. /\ entries' \in [Keys -> Entry \cup {NoEntry}]
        /\ \A k \in Keys : k # cw.key => entries'[k] = entries[k]
        /\ entries'[cw.key] = NoEntry \/ entries'[cw.key].written
    <3>1. ASSUME entries[cw.key] # NoEntry
          PROVE  LET e == [entries[cw.key] EXCEPT !.written = TRUE, !.pos = cw.pos]
                 IN  e \in Entry /\ e.written
      <4>1. entries[cw.key] \in Entry /\ cw.pos \in Int
        BY <3>1, <2>1, <1>t DEF TypeOK, Write
      <4> QED
        BY <4>1 DEF Entry
    <3> QED
      BY <3>1, <2>1, <1>24, <1>t DEF WriterRetire, Retired, TypeOK
  <2>3. cw' = NoWrite /\ cw' \in Write
    BY <1>24, NoWriteType DEF WriterRetire
  <2>4. \A k \in Dirty(entries') : entries'[k].data # Null
    BY <2>2, <1>t DEF Dirty, Live, DirtyDataKept, InFlight
  <2> QED
    BY <2>2, <2>3, <2>4, <1>24, <1>t
    DEF WriterRetire, IInv, TypeOK, WriteOwned, Owned, DirtyDataKept
<1>25. CASE WriterTruncate
  BY <1>25, <1>t DEF WriterTruncate, IInv, TypeOK, WriteOwned, Owned, DirtyDataKept,
     InFlight
<1>26. CASE WriterPoll
  BY <1>26, <1>t DEF WriterPoll, IInv, TypeOK, WriteOwned, Owned, DirtyDataKept, InFlight
<1>27. CASE UNCHANGED vars
  BY <1>27, <1>t, TableKept DEF vars, changing, IInv, TypeOK
<1> QED
  BY <1>1, <1>2, <1>3, <1>4, <1>5, <1>6, <1>7, <1>8, <1>9, <1>10, <1>11, <1>12, <1>13,
     <1>15, <1>16, <1>17, <1>18, <1>19, <1>21, <1>22, <1>23, <1>24, <1>25, <1>26, <1>27
  DEF Next, Client, Writer

(* Type correctness of the cache for every size of every value and every   *)
(* interleaving of the client with the writer thread.                      *)
THEOREM TypeCorrect == Spec => []TypeOK
<1>1. IInv => TypeOK
  BY DEF IInv
<1> QED
  BY InitIInv, NextIInv, <1>1, PTL DEF Spec

(* find_cache_entry_to_write() never throws a value away: a dirty entry    *)
(* without data is the one being written.                                  *)
THEOREM NoValueWrittenOff == Spec => []DirtyDataKept
<1>1. IInv => DirtyDataKept
  BY DEF IInv
<1> QED
  BY InitIInv, NextIInv, <1>1, PTL DEF Spec

-----------------------------------------------------------------------------
(* How the clients use the cache: keys may be added again, or copies kept  *)
(* in RAM, but not both; no copies if writes may fail; and where keys are  *)
(* added again no value is empty.  graphics.c keeps to it: it adds a key   *)
(* again when it edits a frame, keeps no copies, and a frame has pixels.   *)
(* Without any one of the three a look-up can return other bytes than      *)
(* those last stored.                                                      *)
SoundUse(u) ==
    /\ "readd" \in u => "ram" \notin u /\ \A v \in Values : Size[v] > 0
    /\ "ram" \in u => ~WriteMayFail

Table == [Keys -> Entry \cup {NoEntry}]

(* Whether the bytes of the file are those of the entry: not after its key *)
(* was added again while it was written.                                   *)
Trusted(u, e) == e.data = Null \/ "readd" \notin u

Stored(u, es) == {k \in Live(es) : es[k].written /\ es[k].pos >= 0 /\ Trusted(u, es[k])}

(* The file f holds v where the entry e says.                              *)
Holds(f, e, v) ==
    /\ Size[v] = e.sz
    /\ e.sz > 0 => EndOf(e) <= Len(f)
    /\ \A i \in 1..e.sz : f[e.pos + i] = CellOf(v, e.ek, i)

Outside(p, q, n) == p < q \/ p >= q + n

EntryWell(u, e) ==
    /\ e.data \in Values \cup {Null}
    /\ e.data # Null => e.sz = Size[e.data]
    /\ "readd" \in u => e.sz > 0
    /\ e.written => e.pos >= 0 \/ WriteMayFail

EntriesWell(u, es) == \A k \in Live(es) : EntryWell(u, es[k])

StoredWell(u, es, f) ==
    \A k \in Stored(u, es) : \E v \in Values : Holds(f, es[k], v) /\ es[k].data \in {Null, v}

(* Nothing begins within the region of a stored entry.  That two stored    *)
(* regions do not overlap is not enough: find_hole() trusts the end of any *)
(* entry with an offset.                                                   *)
StartsApart(u, es) ==
    \A k \in Stored(u, es) : \A a \in Placed(es) \ {k} :
        Outside(es[a].pos, es[k].pos, es[k].sz)

PlacedInFile(es, f) == \A a \in Placed(es) : es[a].pos < Len(f)

TableWell(u, es, f) ==
    EntriesWell(u, es) /\ StoredWell(u, es, f) /\ StartsApart(u, es) /\ PlacedInFile(es, f)

(* The write w and the entry it is of, if that is still there.             *)
WriteOf(u, e, w) ==
    /\ ~e.written
    /\ "readd" \notin u => e.ek = w.ek /\ e.sz = w.sz /\ e.data \in {Null, w.data}

WriteWell(u, es, w) ==
    /\ w.data \in Values /\ w.sz = Size[w.data] /\ w.done <= w.sz
    /\ es[w.key] # NoEntry => WriteOf(u, es[w.key], w)

WriteApart(u, es, w) ==
    /\ \A a \in Placed(es) \ {w.key} : Outside(es[a].pos, w.pos, w.sz)
    /\ \A k \in Stored(u, es) \cap Placed(es) : Apart(es[k].pos, es[k].sz, w.pos, w.sz)

WrittenSoFar(w, f) ==
    /\ w.done > 0 => w.pos + w.done <= Len(f)
    /\ \A i \in 1..w.done : f[w.pos + i] = CellOf(w.data, w.ek, i)

(* An entry in Entry has the types its fields have.                        *)
LEMMA EntryFields ==
    ASSUME NEW e \in Entry
    PROVE  /\ e.data \in Data /\ e.sz \in Nat /\ e.written \in BOOLEAN /\ e.pos \in Int /\ e.ek \in Nat
           /\ EndOf(e) \in Int /\ EndOf(e) = e.pos + e.sz
           /\ e # NoEntry
  BY NoEntryAssumption DEF Entry, EndOf

LEMMA LiveEntry ==
    ASSUME NEW es \in Table, NEW k \in Live(es)
    PROVE  k \in Keys /\ es[k] \in Entry
  BY DEF Live, Table

-----------------------------------------------------------------------------
(* A hole is apart from every region that counts.                          *)
LEMMA HoleApart ==
    ASSUME NEW u, NEW es \in Table, StartsApart(u, es),
           NEW n \in Nat, NEW p \in Holes(es, n), p >= 0
    PROVE  /\ \A c \in Placed(es) : Outside(es[c].pos, p, n)
           /\ \A k \in Stored(u, es) \cap Placed(es) : Apart(es[k].pos, es[k].sz, p, n)
<1>1. PICK a \in BeforeHole(es, n) : p = EndOf(es[a])
  BY DEF Holes
<1>2. PICK b \in Placed(es) : Follows(es, a, b) /\ es[b].pos - EndOf(es[a]) >= n
  BY DEF BeforeHole
<1>3. a \in Placed(es)
  BY DEF BeforeHole
<1>4. \A c \in Placed(es) : es[c] \in Entry /\ es[c].pos \in Int /\ es[c].sz \in Nat /\ es[c].sz > 0
  BY LiveEntry, EntryFields DEF Placed
<1>5. p = es[a].pos + es[a].sz /\ p + n <= es[b].pos /\ es[a].pos < es[b].pos
  BY <1>1, <1>2, <1>3, <1>4, EntryFields DEF Follows
<1>6. \A c \in Placed(es) : es[c].pos <= es[a].pos \/ es[b].pos <= es[c].pos
  BY <1>2, <1>3, <1>4 DEF Follows
<1>7. ASSUME NEW c \in Placed(es)
      PROVE  Outside(es[c].pos, p, n)
  BY <1>3, <1>4, <1>5, <1>6 DEF Outside
<1>8. ASSUME NEW k \in Stored(u, es), k \in Placed(es)
      PROVE  Apart(es[k].pos, es[k].sz, p, n)
  <2>1. CASE es[b].pos <= es[k].pos
    BY <2>1, <1>2, <1>4, <1>5, <1>8 DEF Apart
  <2>2. CASE es[k].pos <= es[a].pos /\ k = a
    BY <2>2, <1>4, <1>5, <1>8 DEF Apart
  <2>3. CASE es[k].pos <= es[a].pos /\ k # a
    <3>1. Outside(es[a].pos, es[k].pos, es[k].sz)
      BY <2>3, <1>3 DEF StartsApart
    <3>2. es[k].pos + es[k].sz <= p
      BY <3>1, <2>3, <1>3, <1>4, <1>5, <1>8 DEF Outside
    <3> QED BY <3>2 DEF Apart
  <2> QED BY <2>1, <2>2, <2>3, <1>6, <1>8
<1> QED BY <1>7, <1>8

(* The writer takes the data of a dirty entry: nothing stored changes, and *)
(* the write is well placed before it begins.                              *)
LEMMA DataTaken ==
    ASSUME NEW u, NEW es \in Table, NEW f \in Seq(Cell), TableWell(u, es, f),
           NEW k \in Dirty(es), es[k].data # Null, NEW p \in Holes(es, es[k].sz)
    PROVE  /\ TableWell(u, TakeData(es, k), f)
           /\ WriteWell(u, TakeData(es, k), TakenWrite(es, k, p))
           /\ p >= 0 => WriteApart(u, TakeData(es, k), TakenWrite(es, k, p))
<1> DEFINE t == TakeData(es, k)
           w == TakenWrite(es, k, p)
<1>1. k \in Live(es) /\ ~es[k].written
  BY DEF Dirty
<1>2. k \in Keys /\ es[k] \in Entry /\ es[k].data \in Values /\ es[k].sz = Size[es[k].data]
  BY <1>1, LiveEntry DEF TableWell, EntriesWell, EntryWell
<1>3. /\ t \in Table
      /\ \A l \in Keys : l # k => t[l] = es[l]
      /\ t[k] = [es[k] EXCEPT !.data = Null]
      /\ t[k] \in Entry /\ t[k] # NoEntry
  <2>1. [es[k] EXCEPT !.data = Null] \in Entry
    BY <1>2 DEF Entry, Data
  <2> QED BY <2>1, <1>2, EntryFields DEF TakeData, Table
<1>4. /\ t[k].data = Null /\ t[k].sz = es[k].sz /\ ~t[k].written
      /\ t[k].pos = es[k].pos /\ t[k].ek = es[k].ek
  BY <1>1, <1>2, <1>3 DEF Entry
<1>5. w.key = k /\ w.data = es[k].data /\ w.sz = es[k].sz /\ w.pos = p /\ w.ek = es[k].ek /\ w.done = 0
  BY DEF TakenWrite
<1> HIDE DEF t, w
<1>6. Live(t) = Live(es) /\ Placed(t) = Placed(es)
  BY <1>1, <1>2, <1>3, <1>4 DEF Live, Placed
<1>7. Stored(u, t) = Stored(u, es) /\ k \notin Stored(u, es)
  <2>1. Stored(u, t) = {l \in Live(es) : l # k /\ es[l].written /\ es[l].pos >= 0 /\ Trusted(u, es[l])}
    BY <1>1, <1>2, <1>3, <1>4, <1>6 DEF Stored, Live
  <2> QED BY <2>1, <1>1 DEF Stored
<1>8. \A l \in Stored(u, es) : t[l] = es[l]
  BY <1>3, <1>7, LiveEntry DEF Stored
<1>9. \A l \in Placed(es) : t[l].pos = es[l].pos
  BY <1>3, <1>4, LiveEntry DEF Placed
<1>10. EntriesWell(u, t)
  <2>1. ASSUME NEW l \in Live(es), l # k
        PROVE  t[l] = es[l]
    BY <2>1, <1>3, LiveEntry
  <2> QED BY <2>1, <1>1, <1>4, <1>6 DEF TableWell, EntriesWell, EntryWell
<1>11. StoredWell(u, t, f)
  BY <1>7, <1>8 DEF TableWell, StoredWell
<1>12. StartsApart(u, t)
  BY <1>6, <1>7, <1>8, <1>9 DEF TableWell, StartsApart
<1>13. PlacedInFile(t, f)
  BY <1>6, <1>9 DEF TableWell, PlacedInFile
<1>14. WriteWell(u, t, w)
  BY <1>2, <1>4, <1>5, EntryFields DEF WriteWell, WriteOf
<1>15. ASSUME p >= 0
       PROVE  WriteApart(u, t, w)
  <2>1. es[k].sz \in Nat /\ StartsApart(u, es)
    BY <1>2, EntryFields DEF TableWell
  <2>2. /\ \A c \in Placed(es) : Outside(es[c].pos, p, es[k].sz)
        /\ \A l \in Stored(u, es) \cap Placed(es) : Apart(es[l].pos, es[l].sz, p, es[k].sz)
    BY <2>1, <1>15, HoleApart
  <2> QED BY <2>2, <1>5, <1>6, <1>7, <1>8, <1>9 DEF WriteApart
<1> QED BY <1>10, <1>11, <1>12, <1>13, <1>14, <1>15 DEF TableWell, t, w

-----------------------------------------------------------------------------
(* What a critical section of a client may make of the entry e of a key:   *)
(* mine says that the write w is of that key, free that neither the write  *)
(* nor a compaction remembers the key.                                     *)
AddedNew(u, e, x, free) ==
    /\ e = NoEntry
    /\ "readd" \in u \/ free
    /\ \E v \in Values, n \in Nat :
        x = [data |-> v, sz |-> Size[v], written |-> FALSE, pos |-> -2, ek |-> n]

AddedAgain(u, e, x) ==
    /\ "readd" \in u /\ e # NoEntry
    /\ \E v \in Values : x = AddExisting(e, v)

CopyChanged(u, e, x, f, w, mine) ==
    /\ "readd" \notin u /\ e # NoEntry
    /\ \/ e.written /\ x = [e EXCEPT !.data = Null]
       \/ \E v \in Values :
            /\ x = [e EXCEPT !.data = v]
            /\ Size[v] = e.sz
            /\ e.written /\ e.pos >= 0 => Holds(f, e, v)
            /\ mine => v = w.data

Change(u, e, x, f, w, mine, free) ==
    \/ x = e
    \/ AddedNew(u, e, x, free)
    \/ AddedAgain(u, e, x)
    \/ CopyChanged(u, e, x, f, w, mine)

IsStored(u, e) == e.written /\ e.pos >= 0 /\ Trusted(u, e)
IsPlaced(e) == e.pos >= 0 /\ e.sz > 0
Backed(f, e) == \E v \in Values : Holds(f, e, v) /\ e.data \in {Null, v}

LEMMA OneChange ==
    ASSUME NEW u, SoundUse(u), NEW e \in Entry \cup {NoEntry}, NEW x \in Entry,
           NEW f \in Seq(Cell), NEW w \in Write, NEW mine \in BOOLEAN, NEW free \in BOOLEAN,
           free => ~mine,
           Change(u, e, x, f, w, mine, free),
           e # NoEntry => EntryWell(u, e)
    PROVE  /\ EntryWell(u, x)
           /\ IsPlaced(x) => e # NoEntry /\ IsPlaced(e) /\ e.pos = x.pos
           /\ IsStored(u, x) =>
                /\ e # NoEntry /\ IsStored(u, e)
                /\ x.pos = e.pos /\ x.sz = e.sz /\ x.ek = e.ek
                /\ Backed(f, e) => Backed(f, x)
           /\ \/ x.pos = -2 /\ ~x.written
              \/ e # NoEntry /\ x.pos = e.pos /\ (x.written => e.written)
           /\ mine /\ (e # NoEntry => WriteOf(u, e, w)) => WriteOf(u, x, w)
<1> USE NullAssumption, SizeAssumption
<1>1. CASE x = e
  BY <1>1, EntryFields
<1>2. CASE AddedNew(u, e, x, free)
  <2>1. PICK v \in Values, n \in Nat :
            x = [data |-> v, sz |-> Size[v], written |-> FALSE, pos |-> -2, ek |-> n]
    BY <1>2 DEF AddedNew
  <2>2. x.data = v /\ x.sz = Size[v] /\ x.written = FALSE /\ x.pos = -2 /\ Size[v] \in Nat /\ v # Null
    BY <2>1
  <2>3. mine => "readd" \in u
    BY <1>2 DEF AddedNew
  <2>4. "readd" \in u => Size[v] > 0
    BY DEF SoundUse
  <2> QED BY <2>2, <2>3, <2>4 DEF EntryWell, IsPlaced, IsStored, WriteOf
<1>3. CASE AddedAgain(u, e, x)
  <2>1. PICK v \in Values : x = AddExisting(e, v)
    BY <1>3 DEF AddedAgain
  <2>2. e \in Entry /\ e # NoEntry /\ "readd" \in u /\ Size[v] > 0 /\ Size[v] \in Nat /\ v # Null
    BY <1>3 DEF AddedAgain, SoundUse
  <2>3. x.data = v /\ x.sz = Size[v] /\ x.written = FALSE /\ x.pos = e.pos
    BY <2>1, <2>2 DEF AddExisting, Entry
  <2> QED BY <2>2, <2>3 DEF EntryWell, IsPlaced, IsStored, WriteOf
<1>4. CASE CopyChanged(u, e, x, f, w, mine)
  <2>1. PICK d \in Values \cup {Null} :
            /\ x = [e EXCEPT !.data = d]
            /\ d = Null => e.written
            /\ d # Null => /\ Size[d] = e.sz
                           /\ e.written /\ e.pos >= 0 => Holds(f, e, d)
                           /\ mine => d = w.data
    BY <1>4 DEF CopyChanged
  <2>2. e \in Entry /\ e # NoEntry /\ "readd" \notin u
    BY <1>4 DEF CopyChanged
  <2>3. x.data = d /\ x.sz = e.sz /\ x.written = e.written /\ x.pos = e.pos /\ x.ek = e.ek
    BY <2>1, <2>2 DEF Entry
  <2>4. EntryWell(u, x)
    BY <2>1, <2>2, <2>3 DEF EntryWell
  <2>5. ASSUME IsStored(u, x)
        PROVE  IsStored(u, e) /\ (Backed(f, e) => Backed(f, x))
    <3>1. IsStored(u, e)
      BY <2>2, <2>3, <2>5 DEF IsStored, Trusted
    <3>2. \A v \in Values : Holds(f, e, v) => Holds(f, x, v)
      BY <2>3 DEF Holds, EndOf
    <3>3. CASE d = Null
      <4>1. ASSUME Backed(f, e)
            PROVE  Backed(f, x)
        <5>1. PICK v \in Values : Holds(f, e, v)
          BY <4>1 DEF Backed
        <5>2. x.data \in {Null, v}
          BY <3>3, <2>3
        <5> QED BY <5>1, <5>2, <3>2 DEF Backed
      <4> QED BY <3>1, <4>1
    <3>4. CASE d # Null
      BY <3>1, <3>2, <3>4, <2>1, <2>3 DEF Backed, IsStored
    <3> QED BY <3>1, <3>3, <3>4
  <2>6. mine /\ WriteOf(u, e, w) => WriteOf(u, x, w)
    BY <2>1, <2>2, <2>3 DEF WriteOf
  <2> QED BY <2>2, <2>3, <2>4, <2>5, <2>6 DEF IsPlaced
<1> QED BY <1>1, <1>2, <1>3, <1>4 DEF Change

-----------------------------------------------------------------------------
(* What the steps of the clients leave true of the table and of the write. *)
ClientChange(u, es, es2, f, w, sn) ==
    \A k \in Live(es2) :
        Change(u, es[k], es2[k], f, w, w.key = k, w.key # k /\ sn[k] = NoEntry)

LEMMA ClientKeeps ==
    ASSUME NEW u, SoundUse(u), NEW es \in Table, NEW es2 \in Table,
           NEW f \in Seq(Cell), NEW w \in Write, NEW sn,
           ClientChange(u, es, es2, f, w, sn),
           TableWell(u, es, f)
    PROVE  /\ TableWell(u, es2, f)
           /\ \A k \in Placed(es2) : k \in Placed(es) /\ es2[k].pos = es[k].pos
           /\ \A k \in Stored(u, es2) :
                /\ k \in Stored(u, es)
                /\ es2[k].pos = es[k].pos /\ es2[k].sz = es[k].sz /\ es2[k].ek = es[k].ek
           /\ \A k \in Live(es2) :
                \/ es2[k].pos = -2 /\ ~es2[k].written
                \/ k \in Live(es) /\ es2[k].pos = es[k].pos /\ (es2[k].written => es[k].written)
           /\ w.key \in Keys /\ WriteWell(u, es, w) => WriteWell(u, es2, w)
           /\ WriteApart(u, es, w) => WriteApart(u, es2, w)
<1>1. ASSUME NEW k \in Live(es2)
      PROVE  /\ EntryWell(u, es2[k])
             /\ k \in Placed(es2) => k \in Placed(es) /\ es2[k].pos = es[k].pos
             /\ k \in Stored(u, es2) =>
                  /\ k \in Stored(u, es)
                  /\ es2[k].pos = es[k].pos /\ es2[k].sz = es[k].sz /\ es2[k].ek = es[k].ek
                  /\ Backed(f, es2[k])
             /\ \/ es2[k].pos = -2 /\ ~es2[k].written
                \/ k \in Live(es) /\ es2[k].pos = es[k].pos /\ (es2[k].written => es[k].written)
             /\ w.key = k /\ (es[k] # NoEntry => WriteOf(u, es[k], w)) => WriteOf(u, es2[k], w)
  <2> DEFINE e == es[k]
             x == es2[k]
             mine == w.key = k
             free == w.key # k /\ sn[k] = NoEntry
  <2>1. k \in Keys /\ x \in Entry /\ x # NoEntry
    BY LiveEntry, EntryFields
  <2>2. e \in Entry \cup {NoEntry} /\ (e # NoEntry <=> k \in Live(es))
    BY <2>1 DEF Table, Live
  <2>3. Change(u, e, x, f, w, mine, free)
    BY DEF ClientChange
  <2>4. e # NoEntry => EntryWell(u, e)
    BY <2>2 DEF TableWell, EntriesWell
  <2>5. mine \in BOOLEAN /\ free \in BOOLEAN /\ (free => ~mine)
    OBVIOUS
  <2>6. /\ k \in Placed(es2) <=> IsPlaced(x)
        /\ k \in Placed(es) <=> e # NoEntry /\ IsPlaced(e)
        /\ k \in Stored(u, es2) <=> IsStored(u, x)
        /\ k \in Stored(u, es) <=> e # NoEntry /\ IsStored(u, e)
    BY <2>1, <2>2 DEF Placed, Stored, IsPlaced, IsStored, Live
  <2>7. k \in Stored(u, es) => Backed(f, e)
    BY DEF TableWell, StoredWell, Backed
  <2> HIDE DEF e, x, mine, free
  <2>8. /\ EntryWell(u, x)
        /\ IsPlaced(x) => e # NoEntry /\ IsPlaced(e) /\ e.pos = x.pos
        /\ IsStored(u, x) =>
             /\ e # NoEntry /\ IsStored(u, e)
             /\ x.pos = e.pos /\ x.sz = e.sz /\ x.ek = e.ek
             /\ Backed(f, e) => Backed(f, x)
        /\ \/ x.pos = -2 /\ ~x.written
           \/ e # NoEntry /\ x.pos = e.pos /\ (x.written => e.written)
        /\ mine /\ (e # NoEntry => WriteOf(u, e, w)) => WriteOf(u, x, w)
    BY <2>1, <2>2, <2>3, <2>4, <2>5, OneChange
  <2> QED BY <2>2, <2>6, <2>7, <2>8 DEF e, x, mine
<1>2. EntriesWell(u, es2)
  BY <1>1 DEF EntriesWell
<1>3. StoredWell(u, es2, f)
  BY <1>1 DEF StoredWell, Backed, Stored
<1>4. Placed(es2) \subseteq Live(es2) /\ Stored(u, es2) \subseteq Live(es2)
  BY DEF Placed, Stored
<1>5. StartsApart(u, es2)
  <2>1. ASSUME NEW k \in Stored(u, es2), NEW a \in Placed(es2) \ {k}
        PROVE  Outside(es2[a].pos, es2[k].pos, es2[k].sz)
    <3>1. Outside(es[a].pos, es[k].pos, es[k].sz)
      BY <1>1, <1>4 DEF TableWell, StartsApart
    <3> QED BY <3>1, <1>1, <1>4
  <2> QED BY <2>1 DEF StartsApart
<1>6. PlacedInFile(es2, f)
  BY <1>1, <1>4 DEF TableWell, PlacedInFile
<1>7. ASSUME w.key \in Keys, WriteWell(u, es, w)
      PROVE  WriteWell(u, es2, w)
  <2>1. CASE es2[w.key] = NoEntry
    BY <1>7, <2>1 DEF WriteWell
  <2>2. CASE w.key \in Live(es2)
    BY <1>1, <1>7, <2>2 DEF WriteWell
  <2> QED BY <1>7, <2>1, <2>2 DEF Live
<1>8. ASSUME WriteApart(u, es, w)
      PROVE  WriteApart(u, es2, w)
  <2>1. ASSUME NEW a \in Placed(es2) \ {w.key}
        PROVE  Outside(es2[a].pos, w.pos, w.sz)
    BY <1>1, <1>4, <1>8 DEF WriteApart
  <2>2. ASSUME NEW k \in Stored(u, es2), k \in Placed(es2)
        PROVE  Apart(es2[k].pos, es2[k].sz, w.pos, w.sz)
    <3>1. k \in Stored(u, es) \cap Placed(es)
      BY <2>2, <1>1, <1>4
    <3>2. Apart(es[k].pos, es[k].sz, w.pos, w.sz)
      BY <3>1, <1>8 DEF WriteApart
    <3> QED BY <3>2, <2>2, <1>1, <1>4
  <2> QED BY <2>1, <2>2 DEF WriteApart
<1> QED BY <1>1, <1>2, <1>3, <1>4, <1>5, <1>6, <1>7, <1>8 DEF TableWell

-----------------------------------------------------------------------------
(* The inductive invariant.                                                *)
WritePart ==
    Owned =>
        /\ WriteWell(usage, entries, cw)
        /\ cw.pos >= 0 => WriteApart(usage, entries, cw) /\ WrittenSoFar(cw, file)
        /\ wpc = "write" /\ cw.pos < 0 => cw.done = 0
        /\ wpc = "retire" => \/ cw.pos >= 0 /\ cw.done = cw.sz
                             \/ cw.pos < 0 /\ WriteMayFail

Copied(sn, k) == sn[k] # NoEntry /\ sn[k].new # -1

(* The compaction remembers every entry that has a place, where it was if  *)
(* it is still stored, and what it has copied so far it copied well.       *)
MovesWell(u, es, sn) ==
    /\ \A k \in Keys : sn[k] # NoEntry => sn[k].sz > 0 /\ sn[k].new >= -1
    /\ \A k \in Placed(es) : sn[k] # NoEntry
    /\ \A k \in Stored(u, es) :
            sn[k] # NoEntry => sn[k].old = es[k].pos /\ sn[k].sz = es[k].sz
    /\ \A k \in Live(es) : sn[k] # NoEntry /\ es[k].written => es[k].pos >= 0

CopiesWell(sn, f, nf) ==
    /\ \A k \in Keys : Copied(sn, k) =>
            /\ sn[k].new + sn[k].sz <= Len(nf)
            /\ sn[k].old + sn[k].sz <= Len(f)
            /\ \A i \in 1..sn[k].sz : nf[sn[k].new + i] = f[sn[k].old + i]
    /\ \A k, l \in Keys : k # l /\ Copied(sn, k) /\ Copied(sn, l) =>
            Outside(sn[l].new, sn[k].new, sn[k].sz)

DefragPart ==
    IF wpc = "defrag"
    THEN MovesWell(usage, entries, snap) /\ CopiesWell(snap, file, newfile)
    ELSE snap = NoSnapshot /\ newfile = <<>>

(* When the file is about to be truncated nothing is in it.                *)
EmptyWell ==
    wpc = "truncate" => \A k \in Live(entries) : entries[k].pos < 0 /\ ~entries[k].written

FdWell == Live(entries) # {} \/ Owned => fd

Rest ==
    /\ SoundUse(usage)
    /\ TableWell(usage, entries, file)
    /\ WritePart
    /\ DefragPart
    /\ EmptyWell
    /\ FdWell

Inv == IInv /\ Rest

LEMMA InitRest == Init /\ SoundUse(usage) => Rest
<1> SUFFICES ASSUME Init, SoundUse(usage) PROVE Rest
  OBVIOUS
<1>1. Live(entries) = {}
  BY DEF Init, Live
<1>2. TableWell(usage, entries, file)
  BY <1>1 DEF TableWell, EntriesWell, StoredWell, StartsApart, PlacedInFile, Stored, Placed
<1> QED
  BY <1>1, <1>2 DEF Init, Rest, WritePart, Owned, DefragPart, EmptyWell, FdWell

(* A client changes the table only.                                        *)
LEMMA ClientRest ==
    ASSUME Inv, entries' \in Table,
           UNCHANGED <<cw, file, newfile, snap, wpc, usage>>,
           ClientChange(usage, entries, entries', file, cw, snap),
           Live(entries') # {} => fd',
           Owned => fd'
    PROVE  Rest'
<1> DEFINE u == usage
           es == entries
           es2 == entries'
<1>0. /\ TypeOK /\ SoundUse(u) /\ TableWell(u, es, file) /\ WritePart /\ DefragPart
      /\ EmptyWell /\ FdWell /\ es \in Table /\ cw \in Write /\ file \in Seq(Cell)
      /\ (Owned => cw.key \in Keys)
  BY DEF Inv, Rest, IInv, TypeOK, Table, WriteOwned
<1>1. /\ TableWell(u, es2, file)
      /\ \A k \in Placed(es2) : k \in Placed(es) /\ es2[k].pos = es[k].pos
      /\ \A k \in Stored(u, es2) :
                /\ k \in Stored(u, es)
                /\ es2[k].pos = es[k].pos /\ es2[k].sz = es[k].sz /\ es2[k].ek = es[k].ek
      /\ \A k \in Live(es2) :
                \/ es2[k].pos = -2 /\ ~es2[k].written
                \/ k \in Live(es) /\ es2[k].pos = es[k].pos /\ (es2[k].written => es[k].written)
      /\ cw.key \in Keys /\ WriteWell(u, es, cw) => WriteWell(u, es2, cw)
      /\ WriteApart(u, es, cw) => WriteApart(u, es2, cw)
  <2> HIDE DEF es2
  <2>1. es2 \in Table /\ ClientChange(u, es, es2, file, cw, snap)
    BY DEF es2
  <2> HIDE DEF u, es
  <2> QED BY <1>0, <2>1, ClientKeeps
<1>2. WritePart'
  BY <1>0, <1>1 DEF WritePart, Owned
<1>3. DefragPart'
  <2>1. CASE wpc = "defrag"
    <3>1. MovesWell(u, es, snap) /\ CopiesWell(snap, file, newfile)
      BY <1>0, <2>1 DEF DefragPart
    <3>2. MovesWell(u, es2, snap)
      <4>1. \A k \in Live(es2) : snap[k] # NoEntry /\ es2[k].written => es2[k].pos >= 0
        BY <1>1, <3>1 DEF MovesWell
      <4> QED BY <1>1, <3>1, <4>1 DEF MovesWell
    <3> QED BY <2>1, <3>1, <3>2 DEF DefragPart
  <2> QED BY <1>0, <2>1 DEF DefragPart
<1>4. EmptyWell'
  BY <1>0, <1>1 DEF EmptyWell
<1>5. FdWell'
  BY DEF FdWell, Owned
<1> QED BY <1>0, <1>1, <1>2, <1>3, <1>4, <1>5 DEF Rest

(* find_cache_entry_to_write(), after which the writer writes or rests.    *)
LEMMA SelectRest ==
    ASSUME Inv, NEW es \in Table, Abandoned(es) = {}, cw = NoWrite,
           file' \in Seq(Cell), TableWell(usage, es, file'),
           Live(es) # {} => fd,
           SelectEntry(es),
           snap' = NoSnapshot, newfile' = <<>>, UNCHANGED <<fd, usage>>
    PROVE  Rest'
<1> DEFINE f == file'
<1>0. WrittenOff(es, {}) = es /\ SUBSET Abandoned(es) = {{}}
  BY DEF WrittenOff, Table
<1>1. CASE \E k \in Dirty(es) : /\ \E p \in Holes(es, es[k].sz) : cw' = TakenWrite(es, k, p)
                                /\ entries' = TakeData(es, k)
                                /\ wpc' = "write"
  <2>0. PICK k \in Dirty(es) :
            /\ \E p \in Holes(es, es[k].sz) : cw' = TakenWrite(es, k, p)
            /\ entries' = TakeData(es, k)
            /\ wpc' = "write"
    BY <1>1
  <2>1. PICK p \in Holes(es, es[k].sz) :
            /\ cw' = TakenWrite(es, k, p)
            /\ entries' = TakeData(es, k)
            /\ wpc' = "write"
    BY <2>0
  <2>2. es[k].data # Null
    BY DEF Abandoned
  <2>3. /\ TableWell(usage, TakeData(es, k), f)
        /\ WriteWell(usage, TakeData(es, k), TakenWrite(es, k, p))
        /\ p >= 0 => WriteApart(usage, TakeData(es, k), TakenWrite(es, k, p))
    <3> HIDE DEF f
    <3>1. f \in Seq(Cell) /\ TableWell(usage, es, f)
      BY DEF f
    <3> QED BY <2>2, <3>1, DataTaken
  <2>4. cw'.pos = p /\ cw'.done = 0
    BY <2>1 DEF TakenWrite
  <2>5. WrittenSoFar(cw', f)
    BY <2>4 DEF WrittenSoFar
  <2>6. k \in Live(es)
    BY DEF Dirty
  <2> QED
    BY <2>1, <2>3, <2>4, <2>5, <2>6
    DEF Inv, Rest, WritePart, Owned, DefragPart, EmptyWell, FdWell
<1>2. CASE /\ Dirty(es) = {} /\ entries' = es /\ cw' = cw /\ wpc' = AfterLast(es)
  <2>1. wpc' \in {"truncate", "poll"} /\ (wpc' = "truncate" => Live(es) = {})
    BY <1>2 DEF AfterLast
  <2> QED
    BY <1>2, <2>1 DEF Inv, Rest, WritePart, Owned, DefragPart, EmptyWell, FdWell
<1> QED
  BY <1>0, <1>1, <1>2 DEF SelectEntry

-----------------------------------------------------------------------------
(* Looking a key up, as a function of what it depends on.                  *)
OnFile(f, e) ==
    {v \in Values : Size[v] = e.sz /\ \A i \in 1..e.sz : f[e.pos + i] = CellOf(v, e.ek, i)}

Found(e, w, f, k) ==
    CASE e = NoEntry -> Missing
      [] e # NoEntry /\ e.data # Null -> e.data
      [] e # NoEntry /\ e.data = Null /\ (w.data # Null /\ w.key = k) ->
            IF w.ek = e.ek /\ w.sz = e.sz THEN w.data ELSE Garbage
      [] e # NoEntry /\ e.data = Null /\ ~(w.data # Null /\ w.key = k) ->
            IF ~(e.pos >= 0 /\ (e.sz = 0 \/ EndOf(e) <= Len(f))) THEN IOError
            ELSE IF OnFile(f, e) = {} THEN Garbage
            ELSE CHOOSE v \in OnFile(f, e) : TRUE

LEMMA LookupIsFound ==
    ASSUME NEW k \in Keys
    PROVE  Lookup(k) = Found(entries[k], cw, file, k)
  BY DEF Lookup, Found, InFlight, ValuesOnDisk, OnFile, Readable

LEMMA LookupIsFoundNext ==
    ASSUME NEW k \in Keys
    PROVE  Lookup(k)' = Found(entries'[k], cw', file', k)
  BY DEF Lookup, Found, InFlight, ValuesOnDisk, OnFile, Readable

(* The bytes and the key they are under tell which value it is.            *)
LEMMA OneValue ==
    ASSUME NEW e \in Entry, NEW f \in Seq(Cell), NEW v \in Values, NEW x \in Values,
           Holds(f, e, v), Size[x] = e.sz,
           \A i \in 1..e.sz : f[e.pos + i] = CellOf(x, e.ek, i)
    PROVE  x = v
<1>1. e.sz \in Nat
  BY EntryFields
<1>2. CASE e.sz = 0
  BY <1>2, EmptyAssumption DEF Holds
<1>3. CASE e.sz > 0
  <2>1. 1 \in 1..e.sz
    BY <1>1, <1>3
  <2>2. CellOf(x, e.ek, 1) = CellOf(v, e.ek, 1)
    BY <2>1 DEF Holds
  <2>3. CellOf(x, e.ek, 1).val = x /\ CellOf(v, e.ek, 1).val = v
    BY DEF CellOf
  <2> QED BY <2>2, <2>3
<1> QED BY <1>1, <1>2, <1>3

LEMMA FoundOnFile ==
    ASSUME NEW e \in Entry, NEW f \in Seq(Cell), NEW v \in Values, Holds(f, e, v),
           e.data = Null, e.pos >= 0, NEW w, NEW k, ~(w.data # Null /\ w.key = k)
    PROVE  Found(e, w, f, k) = v
<1>1. e.sz \in Nat /\ e # NoEntry
  BY EntryFields
<1>2. e.sz = 0 \/ EndOf(e) <= Len(f)
  BY <1>1 DEF Holds
<1>3. OnFile(f, e) = {v}
  <2>1. v \in OnFile(f, e)
    BY DEF Holds, OnFile
  <2>2. \A x \in OnFile(f, e) : x = v
    BY OneValue DEF OnFile
  <2> QED BY <2>1, <2>2
<1>4. (CHOOSE x \in OnFile(f, e) : TRUE) = v
  BY <1>3
<1> QED BY <1>1, <1>2, <1>3, <1>4 DEF Found

(* What the parts of the invariant say of a look-up.                       *)
WriteKeeps(e, w, k) ==
    e # NoEntry /\ ~e.written /\ e.data = Null =>
        w.data # Null /\ w.key = k /\ w.sz = e.sz /\ w.ek = e.ek

FoundWell(u, es, w, f, k) ==
    /\ es[k] = NoEntry => Found(es[k], w, f, k) = Missing
    /\ es[k] # NoEntry /\ es[k].data # Null => Found(es[k], w, f, k) = es[k].data
    /\ es[k] # NoEntry /\ es[k].data = Null /\ w.data # Null /\ w.key = k =>
        ~es[k].written /\ Found(es[k], w, f, k) = w.data
    /\ es[k] # NoEntry /\ es[k].data = Null /\ ~(w.data # Null /\ w.key = k) =>
        /\ es[k].written
        /\ \/ /\ es[k].pos >= 0 /\ k \in Stored(u, es)
              /\ \E v \in Values : Holds(f, es[k], v)
           \/ es[k].pos < 0 /\ WriteMayFail /\ Found(es[k], w, f, k) = IOError

LEMMA FoundCases ==
    ASSUME NEW u, NEW es \in Table, NEW f \in Seq(Cell), NEW w \in Write, NEW k \in Keys,
           TableWell(u, es, f), WriteKeeps(es[k], w, k),
           w.data # Null => WriteWell(u, es, w)
    PROVE  FoundWell(u, es, w, f, k)
<1> DEFINE e == es[k]
<1>1. e # NoEntry => e \in Entry /\ k \in Live(es)
  BY DEF Table, Live
<1>2. ASSUME e # NoEntry, e.data = Null, w.data # Null, w.key = k
      PROVE  ~e.written /\ Found(e, w, f, k) = w.data
  <2>1. ~e.written
    BY <1>2 DEF WriteWell, WriteOf
  <2>2. w.sz = e.sz /\ w.ek = e.ek
    BY <1>2, <2>1 DEF WriteKeeps
  <2> QED BY <1>2, <2>1, <2>2 DEF Found
<1>3. ASSUME e # NoEntry, e.data = Null, ~(w.data # Null /\ w.key = k)
      PROVE  /\ e.written
             /\ \/ e.pos >= 0 /\ k \in Stored(u, es) /\ \E v \in Values : Holds(f, e, v)
                \/ e.pos < 0 /\ WriteMayFail /\ Found(e, w, f, k) = IOError
  <2>1. e.written /\ e.pos \in Int
    BY <1>1, <1>3, EntryFields DEF WriteKeeps
  <2>2. CASE e.pos >= 0
    <3>1. k \in Stored(u, es)
      BY <1>1, <1>3, <2>1, <2>2 DEF Stored, Trusted
    <3> QED BY <2>1, <2>2, <3>1 DEF TableWell, StoredWell
  <2>3. CASE e.pos < 0
    <3>1. WriteMayFail /\ ~(e.pos >= 0)
      BY <1>1, <1>3, <2>1, <2>3 DEF TableWell, EntriesWell, EntryWell
    <3>2. Found(e, w, f, k) = IOError
      BY <1>3, <3>1 DEF Found
    <3> QED BY <2>1, <2>3, <3>1, <3>2
  <2> QED BY <2>1, <2>2, <2>3
<1> QED BY <1>2, <1>3 DEF Found, FoundWell

(* ... in the states of the cache.                                         *)
LEMMA InvFound ==
    ASSUME Inv, NEW k \in Keys
    PROVE  /\ WriteKeeps(entries[k], cw, k)
           /\ entries \in Table /\ file \in Seq(Cell) /\ cw \in Write
           /\ TableWell(usage, entries, file)
           /\ cw.data # Null => Owned /\ WriteWell(usage, entries, cw)
<1>1. WriteKeeps(entries[k], cw, k)
  BY DEF Inv, IInv, DirtyDataKept, WriteKeeps, InFlight, Dirty, Live
<1>2. cw.data # Null => Owned
  BY DEF Inv, IInv, WriteOwned, NoWrite
<1> QED BY <1>1, <1>2 DEF Inv, Rest, WritePart, IInv, TypeOK, Table

LEMMA LookupCases ==
    ASSUME Inv, NEW k \in Keys
    PROVE  /\ entries[k] = NoEntry => Lookup(k) = Missing
           /\ entries[k] # NoEntry /\ entries[k].data # Null => Lookup(k) = entries[k].data
           /\ entries[k] # NoEntry /\ entries[k].data = Null /\ InFlight(k) =>
                ~entries[k].written /\ Lookup(k) = cw.data
           /\ entries[k] # NoEntry /\ entries[k].data = Null /\ ~InFlight(k) =>
                /\ entries[k].written
                /\ \/ /\ entries[k].pos >= 0 /\ k \in Stored(usage, entries)
                      /\ \E v \in Values : Holds(file, entries[k], v) /\ Lookup(k) = v
                   \/ entries[k].pos < 0 /\ WriteMayFail /\ Lookup(k) = IOError
<1>1. /\ WriteKeeps(entries[k], cw, k)
      /\ entries \in Table /\ file \in Seq(Cell) /\ cw \in Write
      /\ TableWell(usage, entries, file)
      /\ cw.data # Null => WriteWell(usage, entries, cw)
  BY InvFound
<1>2. Lookup(k) = Found(entries[k], cw, file, k)
  BY LookupIsFound
<1>3. entries[k] # NoEntry => entries[k] \in Entry
  BY <1>1 DEF Table
<1>4. ASSUME entries[k] # NoEntry, entries[k].data = Null, ~InFlight(k),
             entries[k].pos >= 0, NEW v \in Values, Holds(file, entries[k], v)
      PROVE  Lookup(k) = v
  BY <1>1, <1>2, <1>3, <1>4, FoundOnFile DEF InFlight
<1>5. /\ entries[k] = NoEntry => Found(entries[k], cw, file, k) = Missing
      /\ entries[k] # NoEntry /\ entries[k].data # Null =>
            Found(entries[k], cw, file, k) = entries[k].data
      /\ entries[k] # NoEntry /\ entries[k].data = Null /\ cw.data # Null /\ cw.key = k =>
            ~entries[k].written /\ Found(entries[k], cw, file, k) = cw.data
      /\ entries[k] # NoEntry /\ entries[k].data = Null /\ ~(cw.data # Null /\ cw.key = k) =>
            /\ entries[k].written
            /\ \/ /\ entries[k].pos >= 0 /\ k \in Stored(usage, entries)
                  /\ \E v \in Values : Holds(file, entries[k], v)
               \/ /\ entries[k].pos < 0 /\ WriteMayFail
                  /\ Found(entries[k], cw, file, k) = IOError
  <2> DEFINE u == usage
             es == entries
             f == file
             w == cw
  <2>1. /\ es \in Table /\ f \in Seq(Cell) /\ w \in Write
        /\ TableWell(u, es, f) /\ WriteKeeps(es[k], w, k)
        /\ w.data # Null => WriteWell(u, es, w)
    BY <1>1
  <2> HIDE DEF u, es, f, w
  <2>2. FoundWell(u, es, w, f, k)
    BY <2>1, FoundCases
  <2> QED BY <2>2 DEF u, es, f, w, FoundWell
<1> QED BY <1>2, <1>4, <1>5 DEF InFlight

-----------------------------------------------------------------------------
(* The steps of the clients: the invariant, and what look-ups show.        *)
ShowsSame(S) == \A k \in S : Lookup(k)' = Lookup(k)

LEMMA SameEntry ==
    ASSUME NEW k \in Keys, entries'[k] = entries[k], UNCHANGED <<cw, file>>
    PROVE  Lookup(k)' = Lookup(k)
  BY LookupIsFound, LookupIsFoundNext

LEMMA TableShows ==
    ASSUME UNCHANGED <<entries, cw, file>>
    PROVE  ShowsSame(Keys)
  BY SameEntry DEF ShowsSame

LEMMA InvTypes ==
    ASSUME Inv
    PROVE  entries \in Table /\ file \in Seq(Cell) /\ cw \in Write /\ adds \in Nat
  BY MaxAddsAssumption DEF Inv, IInv, TypeOK, Table

LEMMA SameTable ==
    ASSUME NEW u, NEW es, NEW f, NEW w, NEW sn
    PROVE  ClientChange(u, es, es, f, w, sn)
  BY DEF ClientChange, Change

(* The calls and steps that leave the table, the write and the file alone. *)
LEMMA OtherRest ==
    ASSUME Inv, UNCHANGED <<entries, cw, file, newfile, snap, usage>>,
           wpc' = wpc \/ (~Owned /\ wpc # "defrag" /\ wpc' \in {"top", "done"}),
           fd => fd'
    PROVE  Rest' /\ ShowsSame(Keys)
  BY TableShows DEF Inv, Rest, WritePart, Owned, DefragPart, EmptyWell, FdWell

LEMMA AddRest ==
    ASSUME Inv, NEW k \in Keys, NEW v \in Values, Add(k, v), UNCHANGED usage, entries' \in Table
    PROVE  Rest' /\ Lookup(k)' = v /\ ShowsSame(Keys \ {k})
<1> USE SizeAssumption, NullAssumption
<1>1. entries \in Table /\ adds \in Nat /\ SoundUse(usage) /\ fd
  BY InvTypes DEF Inv, Rest, Add, Ready
<1>2. \A l \in Keys : l # k => entries'[l] = entries[l]
  BY <1>1 DEF Add, Table
<1>3. entries'[k] = IF entries[k] = NoEntry THEN AddNew(v) ELSE AddExisting(entries[k], v)
  BY <1>1 DEF Add, Table
<1>4. ClientChange(usage, entries, entries', file, cw, snap)
  <2>1. Change(usage, entries[k], entries'[k], file, cw, cw.key = k, cw.key # k /\ snap[k] = NoEntry)
    <3>1. CASE entries[k] = NoEntry
      <4>1. entries'[k] = [data |-> v, sz |-> Size[v], written |-> FALSE, pos |-> -2, ek |-> adds]
        BY <3>1, <1>3 DEF AddNew
      <4>2. "readd" \in usage \/ (cw.key # k /\ snap[k] = NoEntry)
        BY DEF Add, Untouched
      <4> QED BY <3>1, <4>1, <4>2, <1>1 DEF Change, AddedNew
    <3>2. CASE entries[k] # NoEntry
      BY <3>2, <1>3 DEF Add, Untouched, Change, AddedAgain
    <3> QED BY <3>1, <3>2
  <2>2. \A l \in Keys : l # k =>
          Change(usage, entries[l], entries'[l], file, cw, cw.key = l, cw.key # l /\ snap[l] = NoEntry)
    BY <1>2 DEF Change
  <2> QED BY <2>1, <2>2 DEF ClientChange, Live
<1>5. Rest'
  BY <1>1, <1>4, ClientRest DEF Add
<1>6. entries'[k].data = v /\ entries'[k] # NoEntry
  <2>1. entries[k] # NoEntry => entries[k] \in Entry
    BY <1>1 DEF Table
  <2>2. entries'[k].data = v
    BY <1>3, <2>1 DEF AddNew, AddExisting, Entry
  <2>3. entries'[k] \in Entry \cup {NoEntry}
    BY DEF Table
  <2>4. AddNew(v) \in Entry
    BY <1>1 DEF AddNew, Entry, Data
  <2>5. entries[k] # NoEntry => AddExisting(entries[k], v) \in Entry
    <3>1. v \in Data /\ Size[v] \in Nat
      BY DEF Data
    <3> QED BY <2>1, <3>1 DEF AddExisting, Entry
  <2> QED BY <1>3, <2>2, <2>4, <2>5, EntryFields
<1>7. Lookup(k)' = v
  <2>1. v # Null
    OBVIOUS
  <2> QED BY <1>6, <2>1, LookupIsFoundNext DEF Found
<1>8. ShowsSame(Keys \ {k})
  BY <1>2, SameEntry DEF ShowsSame, Add
<1> QED BY <1>5, <1>7, <1>8

LEMMA RemoveRest ==
    ASSUME Inv, NEW k \in Keys, RemoveEntry(k), UNCHANGED usage
    PROVE  Rest' /\ Lookup(k)' = Missing /\ ShowsSame(Keys \ {k})
<1>1. entries \in Table /\ fd
  BY InvTypes DEF RemoveEntry, Ready
<1>2. /\ entries' \in Table /\ entries'[k] = NoEntry
      /\ \A l \in Keys : l # k => entries'[l] = entries[l]
  BY <1>1 DEF RemoveEntry, Table
<1>3. ClientChange(usage, entries, entries', file, cw, snap)
  BY <1>2 DEF ClientChange, Change, Live
<1>4. Rest'
  BY <1>1, <1>2, <1>3, ClientRest DEF RemoveEntry
<1>5. Lookup(k)' = Missing
  BY <1>2, LookupIsFoundNext DEF Found
<1>6. ShowsSame(Keys \ {k})
  BY <1>2, SameEntry DEF ShowsSame, RemoveEntry
<1> QED BY <1>4, <1>5, <1>6

LEMMA ClearRest ==
    ASSUME Inv, ClearAll, UNCHANGED usage
    PROVE  Rest' /\ \A k \in Keys : Lookup(k)' = Missing
<1>1. /\ entries' \in Table /\ \A k \in Keys : entries'[k] = NoEntry
  BY DEF ClearAll, Table
<1>2. ClientChange(usage, entries, entries', file, cw, snap)
  BY <1>1 DEF ClientChange, Live
<1>3. Rest'
  BY <1>1, <1>2, ClientRest DEF ClearAll, Ready, Inv, Rest, FdWell
<1> QED BY <1>1, <1>3, LookupIsFoundNext DEF Found

LEMMA JoinRest ==
    ASSUME Inv, DeallocJoin, UNCHANGED usage
    PROVE  Rest' /\ \A k \in Keys : Lookup(k)' = Missing
<1>1. Live(entries') = {} /\ \A k \in Keys : entries'[k] = NoEntry
  BY DEF DeallocJoin, Live
<1>2. TableWell(usage, entries', file)
  BY <1>1 DEF TableWell, EntriesWell, StoredWell, StartsApart, PlacedInFile, Stored, Placed
<1>3. Rest'
  BY <1>1, <1>2 DEF DeallocJoin, Inv, Rest, WritePart, Owned, DefragPart, EmptyWell, FdWell
<1> QED BY <1>1, <1>3, LookupIsFoundNext DEF Found

(* get(key, True): the copy that is kept is the value on its way to the    *)
(* file, or the only one whose bytes are in it.                            *)
LEMMA GetRest ==
    ASSUME Inv, NEW k \in Keys, GetIntoRam(k), UNCHANGED usage, entries' \in Table
    PROVE  Rest' /\ ShowsSame(Keys)
<1>1. /\ entries \in Table /\ fd /\ "ram" \in usage /\ SoundUse(usage)
      /\ entries[k] # NoEntry /\ entries[k].data = Null
      /\ "readd" \notin usage /\ ~WriteMayFail
  BY InvTypes DEF GetIntoRam, Ready, Inv, Rest, SoundUse
<1>2. PICK v \in Values :
        /\ Lookup(k) = v
        /\ Size[v] = entries[k].sz
        /\ entries[k].written /\ entries[k].pos >= 0 => Holds(file, entries[k], v)
        /\ cw.key = k => v = cw.data
  <2>1. CASE InFlight(k)
    <3>1. Lookup(k) = cw.data /\ ~entries[k].written
      BY <2>1, <1>1, LookupCases
    <3>2. WriteWell(usage, entries, cw) /\ cw.key = k
      BY <2>1, InvFound DEF InFlight
    <3>3. cw.data \in Values /\ Size[cw.data] = entries[k].sz
      BY <3>2, <1>1 DEF WriteWell, WriteOf
    <3> QED BY <3>1, <3>3
  <2>2. CASE ~InFlight(k)
    <3>1. PICK v \in Values : Holds(file, entries[k], v) /\ Lookup(k) = v
      BY <2>2, <1>1, LookupCases
    <3>2. cw.key # k
      BY <2>2, NullAssumption DEF InFlight, Inv, IInv, WriteOwned, NoWrite
    <3> QED BY <3>1, <3>2 DEF Holds
  <2> QED BY <2>1, <2>2
<1>3. CopyKept(k) = v /\ v # Null
  BY <1>2, ErrorsAssumption, NullAssumption DEF CopyKept
<1>4. /\ entries'[k] = [entries[k] EXCEPT !.data = v]
      /\ \A l \in Keys : l # k => entries'[l] = entries[l]
  <2>1. entries' = [entries EXCEPT ![k].data = v]
    BY <1>3 DEF GetIntoRam
  <2> QED BY <2>1, <1>1 DEF Table
<1>5. ClientChange(usage, entries, entries', file, cw, snap)
  <2>1. Change(usage, entries[k], entries'[k], file, cw, cw.key = k, cw.key # k /\ snap[k] = NoEntry)
    <3> DEFINE e == entries[k]
               x == entries'[k]
               f == file
               w == cw
               u == usage
    <3>1. /\ x = [e EXCEPT !.data = v] /\ Size[v] = e.sz
          /\ e.written /\ e.pos >= 0 => Holds(f, e, v)
          /\ w.key = k => v = w.data
          /\ "readd" \notin u /\ e # NoEntry
      BY <1>1, <1>2, <1>4
    <3> HIDE DEF e, x, f, w, u
    <3>2. CopyChanged(u, e, x, f, w, w.key = k)
      BY <3>1 DEF CopyChanged
    <3>3. Change(u, e, x, f, w, w.key = k, w.key # k /\ snap[k] = NoEntry)
      BY <3>2 DEF Change
    <3> QED BY <3>3 DEF u, e, x, f, w
  <2>2. \A l \in Keys : l # k =>
          Change(usage, entries[l], entries'[l], file, cw, cw.key = l, cw.key # l /\ snap[l] = NoEntry)
    BY <1>4 DEF Change
  <2> QED BY <2>1, <2>2 DEF ClientChange, Live
<1>6. Rest'
  BY <1>1, <1>5, ClientRest DEF GetIntoRam
<1>7. Lookup(k)' = v
  <2>1. entries[k] \in Entry
    BY <1>1 DEF Table
  <2>2. [entries[k] EXCEPT !.data = v] \in Entry /\ [entries[k] EXCEPT !.data = v].data = v
    BY <2>1 DEF Entry, Data
  <2>3. entries'[k].data = v /\ entries'[k] # NoEntry
    BY <1>4, <2>2, EntryFields
  <2> QED BY <1>3, <2>3, LookupIsFoundNext DEF Found
<1>8. \A l \in Keys : l # k => Lookup(l)' = Lookup(l)
  BY <1>4, SameEntry DEF GetIntoRam
<1> QED BY <1>2, <1>6, <1>7, <1>8 DEF ShowsSame

(* remove_from_ram(): what is forgotten can be read from the file.         *)
LEMMA LeaveRamRest ==
    ASSUME Inv, NEW S \in SUBSET Keys, ClearFromRam(S), UNCHANGED usage, entries' \in Table
    PROVE  Rest' /\ ShowsSame(Keys)
<1>1. /\ entries \in Table /\ fd /\ file \in Seq(Cell)
      /\ "readd" \notin usage /\ ~WriteMayFail
  BY InvTypes DEF ClearFromRam, Ready, Inv, Rest, SoundUse
<1>2. /\ \A k \in S : /\ entries'[k] = [entries[k] EXCEPT !.data = Null]
                      /\ entries[k] # NoEntry /\ entries[k].written /\ entries[k].data # Null
      /\ \A k \in Keys \ S : entries'[k] = entries[k]
  BY <1>1 DEF ClearFromRam, MayLeaveRam
<1>3. ClientChange(usage, entries, entries', file, cw, snap)
  <2>1. ASSUME NEW k \in S
        PROVE  Change(usage, entries[k], entries'[k], file, cw, cw.key = k, cw.key # k /\ snap[k] = NoEntry)
    BY <1>1, <1>2 DEF Change, CopyChanged
  <2>2. ASSUME NEW k \in Keys \ S
        PROVE  Change(usage, entries[k], entries'[k], file, cw, cw.key = k, cw.key # k /\ snap[k] = NoEntry)
    BY <1>2 DEF Change
  <2> QED BY <2>1, <2>2 DEF ClientChange, Live
<1>4. Rest'
  BY <1>1, <1>3, ClientRest DEF ClearFromRam
<1>5. ASSUME NEW k \in S
      PROVE  Lookup(k)' = Lookup(k)
  <2>1. k \in Keys /\ k \in Live(entries) /\ entries[k] \in Entry
    BY <1>1, <1>2 DEF Table, Live
  <2>2. EntryWell(usage, entries[k]) /\ entries[k].written /\ entries[k].data # Null
    BY <1>2, <2>1 DEF Inv, Rest, TableWell, EntriesWell
  <2>3. entries[k].pos >= 0
    BY <1>1, <2>2 DEF EntryWell
  <2>4. k \in Stored(usage, entries)
    BY <1>1, <2>1, <2>2, <2>3 DEF Stored, Trusted
  <2>5. PICK v \in Values : Holds(file, entries[k], v) /\ entries[k].data \in {Null, v}
    BY <2>4 DEF Inv, Rest, TableWell, StoredWell
  <2>6. Lookup(k) = v
    BY <2>1, <2>2, <2>5, LookupCases, EntryFields
  <2>7. ~(cw.data # Null /\ cw.key = k)
    BY <2>1, <2>2, InvFound, EntryFields DEF WriteWell, WriteOf
  <2>8. entries'[k] \in Entry /\ entries'[k].data = Null /\ entries'[k].pos = entries[k].pos
        /\ entries'[k].sz = entries[k].sz /\ entries'[k].ek = entries[k].ek
    BY <1>2, <2>1 DEF Entry, Data
  <2>9. Holds(file, entries'[k], v)
    BY <2>5, <2>8 DEF Holds, EndOf
  <2>10. Found(entries'[k], cw, file, k) = v
    <3> DEFINE e == entries'[k]
               f == file
               w == cw
    <3>1. e \in Entry /\ f \in Seq(Cell) /\ Holds(f, e, v) /\ e.data = Null /\ e.pos >= 0
          /\ ~(w.data # Null /\ w.key = k)
      BY <1>1, <2>3, <2>7, <2>8, <2>9
    <3> HIDE DEF e, f, w
    <3>2. Found(e, w, f, k) = v
      BY <3>1, FoundOnFile
    <3> QED BY <3>2 DEF e, w, f
  <2> QED BY <2>1, <2>6, <2>10, LookupIsFoundNext DEF ClearFromRam
<1>6. \A k \in Keys \ S : Lookup(k)' = Lookup(k)
  BY <1>2, SameEntry DEF ClearFromRam
<1> QED BY <1>4, <1>5, <1>6 DEF ShowsSame

-----------------------------------------------------------------------------
(* The steps of the writer thread.                                         *)

(* The value whose data is taken can be looked up in the write.            *)
LEMMA SelectShows ==
    ASSUME Inv, NEW es \in Table, Abandoned(es) = {}, cw = NoWrite, SelectEntry(es),
           NEW k \in Keys
    PROVE  \/ entries'[k] = es[k] /\ ~(cw'.data # Null /\ cw'.key = k)
           \/ /\ es[k] # NoEntry /\ es[k].data # Null
              /\ Lookup(k)' = es[k].data
<1>0. WrittenOff(es, {}) = es /\ SUBSET Abandoned(es) = {{}}
  BY DEF WrittenOff, Table
<1>1. CASE \E l \in Dirty(es) : /\ \E p \in Holes(es, es[l].sz) : cw' = TakenWrite(es, l, p)
                                /\ entries' = TakeData(es, l)
  <2>0. PICK l \in Dirty(es) :
            /\ \E p \in Holes(es, es[l].sz) : cw' = TakenWrite(es, l, p)
            /\ entries' = TakeData(es, l)
    BY <1>1
  <2>1. PICK p \in Holes(es, es[l].sz) : cw' = TakenWrite(es, l, p)
    BY <2>0
  <2>2. l \in Keys /\ es[l] \in Entry /\ es[l] # NoEntry /\ es[l].data # Null
    BY DEF Dirty, Live, Table, Abandoned
  <2>3. /\ cw'.key = l /\ cw'.data = es[l].data /\ cw'.sz = es[l].sz /\ cw'.ek = es[l].ek
    BY <2>1 DEF TakenWrite
  <2>4. CASE k # l
    BY <2>0, <2>2, <2>3, <2>4 DEF TakeData, Table
  <2>5. CASE k = l
    <3>1. entries'[l] = [es[l] EXCEPT !.data = Null]
      BY <2>0, <2>2 DEF TakeData, Table
    <3>2. entries'[l] \in Entry /\ entries'[l].data = Null
          /\ entries'[l].sz = es[l].sz /\ entries'[l].ek = es[l].ek
      BY <2>2, <3>1 DEF Entry, Data
    <3>3. Found(entries'[l], cw', file', l) = es[l].data
      <4>1. entries'[l] # NoEntry
        BY <3>2, EntryFields
      <4> QED BY <2>2, <2>3, <3>2, <4>1 DEF Found
    <3> QED BY <2>2, <2>5, <3>3, LookupIsFoundNext
  <2> QED BY <2>4, <2>5
<1>2. CASE Dirty(es) = {} /\ entries' = es /\ cw' = cw
  BY <1>2 DEF NoWrite
<1> QED
  BY <1>0, <1>1, <1>2 DEF SelectEntry

(* Selecting from the table and the file as they are.                      *)
LEMMA FindRest ==
    ASSUME Inv, wpc \in {"top", "defrag"}, SelectEntry(entries),
           snap' = NoSnapshot, newfile' = <<>>, UNCHANGED <<file, fd, usage>>
    PROVE  Rest' /\ ShowsSame(Keys)
<1>1. cw = NoWrite /\ Abandoned(entries) = {}
  BY DEF Inv, IInv, WriteOwned, Owned, DirtyDataKept, Abandoned
<1>2. /\ entries \in Table /\ file \in Seq(Cell) /\ TableWell(usage, entries, file)
      /\ Live(entries) # {} => fd
  BY InvTypes DEF Inv, Rest, FdWell
<1>3. Rest'
  <2> DEFINE es == entries
  <2>1. /\ es \in Table /\ Abandoned(es) = {} /\ file' \in Seq(Cell)
        /\ TableWell(usage, es, file') /\ (Live(es) # {} => fd) /\ SelectEntry(es)
    BY <1>1, <1>2
  <2> HIDE DEF es
  <2> QED BY <1>1, <2>1, SelectRest
<1>4. ASSUME NEW k \in Keys
      PROVE  Lookup(k)' = Lookup(k)
  <2>1. CASE entries'[k] = entries[k] /\ ~(cw'.data # Null /\ cw'.key = k)
    <3>1. ~(cw.data # Null /\ cw.key = k)
      BY <1>1 DEF NoWrite
    <3> QED BY <2>1, <3>1, LookupIsFound, LookupIsFoundNext DEF Found
  <2>2. CASE entries[k] # NoEntry /\ entries[k].data # Null /\ Lookup(k)' = entries[k].data
    BY <2>2, LookupCases
  <2> QED
    <3> DEFINE es == entries
    <3>1. es \in Table /\ Abandoned(es) = {} /\ SelectEntry(es)
      BY <1>1, <1>2
    <3> HIDE DEF es
    <3>2. \/ entries'[k] = es[k] /\ ~(cw'.data # Null /\ cw'.key = k)
          \/ es[k] # NoEntry /\ es[k].data # Null /\ Lookup(k)' = es[k].data
      BY <1>1, <3>1, SelectShows
    <3> QED BY <2>1, <2>2, <3>2 DEF es
<1> QED BY <1>3, <1>4 DEF ShowsSame

LEMMA DefragBeginRest ==
    ASSUME Inv, DefragBegin, UNCHANGED usage
    PROVE  Rest' /\ ShowsSame(Keys)
<1>1. entries \in Table /\ newfile = <<>>
  BY InvTypes DEF DefragBegin, Inv, Rest, DefragPart
<1>2. Placed(entries) \subseteq Live(entries) /\ Live(entries) \subseteq Keys
  BY DEF Placed, Live
<1>3. /\ \A k \in Placed(entries) :
            snap'[k] = [old |-> entries[k].pos, sz |-> entries[k].sz, new |-> -1]
      /\ \A k \in Keys \ Placed(entries) : snap'[k] = NoEntry
  BY <1>2 DEF DefragBegin, Snapshot
<1>4. \A k \in Placed(entries) :
        /\ entries[k].pos >= 0 /\ entries[k].sz > 0
        /\ [old |-> entries[k].pos, sz |-> entries[k].sz, new |-> -1] \in Move
  BY <1>1, <1>2, LiveEntry, EntryFields DEF Placed, Move
<1>5. \A k \in Placed(entries) : snap'[k] # NoEntry
  BY <1>3, <1>4, NoEntryAssumption
<1>f. \A k \in Placed(entries) :
        snap'[k].old = entries[k].pos /\ snap'[k].sz = entries[k].sz /\ snap'[k].new = -1
  <2>1. ASSUME NEW k \in Placed(entries), NEW m, m = snap'[k]
        PROVE  m.old = entries[k].pos /\ m.sz = entries[k].sz /\ m.new = -1
    <3>1. m = [old |-> entries[k].pos, sz |-> entries[k].sz, new |-> -1]
      BY <1>3, <2>1
    <3> QED BY ONLY <3>1
  <2> QED BY <2>1
<1>6. MovesWell(usage, entries, snap')
  <2>1. \A k \in Stored(usage, entries) : k \in Keys
    BY <1>2 DEF Stored
  <2>2. \A k \in Keys : snap'[k] # NoEntry => snap'[k].sz > 0 /\ snap'[k].new >= -1
    <3>1. \A k \in Keys : snap'[k] # NoEntry => k \in Placed(entries)
      BY <1>3
    <3>2. \A k \in Placed(entries) : entries[k].sz > 0
      BY <1>4
    <3>3. \A k \in Placed(entries) : snap'[k].sz = entries[k].sz /\ snap'[k].new = -1
      BY <1>f
    <3>4. \A k \in Placed(entries) : snap'[k].sz > 0 /\ snap'[k].new >= -1
      BY <3>2, <3>3
    <3> QED BY <3>1, <3>4
  <2>3. \A k \in Keys : snap'[k] # NoEntry => k \in Placed(entries)
    BY <1>3
  <2> QED BY <1>2, <1>4, <1>5, <1>f, <2>1, <2>2, <2>3 DEF MovesWell
<1>7. \A k \in Keys : ~Copied(snap', k)
  BY <1>3, <1>f DEF Copied
<1>8. CopiesWell(snap', file, newfile)
  BY <1>7 DEF CopiesWell
<1>9. Rest'
  BY <1>6, <1>8 DEF DefragBegin, Inv, Rest, WritePart, Owned, DefragPart, EmptyWell, FdWell
<1> QED BY <1>9, TableShows DEF DefragBegin

(* One entry more is copied, to the end of the new file.                   *)
LEMMA CopyMore ==
    ASSUME NEW u, NEW es, NEW sn \in [Keys -> Move \cup {NoEntry}],
           NEW f \in Seq(Cell), NEW nf \in Seq(Cell), NEW k \in Keys,
           sn[k] # NoEntry, sn[k].new = -1, sn[k].old + sn[k].sz <= Len(f),
           MovesWell(u, es, sn), CopiesWell(sn, f, nf)
    PROVE  LET sn2 == [sn EXCEPT ![k].new = Len(nf)]
               nf2 == nf \o SubSeq(f, sn[k].old + 1, sn[k].old + sn[k].sz)
           IN  MovesWell(u, es, sn2) /\ CopiesWell(sn2, f, nf2)
<1> DEFINE old == sn[k].old
           n == sn[k].sz
           sn2 == [sn EXCEPT ![k].new = Len(nf)]
           ss == SubSeq(f, old + 1, old + n)
           nf2 == nf \o ss
<1> SUFFICES MovesWell(u, es, sn2) /\ CopiesWell(sn2, f, nf2)
  OBVIOUS
<1>1. sn[k] \in Move /\ old \in Nat /\ n \in Nat /\ n > 0 /\ Len(f) \in Nat /\ Len(nf) \in Nat
  BY DEF Move, MovesWell
<1>2. /\ \A l \in Keys : l # k => sn2[l] = sn[l]
      /\ sn2[k] = [sn[k] EXCEPT !.new = Len(nf)]
  OBVIOUS
<1>3. sn2[k].old = old /\ sn2[k].sz = n /\ sn2[k].new = Len(nf) /\ sn2[k] \in Move
  BY <1>1, <1>2 DEF Move
<1>4. sn2[k] # NoEntry
  BY <1>3, NoEntryAssumption
<1>5. ss \in Seq(Cell) /\ Len(ss) = n /\ \A i \in 1..n : ss[i] = f[old + i]
  <2> DEFINE a == old + 1
             b == old + n
  <2>1. a \in Int /\ b \in Int /\ a <= b /\ b - a + 1 = n /\ \A i \in a..b : i \in 1..Len(f)
    BY <1>1
  <2>a. \A i \in a..b : f[i] \in Cell
    <3> HIDE DEF a, b
    <3> QED BY <2>1
  <2>2. ss \in Seq(Cell) /\ Len(ss) = n /\ \A i \in 1..n : ss[i] = f[a + i - 1]
    <3> DEFINE s == SubSeq(f, a, b)
    <3> HIDE DEF a, b
    <3>1. s \in Seq(Cell) /\ Len(s) = (IF a <= b THEN b - a + 1 ELSE 0)
      BY <2>1, <2>a, SubSeqProperties
    <3>2. \A i \in 1..b - a + 1 : s[i] = f[a + i - 1]
      BY <2>1, <2>a, SubSeqProperties
    <3>3. ss = s
      BY DEF a, b
    <3> HIDE DEF s, ss, n
    <3> QED BY <2>1, <3>1, <3>2, <3>3
  <2>3. \A i \in 1..n : ss[i] = f[old + 1 + i - 1]
    BY <2>2
  <2>4. \A i \in 1..n : old + 1 + i - 1 = old + i
    BY <1>1
  <2> QED BY <2>2, <2>3, <2>4
<1>6. /\ nf2 \in Seq(Cell) /\ Len(nf2) = Len(nf) + n
      /\ \A i \in 1..Len(nf) : nf2[i] = nf[i]
      /\ \A i \in 1..n : nf2[Len(nf) + i] = f[old + i]
  <2>1. /\ nf2 \in Seq(Cell) /\ Len(nf2) = Len(nf) + Len(ss)
        /\ \A i \in 1..Len(nf) + Len(ss) :
                nf2[i] = IF i <= Len(nf) THEN nf[i] ELSE ss[i - Len(nf)]
    <3>1. ss \in Seq(Cell) /\ nf \in Seq(Cell)
      BY <1>5
    <3> HIDE DEF ss
    <3>2. /\ nf \o ss \in Seq(Cell)
          /\ Len(nf \o ss) = Len(nf) + Len(ss)
          /\ \A i \in 1..Len(nf) + Len(ss) :
                (nf \o ss)[i] = IF i <= Len(nf) THEN nf[i] ELSE ss[i - Len(nf)]
      BY <3>1, ConcatProperties, Zenon
    <3> QED BY <3>2
  <2>2. \A i \in 1..Len(nf) : nf2[i] = nf[i]
    BY <2>1, <1>1, <1>5
  <2>3. ASSUME NEW i \in 1..n
        PROVE  nf2[Len(nf) + i] = f[old + i]
    <3>1. Len(nf) + i \in 1..Len(nf) + Len(ss) /\ ~(Len(nf) + i <= Len(nf)) /\ Len(nf) + i - Len(nf) = i
      <4> HIDE DEF ss
      <4> QED BY <1>1, <1>5
    <3> HIDE DEF nf2, ss
    <3> QED BY <2>1, <3>1, <1>5
  <2> QED BY <2>1, <2>2, <2>3, <1>5
<1> HIDE DEF sn2, ss, nf2, old, n
<1>7. MovesWell(u, es, sn2)
  <2>1. \A l \in Keys : /\ sn2[l] # NoEntry <=> sn[l] # NoEntry
                        /\ sn[l] # NoEntry => /\ sn2[l].old = sn[l].old /\ sn2[l].sz = sn[l].sz
                                              /\ sn2[l].new = IF l = k THEN Len(nf) ELSE sn[l].new
    BY <1>2, <1>3, <1>4 DEF old, n
  <2>2. \A l \in Live(es) : l \in Keys
    BY DEF Live
  <2>3. \A l \in Stored(u, es) \cup Placed(es) : l \in Keys
    BY <2>2 DEF Stored, Placed
  <2>4. \A l \in Keys : sn2[l] # NoEntry => sn2[l].sz > 0 /\ sn2[l].new >= -1
    BY <1>1, <2>1 DEF MovesWell
  <2> QED BY <2>1, <2>2, <2>3, <2>4 DEF MovesWell
<1>8. ASSUME NEW l \in Keys, Copied(sn2, l), l # k
      PROVE  /\ Copied(sn, l) /\ sn2[l] = sn[l]
             /\ sn[l].new \in Nat /\ sn[l].sz \in Nat /\ sn[l].sz > 0
             /\ sn[l].new + sn[l].sz <= Len(nf) /\ sn[l].old + sn[l].sz <= Len(f)
             /\ \A i \in 1..sn[l].sz : nf2[sn[l].new + i] = f[sn[l].old + i]
  <2>1. Copied(sn, l) /\ sn2[l] = sn[l]
    BY <1>2, <1>8 DEF Copied
  <2>2. sn[l] \in Move /\ sn[l].new \in Nat /\ sn[l].sz \in Nat /\ sn[l].sz > 0
    BY <2>1 DEF Copied, Move, MovesWell
  <2>3. sn[l].new + sn[l].sz <= Len(nf) /\ sn[l].old + sn[l].sz <= Len(f)
        /\ \A i \in 1..sn[l].sz : nf[sn[l].new + i] = f[sn[l].old + i]
    BY <2>1 DEF CopiesWell
  <2>4. \A i \in 1..sn[l].sz : sn[l].new + i \in 1..Len(nf)
    BY <2>2, <2>3, <1>1
  <2> QED BY <2>1, <2>2, <2>3, <2>4, <1>6
<1>9. ASSUME NEW l \in Keys, Copied(sn2, l)
      PROVE  /\ sn2[l].new + sn2[l].sz <= Len(nf2)
             /\ sn2[l].old + sn2[l].sz <= Len(f)
             /\ \A i \in 1..sn2[l].sz : nf2[sn2[l].new + i] = f[sn2[l].old + i]
  <2>1. CASE l = k
    BY <2>1, <1>1, <1>3, <1>6 DEF old, n
  <2>2. CASE l # k
    <3>1. /\ sn2[l] = sn[l] /\ sn[l].new + sn[l].sz <= Len(nf) /\ sn[l].old + sn[l].sz <= Len(f)
          /\ sn[l].new \in Nat /\ sn[l].sz \in Nat
          /\ \A i \in 1..sn[l].sz : nf2[sn[l].new + i] = f[sn[l].old + i]
      BY <2>2, <1>8, <1>9
    <3>2. sn[l].new + sn[l].sz <= Len(nf2)
      BY <3>1, <1>1, <1>6
    <3> QED BY <3>1, <3>2
  <2> QED BY <2>1, <2>2
<1>10. ASSUME NEW a \in Keys, NEW b \in Keys, a # b, Copied(sn2, a), Copied(sn2, b)
       PROVE  Outside(sn2[b].new, sn2[a].new, sn2[a].sz)
  <2>1. CASE a = k
    BY <2>1, <1>1, <1>3, <1>8, <1>10 DEF Outside
  <2>2. CASE b = k
    BY <2>2, <1>1, <1>3, <1>8, <1>10 DEF Outside
  <2>3. CASE a # k /\ b # k
    BY <2>3, <1>8, <1>10 DEF CopiesWell
  <2> QED BY <2>1, <2>2, <2>3
<1> QED BY <1>7, <1>9, <1>10 DEF CopiesWell

LEMMA DefragCopyRest ==
    ASSUME Inv, NEW k \in Keys, DefragCopy(k), UNCHANGED usage
    PROVE  Rest' /\ ShowsSame(Keys)
<1> DEFINE sn == snap
           f == file
           nf == newfile
           u == usage
           es == entries
<1>1. /\ sn \in [Keys -> Move \cup {NoEntry}] /\ f \in Seq(Cell) /\ nf \in Seq(Cell)
      /\ sn[k] # NoEntry /\ sn[k].new = -1 /\ sn[k].old + sn[k].sz <= Len(f)
      /\ MovesWell(u, es, sn) /\ CopiesWell(sn, f, nf)
      /\ snap' = [sn EXCEPT ![k].new = Len(nf)]
      /\ newfile' = nf \o SubSeq(f, sn[k].old + 1, sn[k].old + sn[k].sz)
  BY DEF Inv, IInv, TypeOK, Rest, DefragPart, DefragCopy, Uncopied, Remembered
<1>2. MovesWell(u, es, snap') /\ CopiesWell(snap', f, newfile')
  <2> HIDE DEF sn, f, nf, u, es
  <2> QED BY <1>1, CopyMore
<1>3. Rest'
  BY <1>2 DEF DefragCopy, Inv, Rest, WritePart, Owned, DefragPart, EmptyWell, FdWell
<1> QED BY <1>3, TableShows DEF DefragCopy

(* The entries moved to where their bytes were copied.                     *)
Moved(es, sn) ==
    [k \in Keys |-> IF sn[k] # NoEntry /\ es[k] # NoEntry
                    THEN [es[k] EXCEPT !.pos = sn[k].new]
                    ELSE es[k]]

LEMMA MovedWell ==
    ASSUME NEW u, NEW es \in Table, NEW sn \in [Keys -> Move \cup {NoEntry}],
           NEW f \in Seq(Cell), NEW nf \in Seq(Cell),
           TableWell(u, es, f), MovesWell(u, es, sn), CopiesWell(sn, f, nf),
           \A k \in Keys : sn[k] # NoEntry => sn[k].new # -1
    PROVE  /\ Moved(es, sn) \in Table
           /\ TableWell(u, Moved(es, sn), nf)
           /\ Live(Moved(es, sn)) = Live(es)
           /\ \A k \in Live(es) : /\ Moved(es, sn)[k].data = es[k].data
                                  /\ Moved(es, sn)[k].written = es[k].written
           /\ \A k \in Live(es) : /\ es[k].written
                                  => (Moved(es, sn)[k].pos >= 0 <=> es[k].pos >= 0)
           /\ \A k \in Stored(u, es) : \A v \in Values :
                Holds(f, es[k], v) => Holds(nf, Moved(es, sn)[k], v)
<1> DEFINE ms == Moved(es, sn)
<1>1. ASSUME NEW k \in Keys, es[k] # NoEntry, sn[k] # NoEntry
      PROVE  /\ ms[k] \in Entry /\ ms[k] = [es[k] EXCEPT !.pos = sn[k].new]
             /\ ms[k].data = es[k].data /\ ms[k].sz = es[k].sz /\ ms[k].ek = es[k].ek
             /\ ms[k].written = es[k].written /\ ms[k].pos = sn[k].new /\ sn[k].new >= 0
             /\ sn[k].sz > 0 /\ Copied(sn, k)
             /\ sn[k].new \in Nat /\ sn[k].sz \in Nat /\ sn[k].old \in Nat
  <2>1. es[k] \in Entry /\ sn[k] \in Move
    BY <1>1 DEF Table
  <2>2. sn[k].new \in Int /\ sn[k].new >= -1 /\ sn[k].new # -1 /\ sn[k].sz > 0
        /\ sn[k].sz \in Nat /\ sn[k].old \in Nat
    BY <2>1, <1>1 DEF MovesWell, Move
  <2>3. ms[k] = [es[k] EXCEPT !.pos = sn[k].new]
    BY <1>1 DEF Moved
  <2>4. ms[k] \in Entry /\ ms[k].data = es[k].data /\ ms[k].sz = es[k].sz /\ ms[k].ek = es[k].ek
        /\ ms[k].written = es[k].written /\ ms[k].pos = sn[k].new
    BY <2>1, <2>2, <2>3 DEF Entry
  <2>5. sn[k].new \in Nat
    BY <2>2
  <2> QED BY <1>1, <2>2, <2>3, <2>4, <2>5 DEF Copied
<1>2. ASSUME NEW k \in Keys, ~(es[k] # NoEntry /\ sn[k] # NoEntry)
      PROVE  ms[k] = es[k]
  BY <1>2 DEF Moved
<1>3. ms \in Table
  <2>1. \A k \in Keys : ms[k] \in Entry \cup {NoEntry}
    BY <1>1, <1>2 DEF Table
  <2> QED BY <2>1 DEF Moved, Table
<1> HIDE DEF ms
<1>4. Live(ms) = Live(es) /\ Live(es) \subseteq Keys
  <2>1. \A k \in Keys : ms[k] # NoEntry <=> es[k] # NoEntry
    BY <1>1, <1>2, EntryFields
  <2> QED BY <2>1 DEF Live
<1>5. \A k \in Live(es) : es[k] # NoEntry /\ es[k] \in Entry /\ k \in Keys
  BY LiveEntry DEF Live
<1>6. \A k \in Live(es) : ms[k].data = es[k].data /\ ms[k].written = es[k].written
                          /\ ms[k].sz = es[k].sz /\ ms[k].ek = es[k].ek
  BY <1>1, <1>2, <1>5
<1>7. \A k \in Live(es) : es[k].written => (ms[k].pos >= 0 <=> es[k].pos >= 0)
  BY <1>1, <1>2, <1>5 DEF MovesWell
<1>8. EntriesWell(u, ms)
  BY <1>4, <1>6, <1>7 DEF EntriesWell, EntryWell, TableWell
<1>9. Stored(u, ms) = Stored(u, es)
  BY <1>4, <1>6, <1>7 DEF Stored, Trusted
<1>10. \A k \in Placed(ms) : sn[k] # NoEntry /\ k \in Live(es) /\ k \in Keys
  <2>1. ASSUME NEW k \in Placed(ms), sn[k] = NoEntry
        PROVE  FALSE
    <3>1. k \in Live(es) /\ ms[k] = es[k] /\ ms[k].pos >= 0 /\ ms[k].sz > 0
      BY <2>1, <1>2, <1>4 DEF Placed
    <3> QED BY <2>1, <3>1 DEF Placed, MovesWell
  <2> QED BY <2>1, <1>4 DEF Placed
<1>11. ASSUME NEW k \in Stored(u, es)
       PROVE  /\ k \in Live(es) /\ k \in Keys /\ es[k].pos >= 0 /\ es[k].sz \in Nat
              /\ sn[k] # NoEntry => /\ sn[k].old = es[k].pos /\ sn[k].sz = es[k].sz
                                    /\ ms[k].pos = sn[k].new
              /\ sn[k] = NoEntry => es[k].sz = 0 /\ ms[k] = es[k]
  <2>1. k \in Live(es) /\ k \in Keys /\ es[k].pos >= 0 /\ es[k].sz \in Nat
    BY <1>5, EntryFields DEF Stored
  <2>2. sn[k] # NoEntry => sn[k].old = es[k].pos /\ sn[k].sz = es[k].sz /\ ms[k].pos = sn[k].new
    BY <2>1, <1>1, <1>5 DEF MovesWell
  <2>3. sn[k] = NoEntry => k \notin Placed(es) /\ ms[k] = es[k]
    BY <2>1, <1>2 DEF MovesWell
  <2> QED BY <2>1, <2>2, <2>3 DEF Placed
<1>12. ASSUME NEW k \in Stored(u, es), NEW v \in Values, Holds(f, es[k], v)
       PROVE  Holds(nf, ms[k], v)
  <2>1. CASE sn[k] # NoEntry
    <3>1. Copied(sn, k) /\ ms[k].pos = sn[k].new /\ ms[k].sz = es[k].sz /\ ms[k].ek = es[k].ek
          /\ sn[k].old = es[k].pos /\ sn[k].sz = es[k].sz
      BY <2>1, <1>1, <1>5, <1>6, <1>11
    <3>2. /\ sn[k].new + sn[k].sz <= Len(nf)
          /\ \A i \in 1..sn[k].sz : nf[sn[k].new + i] = f[sn[k].old + i]
      BY <3>1, <1>11 DEF CopiesWell
    <3>3. \A i \in 1..es[k].sz : nf[ms[k].pos + i] = CellOf(v, ms[k].ek, i)
      BY <3>1, <3>2, <1>12 DEF Holds
    <3> QED BY <3>1, <3>2, <3>3, <1>12 DEF Holds, EndOf
  <2>2. CASE sn[k] = NoEntry
    <3>1. ms[k].sz = 0 /\ Size[v] = 0
      BY <2>2, <1>11, <1>12 DEF Holds
    <3> QED BY <3>1 DEF Holds
  <2> QED BY <2>1, <2>2
<1>13. StoredWell(u, ms, nf)
  <2>1. ASSUME NEW k \in Stored(u, es)
        PROVE  \E v \in Values : Holds(nf, ms[k], v) /\ ms[k].data \in {Null, v}
    <3>1. PICK v \in Values : Holds(f, es[k], v) /\ es[k].data \in {Null, v}
      BY DEF TableWell, StoredWell
    <3> QED BY <3>1, <1>6, <1>11, <1>12
  <2> QED BY <2>1, <1>9 DEF StoredWell
<1>14. StartsApart(u, ms)
  <2>1. ASSUME NEW k \in Stored(u, es), NEW a \in Placed(ms), a # k
        PROVE  Outside(ms[a].pos, ms[k].pos, ms[k].sz)
    <3>1. /\ ms[a].pos = sn[a].new /\ ms[a].pos \in Nat /\ Copied(sn, a) /\ a \in Keys
      BY <1>1, <1>5, <1>10
    <3>2. CASE sn[k] # NoEntry
      <4>1. Copied(sn, k) /\ ms[k].pos = sn[k].new /\ ms[k].sz = sn[k].sz /\ k \in Keys
        BY <3>2, <1>1, <1>5, <1>6, <1>11
      <4>2. Outside(sn[a].new, sn[k].new, sn[k].sz)
        BY <2>1, <3>1, <4>1 DEF CopiesWell
      <4> QED BY <3>1, <4>1, <4>2
    <3>3. CASE sn[k] = NoEntry
      <4>1. ms[k].sz = 0 /\ ms[k].pos \in Int
        BY <3>3, <1>5, <1>11, EntryFields
      <4> QED BY <3>1, <4>1 DEF Outside
    <3> QED BY <3>2, <3>3
  <2> QED BY <2>1, <1>9 DEF StartsApart
<1>15. PlacedInFile(ms, nf)
  <2>1. ASSUME NEW a \in Placed(ms)
        PROVE  ms[a].pos < Len(nf)
    <3>1. /\ ms[a].pos = sn[a].new /\ sn[a].new \in Nat /\ sn[a].sz \in Nat /\ sn[a].sz > 0
          /\ Copied(sn, a) /\ a \in Keys
      BY <1>1, <1>5, <1>10
    <3>2. sn[a].new + sn[a].sz <= Len(nf)
      BY <3>1 DEF CopiesWell
    <3>3. Len(nf) \in Nat
      OBVIOUS
    <3> QED BY <3>1, <3>2, <3>3
  <2> QED BY <2>1 DEF PlacedInFile
<1> QED BY <1>3, <1>4, <1>6, <1>7, <1>8, <1>12, <1>13, <1>14, <1>15 DEF TableWell, ms

LEMMA DefragSwitchRest ==
    ASSUME Inv, DefragSwitch, UNCHANGED usage
    PROVE  Rest' /\ ShowsSame(Keys)
<1> DEFINE es == entries
           u == usage
           f == file
           nf == newfile
           sn == snap
           ms == Moved(es, sn)
<1>0. /\ es \in Table /\ f \in Seq(Cell) /\ nf \in Seq(Cell)
      /\ sn \in [Keys -> Move \cup {NoEntry}]
      /\ TableWell(u, es, f) /\ MovesWell(u, es, sn) /\ CopiesWell(sn, f, nf)
      /\ \A k \in Keys : sn[k] # NoEntry => sn[k].new # -1
  BY DEF Inv, IInv, TypeOK, Table, Rest, DefragPart, DefragSwitch, Uncopied, Remembered
<1>1. MovedEntries = ms
  BY DEF MovedEntries, Moved, Remembered
<1>2. cw = NoWrite /\ Abandoned(es) = {} /\ (Live(es) # {} => fd)
  BY DEF DefragSwitch, Inv, IInv, Rest, FdWell, WriteOwned, Owned, DirtyDataKept, Abandoned
<1>3. /\ ms \in Table
      /\ TableWell(u, ms, nf)
      /\ Live(ms) = Live(es)
      /\ \A k \in Live(es) : ms[k].data = es[k].data /\ ms[k].written = es[k].written
      /\ \A k \in Live(es) : es[k].written => (ms[k].pos >= 0 <=> es[k].pos >= 0)
      /\ \A k \in Stored(u, es) : \A v \in Values : Holds(f, es[k], v) => Holds(nf, ms[k], v)
  <2> HIDE DEF es, u, f, nf, sn
  <2> QED BY <1>0, MovedWell
<1>4. file' = nf /\ SelectEntry(ms) /\ snap' = NoSnapshot /\ newfile' = <<>> /\ fd' = fd
  BY <1>1 DEF DefragSwitch, EndDefrag
<1>5. Abandoned(ms) = {}
  BY <1>2, <1>3 DEF Abandoned, Dirty
<1>6. Rest'
  <2>1. file' \in Seq(Cell) /\ TableWell(usage, ms, file') /\ (Live(ms) # {} => fd)
    BY <1>0, <1>2, <1>3, <1>4
  <2> HIDE DEF ms
  <2> QED BY <1>2, <1>3, <1>4, <1>5, <2>1, SelectRest
<1>7. ASSUME NEW k \in Keys
      PROVE  Lookup(k)' = Lookup(k)
  <2>1. ~InFlight(k)
    BY <1>2 DEF InFlight, NoWrite
  <2>2. \/ entries'[k] = ms[k] /\ ~(cw'.data # Null /\ cw'.key = k)
        \/ ms[k] # NoEntry /\ ms[k].data # Null /\ Lookup(k)' = ms[k].data
    <3> HIDE DEF ms
    <3> QED BY <1>2, <1>3, <1>4, <1>5, SelectShows
  <2>3. Lookup(k)' = Found(entries'[k], cw', file', k)
    BY LookupIsFoundNext
  <2>4. CASE es[k] = NoEntry
    <3>1. ms[k] = NoEntry
      BY <2>4, <1>3 DEF Live
    <3> QED BY <2>2, <2>3, <2>4, <3>1, LookupCases DEF Found
  <2>5. CASE es[k] # NoEntry /\ es[k].data # Null
    <3>1. ms[k] # NoEntry /\ ms[k].data = es[k].data /\ k \in Live(es)
      BY <2>5, <1>3 DEF Live
    <3>2. Lookup(k) = es[k].data
      BY <2>5, LookupCases
    <3> QED BY <2>2, <2>3, <2>5, <3>1, <3>2 DEF Found
  <2>6. CASE es[k] # NoEntry /\ es[k].data = Null
    <3>1. k \in Live(es) /\ ms[k] \in Entry /\ ms[k] # NoEntry /\ ms[k].data = Null
      BY <2>6, <1>3 DEF Live, Table
    <3>2. entries'[k] = ms[k] /\ ~(cw'.data # Null /\ cw'.key = k)
      BY <2>2, <3>1
    <3>3. CASE es[k].pos >= 0
      <4>1. PICK v \in Values : Holds(f, es[k], v) /\ Lookup(k) = v /\ k \in Stored(u, es)
                                /\ es[k].written
        <5>1. es[k].pos \in Int
          BY <1>0, <3>1, LiveEntry, EntryFields
        <5> QED BY <2>1, <2>6, <3>3, <5>1, LookupCases
      <4>2. Holds(nf, ms[k], v) /\ ms[k].pos >= 0
        BY <4>1, <1>3, <3>1, <3>3
      <4>3. Found(ms[k], cw', nf, k) = v
        <5> DEFINE e == ms[k]
                   w == cw'
        <5>1. e \in Entry /\ Holds(nf, e, v) /\ e.data = Null /\ e.pos >= 0
              /\ ~(w.data # Null /\ w.key = k)
          BY <3>1, <3>2, <4>2
        <5> HIDE DEF e, w, nf
        <5>2. Found(e, w, nf, k) = v
          BY <1>0, <5>1, FoundOnFile
        <5> QED BY <5>2 DEF e, w
      <4> QED BY <2>3, <3>2, <4>1, <4>3, <1>4
    <3>4. CASE ~(es[k].pos >= 0)
      <4>1. Lookup(k) = IOError /\ es[k].written
        BY <2>1, <2>6, <3>4, LookupCases
      <4>2. ~(ms[k].pos >= 0)
        BY <4>1, <1>3, <3>1, <3>4
      <4> QED BY <2>3, <3>1, <3>2, <4>1, <4>2 DEF Found
    <3> QED BY <3>3, <3>4
  <2> QED BY <2>4, <2>5, <2>6
<1> QED BY <1>6, <1>7 DEF ShowsSame

-----------------------------------------------------------------------------
(* The write: a part of it does not touch what is stored.                  *)
Grown(f, w, pos, n) ==
    LET end == pos + w.done + n IN
    [i \in 1..(IF end > Len(f) THEN end ELSE Len(f)) |->
        IF i > end - n /\ i <= end THEN CellOf(w.data, w.ek, i - pos)
        ELSE IF i <= Len(f) THEN f[i] ELSE ZeroCell]

LEMMA GrownFacts ==
    ASSUME NEW f \in Seq(Cell), NEW w \in Write, NEW pos \in Nat, NEW n \in Nat,
           Grown(f, w, pos, n) \in Seq(Cell)
    PROVE  /\ Len(Grown(f, w, pos, n)) >= Len(f)
           /\ Len(Grown(f, w, pos, n)) >= pos + w.done + n
           /\ Len(Grown(f, w, pos, n)) \in Nat
           /\ \A i \in 1..Len(f) : i <= pos + w.done \/ i > pos + w.done + n =>
                Grown(f, w, pos, n)[i] = f[i]
           /\ \A i \in w.done + 1..w.done + n :
                Grown(f, w, pos, n)[pos + i] = CellOf(w.data, w.ek, i)
<1> DEFINE end == pos + w.done + n
           len == IF end > Len(f) THEN end ELSE Len(f)
           g == Grown(f, w, pos, n)
<1>1. w.done \in Nat /\ Len(f) \in Nat /\ end \in Nat
  BY DEF Write
<1>2. len \in Nat /\ len >= Len(f) /\ len >= end
  BY <1>1
<1>3. g = [i \in 1..len |->
            IF i > end - n /\ i <= end THEN CellOf(w.data, w.ek, i - pos)
            ELSE IF i <= Len(f) THEN f[i] ELSE ZeroCell]
  BY DEF Grown
<1>4. DOMAIN g = 1..len
  BY <1>3
<1>5. Len(g) = len
  <2> HIDE DEF g, len
  <2> QED BY <1>2, <1>4 DEF g
<1>6. ASSUME NEW i \in 1..Len(f), i <= pos + w.done \/ i > pos + w.done + n
      PROVE  g[i] = f[i]
  <2>1. i \in 1..len /\ ~(i > end - n /\ i <= end) /\ i <= Len(f)
    <3>1. end - n = pos + w.done /\ end = pos + w.done + n
      BY <1>1
    <3>2. i \in 1..len /\ i <= Len(f)
      BY <1>1, <1>2
    <3> HIDE DEF end, len
    <3> QED BY <1>1, <1>6, <3>1, <3>2
  <2> HIDE DEF len, end, g
  <2> QED BY <1>3, <2>1
<1>7. ASSUME NEW i \in w.done + 1..w.done + n
      PROVE  g[pos + i] = CellOf(w.data, w.ek, i)
  <2>1. pos + i \in 1..len /\ pos + i > end - n /\ pos + i <= end /\ pos + i - pos = i
    BY <1>1, <1>2
  <2> HIDE DEF len, end, g
  <2> QED BY <1>3, <2>1
<1> QED BY <1>2, <1>5, <1>6, <1>7

LEMMA InRegion ==
    ASSUME NEW p \in Nat, NEW s \in Nat, NEW i \in 1..s, NEW m \in Nat, p + s <= m
    PROVE  p + i \in 1..m
  OBVIOUS

LEMMA BesideWrite ==
    ASSUME NEW p \in Nat, NEW s \in Nat, NEW i \in 1..s,
           NEW q \in Nat, NEW z \in Nat, NEW d \in Nat, NEW n \in Nat,
           d + n <= z, p + s <= q \/ q + z <= p
    PROVE  p + i <= q + d \/ p + i > q + d + n
  OBVIOUS

LEMMA GrownWell ==
    ASSUME NEW u, NEW es \in Table, NEW f \in Seq(Cell), NEW w \in Write, NEW n \in Nat,
           NEW pos \in Nat, n <= w.sz - w.done, n > 0,
           Grown(f, w, pos, n) \in Seq(Cell),
           TableWell(u, es, f), WriteApart(u, es, [w EXCEPT !.pos = pos]),
           WrittenSoFar([w EXCEPT !.pos = pos], f)
    PROVE  /\ TableWell(u, es, Grown(f, w, pos, n))
           /\ \A k \in Stored(u, es) : \A v \in Values :
                Holds(f, es[k], v) => Holds(Grown(f, w, pos, n), es[k], v)
           /\ WrittenSoFar([w EXCEPT !.pos = pos, !.done = w.done + n], Grown(f, w, pos, n))
<1> DEFINE g == Grown(f, w, pos, n)
           w1 == [w EXCEPT !.pos = pos]
           w2 == [w EXCEPT !.pos = pos, !.done = w.done + n]
<1>1. /\ w.done \in Nat /\ w.sz \in Nat /\ Len(f) \in Nat
      /\ w1.pos = pos /\ w1.sz = w.sz /\ w1.done = w.done /\ w1.data = w.data /\ w1.ek = w.ek
      /\ w2.pos = pos /\ w2.done = w.done + n /\ w2.data = w.data /\ w2.ek = w.ek
  BY DEF Write
<1>2. /\ Len(g) >= Len(f) /\ Len(g) >= pos + w.done + n /\ Len(g) \in Nat
      /\ \A i \in 1..Len(f) : i <= pos + w.done \/ i > pos + w.done + n => g[i] = f[i]
      /\ \A i \in w.done + 1..w.done + n : g[pos + i] = CellOf(w.data, w.ek, i)
  BY GrownFacts
<1>w. WriteApart(u, es, w1) /\ WrittenSoFar(w1, f)
  OBVIOUS
<1> HIDE DEF g, w1, w2
<1>3. ASSUME NEW k \in Stored(u, es), NEW v \in Values, Holds(f, es[k], v)
      PROVE  Holds(g, es[k], v)
  <2>1. k \in Live(es) /\ es[k] \in Entry /\ es[k].pos >= 0 /\ es[k].pos \in Int /\ es[k].sz \in Nat
        /\ EndOf(es[k]) = es[k].pos + es[k].sz
    BY LiveEntry, EntryFields DEF Stored
  <2>2. CASE es[k].sz = 0
    BY <2>2, <1>3 DEF Holds
  <2>3. CASE es[k].sz > 0
    <3>1. k \in Placed(es)
      BY <2>1, <2>3 DEF Placed
    <3>2. es[k].pos + es[k].sz <= pos \/ pos + w.sz <= es[k].pos
      BY <3>1, <1>1, <1>w DEF WriteApart, Apart
    <3>3. es[k].pos + es[k].sz <= Len(f)
      BY <2>1, <2>3, <1>3 DEF Holds
    <3>4. ASSUME NEW i \in 1..es[k].sz
          PROVE  g[es[k].pos + i] = f[es[k].pos + i]
      <4>0. es[k].pos \in Nat
        BY <2>1
      <4>1. es[k].pos + i \in 1..Len(f)
        BY <2>1, <4>0, <3>3, <1>1, InRegion
      <4>2. es[k].pos + i <= pos + w.done \/ es[k].pos + i > pos + w.done + n
        <5>1. w.done + n <= w.sz
          BY <1>1
        <5> QED BY <2>1, <4>0, <5>1, <3>2, <1>1, BesideWrite
      <4> QED BY <4>1, <4>2, <1>2
    <3>5. es[k].pos + es[k].sz <= Len(g)
      BY <2>1, <3>3, <1>1, <1>2
    <3> QED BY <2>1, <3>4, <3>5, <1>3 DEF Holds
  <2> QED BY <2>1, <2>2, <2>3
<1>4. StoredWell(u, es, g)
  <2>1. ASSUME NEW k \in Stored(u, es)
        PROVE  \E v \in Values : Holds(g, es[k], v) /\ es[k].data \in {Null, v}
    <3>1. PICK v \in Values : Holds(f, es[k], v) /\ es[k].data \in {Null, v}
      BY DEF TableWell, StoredWell
    <3> QED BY <3>1, <1>3
  <2> QED BY <2>1 DEF StoredWell
<1>5. PlacedInFile(es, g)
  <2>1. \A a \in Placed(es) : es[a].pos \in Int /\ es[a].pos < Len(f)
    BY LiveEntry, EntryFields DEF Placed, TableWell, PlacedInFile
  <2> QED BY <2>1, <1>1, <1>2 DEF PlacedInFile
<1>6. WrittenSoFar(w2, g)
  <2>1. ASSUME NEW i \in 1..w.done + n
        PROVE  g[pos + i] = CellOf(w.data, w.ek, i)
    <3>1. CASE i > w.done
      BY <3>1, <1>1, <1>2
    <3>2. CASE i <= w.done
      <4>1. i \in 1..w.done /\ w.done > 0
        BY <3>2, <1>1
      <4>2. pos + w.done <= Len(f) /\ f[pos + i] = CellOf(w.data, w.ek, i)
        BY <4>1, <1>1, <1>w DEF WrittenSoFar
      <4>3. pos + i \in 1..Len(f) /\ pos + i <= pos + w.done
        BY <4>1, <4>2, <1>1
      <4> QED BY <4>2, <4>3, <1>2
    <3> QED BY <3>1, <3>2, <1>1
  <2> QED BY <2>1, <1>1, <1>2 DEF WrittenSoFar
<1> QED BY <1>3, <1>4, <1>5, <1>6 DEF TableWell, g, w2

(* Where the write goes, also when it goes to the end of the file.         *)
LEMMA PlaceWell ==
    ASSUME Inv, wpc = "write"
    PROVE  /\ WritePos \in Nat
           /\ WriteApart(usage, entries, [cw EXCEPT !.pos = WritePos])
           /\ WrittenSoFar([cw EXCEPT !.pos = WritePos], file)
           /\ WriteWell(usage, entries, cw)
<1> DEFINE w == [cw EXCEPT !.pos = WritePos]
<1>1. /\ entries \in Table /\ file \in Seq(Cell) /\ cw \in Write /\ fd
      /\ TableWell(usage, entries, file) /\ WritePart
  BY InvTypes DEF Inv, Rest, FdWell, Owned
<1>2. /\ cw.pos \in Int /\ cw.done \in Nat /\ cw.sz \in Nat /\ Len(file) \in Nat
      /\ w.pos = WritePos /\ w.key = cw.key /\ w.sz = cw.sz /\ w.done = cw.done
      /\ w.data = cw.data /\ w.ek = cw.ek
  BY <1>1 DEF Write
<1>3. WriteWell(usage, entries, cw)
  BY <1>1 DEF WritePart, Owned
<1>4. CASE cw.pos >= 0
  <2>1. WritePos = cw.pos
    BY <1>2, <1>4 DEF WritePos
  <2>2. WriteApart(usage, entries, cw) /\ WrittenSoFar(cw, file)
    BY <1>1, <1>4 DEF WritePart, Owned
  <2> HIDE DEF w
  <2>3. WriteApart(usage, entries, w) /\ WrittenSoFar(w, file)
    BY <2>1, <2>2, <1>2 DEF WriteApart, WrittenSoFar
  <2> QED BY <1>2, <1>3, <1>4, <2>1, <2>3 DEF w
<1>5. CASE cw.pos < 0
  <2>1. WritePos = Len(file) /\ cw.done = 0
    BY <1>1, <1>5 DEF WritePos, FileSize, WritePart, Owned
  <2> HIDE DEF w
  <2>2. WrittenSoFar(w, file)
    BY <2>1, <1>2 DEF WrittenSoFar
  <2>3. ASSUME NEW a \in Placed(entries)
        PROVE  Outside(entries[a].pos, w.pos, w.sz)
    BY <2>1, <1>1, <1>2 DEF TableWell, PlacedInFile, Outside
  <2>4. ASSUME NEW k \in Stored(usage, entries), k \in Placed(entries)
        PROVE  Apart(entries[k].pos, entries[k].sz, w.pos, w.sz)
    <3>1. entries[k] \in Entry /\ entries[k].sz > 0
      BY <2>4, <1>1, LiveEntry DEF Placed
    <3>2. EndOf(entries[k]) <= Len(file)
      BY <3>1, <1>1 DEF TableWell, StoredWell, Holds
    <3> QED BY <2>1, <3>1, <3>2, <1>2, EntryFields DEF Apart
  <2>5. WriteApart(usage, entries, w)
    BY <2>3, <2>4 DEF WriteApart
  <2> QED BY <1>2, <1>3, <2>1, <2>2, <2>5 DEF w
<1> QED BY <1>2, <1>4, <1>5

LEMMA WriteRest ==
    ASSUME Inv, NEW n \in Nat, WriterWrite(n), UNCHANGED usage, file' \in Seq(Cell)
    PROVE  Rest' /\ ShowsSame(Keys)
<1> DEFINE u == usage
           es == entries
           f == file
           w == cw
           pos == WritePos
           g == Grown(f, w, pos, n)
           w2 == [w EXCEPT !.pos = pos, !.done = w.done + n]
<1>1. /\ wpc = "write" /\ pos \in Nat /\ es \in Table /\ f \in Seq(Cell) /\ w \in Write
      /\ WriteApart(u, es, [w EXCEPT !.pos = pos]) /\ WrittenSoFar([w EXCEPT !.pos = pos], f)
      /\ TableWell(u, es, f) /\ WriteWell(u, es, w)
  BY PlaceWell, InvTypes DEF WriterWrite, Inv, Rest
<1>2. /\ w.done \in Nat /\ w.sz \in Nat /\ n <= w.sz - w.done /\ n > 0
  BY <1>1 DEF WriterWrite, Write
<1>3. file' = g /\ cw' = w2
  BY DEF WriterWrite, WrittenFile, Grown
<1>4. g \in Seq(Cell)
  BY <1>3
<1>5. /\ TableWell(u, es, g)
      /\ \A k \in Stored(u, es) : \A v \in Values : Holds(f, es[k], v) => Holds(g, es[k], v)
      /\ WrittenSoFar(w2, g)
  <2> HIDE DEF u, es, f, w, pos
  <2> QED BY <1>1, <1>2, <1>4, GrownWell
<1>6. /\ w2.pos = pos /\ w2.key = w.key /\ w2.sz = w.sz /\ w2.data = w.data /\ w2.ek = w.ek
      /\ w2.done = w.done + n
      /\ [w EXCEPT !.pos = pos].pos = pos /\ [w EXCEPT !.pos = pos].key = w.key
      /\ [w EXCEPT !.pos = pos].sz = w.sz
  <2> HIDE DEF w, pos
  <2> QED BY <1>1 DEF Write
<1>7. WriteWell(u, es, w2)
  <2> HIDE DEF u, es, w, w2
  <2> QED BY <1>1, <1>2, <1>6 DEF WriteWell, WriteOf
<1>8. WriteApart(u, es, w2)
  <2> DEFINE w1 == [w EXCEPT !.pos = pos]
  <2>1. WriteApart(u, es, w1) /\ w1.pos = w2.pos /\ w1.key = w2.key /\ w1.sz = w2.sz
    BY <1>1, <1>6
  <2> HIDE DEF u, es, w, w2, w1
  <2> QED BY <2>1 DEF WriteApart
<1>9. Rest'
  <2>1. /\ cw' = w2 /\ file' = g /\ w2.pos >= 0 /\ wpc' = "write" /\ wpc = "write"
        /\ UNCHANGED <<entries, usage, snap, newfile, fd>>
    BY <1>1, <1>3, <1>6 DEF WriterWrite
  <2>2. w2.pos \in Nat
    BY <1>1, <1>6
  <2>3. /\ WriteWell(usage, entries, w2) /\ WriteApart(usage, entries, w2)
        /\ WrittenSoFar(w2, g) /\ TableWell(usage, entries, g)
    BY <1>5, <1>7, <1>8
  <2> HIDE DEF w2, g
  <2>4. WritePart'
    BY <2>1, <2>2, <2>3 DEF WritePart, Owned
  <2> QED BY <2>1, <2>3, <2>4 DEF Inv, Rest, DefragPart, EmptyWell, FdWell, Owned
<1>10. ASSUME NEW k \in Keys
       PROVE  Lookup(k)' = Lookup(k)
  <2>1. /\ Lookup(k) = Found(es[k], w, f, k) /\ Lookup(k)' = Found(es[k], w2, g, k)
    BY <1>3, LookupIsFound, LookupIsFoundNext DEF WriterWrite
  <2>2. CASE es[k] = NoEntry \/ es[k].data # Null \/ (w.data # Null /\ w.key = k)
    <3> HIDE DEF es, w, f, w2, g
    <3> QED BY <2>1, <2>2, <1>6 DEF Found
  <2>3. CASE es[k] # NoEntry /\ es[k].data = Null /\ ~(w.data # Null /\ w.key = k)
    <3>0. ~InFlight(k) /\ es[k] \in Entry /\ es[k].pos \in Int
      BY <2>3, <1>1, EntryFields DEF InFlight, Table
    <3>1. CASE es[k].pos >= 0
      <4>1. PICK v \in Values : Holds(f, es[k], v) /\ Lookup(k) = v /\ k \in Stored(u, es)
        BY <2>3, <3>0, <3>1, LookupCases
      <4>2. Holds(g, es[k], v)
        BY <4>1, <1>5
      <4>3. Found(es[k], w2, g, k) = v
        <5>1. ~(w2.data # Null /\ w2.key = k)
          BY <2>3, <1>6
        <5> HIDE DEF es, w2, g
        <5> QED BY <2>3, <3>0, <3>1, <4>2, <5>1, <1>4, FoundOnFile
      <4> QED BY <2>1, <4>1, <4>3
    <3>2. CASE es[k].pos < 0
      <4>1. ~(es[k].pos >= 0)
        BY <3>0, <3>2
      <4>2. ~(w2.data # Null /\ w2.key = k)
        BY <2>3, <1>6
      <4> HIDE DEF es, w, f, w2, g
      <4> QED BY <2>1, <2>3, <4>1, <4>2 DEF Found
    <3> QED BY <3>0, <3>1, <3>2
  <2> QED BY <2>2, <2>3
<1> QED BY <1>9, <1>10 DEF ShowsSame

(* The write ends, well or not: the entry is still looked up in it.        *)
LEMMA EndShows ==
    ASSUME entries' = entries, file' = file, cw'.key = cw.key, cw'.data = cw.data,
           cw'.sz = cw.sz, cw'.ek = cw.ek
    PROVE  ShowsSame(Keys)
<1>1. ASSUME NEW k \in Keys
      PROVE  Lookup(k)' = Lookup(k)
  <2> DEFINE e == entries[k]
             w == cw
             w2 == cw'
             f == file
  <2>1. Lookup(k) = Found(e, w, f, k) /\ Lookup(k)' = Found(e, w2, f, k)
    BY LookupIsFound, LookupIsFoundNext
  <2>2. w2.key = w.key /\ w2.data = w.data /\ w2.sz = w.sz /\ w2.ek = w.ek
    OBVIOUS
  <2> HIDE DEF e, w, w2, f
  <2>3. Found(e, w2, f, k) = Found(e, w, f, k)
    BY <2>2 DEF Found
  <2> QED BY <2>1, <2>3
<1> QED BY <1>1 DEF ShowsSame

LEMMA WrittenRest ==
    ASSUME Inv, WriterWritten, UNCHANGED usage
    PROVE  Rest' /\ ShowsSame(Keys)
<1> DEFINE w2 == [cw EXCEPT !.pos = WritePos]
<1>1. /\ wpc = "write" /\ WritePos \in Nat /\ cw \in Write
      /\ WriteApart(usage, entries, w2) /\ WrittenSoFar(w2, file)
      /\ WriteWell(usage, entries, cw) /\ cw.done = cw.sz
  BY PlaceWell, InvTypes DEF WriterWritten
<1>2. /\ w2.pos = WritePos /\ w2.key = cw.key /\ w2.sz = cw.sz /\ w2.data = cw.data
      /\ w2.ek = cw.ek /\ w2.done = cw.done
  BY <1>1 DEF Write
<1>3. cw' = w2
  BY DEF WriterWritten
<1> HIDE DEF w2
<1>4. WriteWell(usage, entries, w2)
  BY <1>1, <1>2 DEF WriteWell, WriteOf
<1>5. WritePart'
  BY <1>1, <1>2, <1>3, <1>4 DEF WriterWritten, WritePart, Owned
<1>6. Rest'
  BY <1>1, <1>5 DEF WriterWritten, Inv, Rest, DefragPart, EmptyWell, FdWell, Owned
<1> QED BY <1>2, <1>3, <1>6, EndShows DEF WriterWritten

LEMMA FailedRest ==
    ASSUME Inv, WriterFailed, UNCHANGED usage
    PROVE  Rest' /\ ShowsSame(Keys)
<1> DEFINE w2 == [cw EXCEPT !.pos = -1]
<1>1. wpc = "write" /\ cw \in Write /\ WriteWell(usage, entries, cw) /\ WriteMayFail
  BY PlaceWell, InvTypes DEF WriterFailed
<1>2. /\ w2.pos = -1 /\ w2.key = cw.key /\ w2.sz = cw.sz /\ w2.data = cw.data
      /\ w2.ek = cw.ek /\ w2.done = cw.done
  BY <1>1 DEF Write
<1>3. cw' = w2
  BY DEF WriterFailed
<1> HIDE DEF w2
<1>4. WriteWell(usage, entries, w2)
  BY <1>1, <1>2 DEF WriteWell, WriteOf
<1>5. WritePart'
  BY <1>1, <1>2, <1>3, <1>4 DEF WriterFailed, WritePart, Owned
<1>6. Rest'
  BY <1>1, <1>5 DEF WriterFailed, Inv, Rest, DefragPart, EmptyWell, FdWell, Owned
<1> QED BY <1>2, <1>3, <1>6, EndShows DEF WriterFailed

(* retire_currently_writing() on a table in which the key still is.        *)
Retire(es, w) == [es EXCEPT ![w.key].written = TRUE, ![w.key].pos = w.pos]

LEMMA RetireWell ==
    ASSUME NEW u, SoundUse(u), NEW es \in Table, NEW f \in Seq(Cell), NEW w \in Write,
           w.key \in Keys, es[w.key] # NoEntry,
           TableWell(u, es, f), WriteWell(u, es, w), WriteKeeps(es[w.key], w, w.key),
           w.pos >= 0 => WriteApart(u, es, w) /\ WrittenSoFar(w, f),
           \/ w.pos >= 0 /\ w.done = w.sz
           \/ w.pos < 0 /\ WriteMayFail
    PROVE  /\ TableWell(u, Retire(es, w), f)
           /\ w.pos >= 0 /\ es[w.key].data = Null => Holds(f, Retire(es, w)[w.key], w.data)
<1> USE NullAssumption, SizeAssumption
<1> DEFINE t == Retire(es, w)
           k == w.key
           e == es[k]
           x == t[k]
<1>1. e \in Entry /\ EntryWell(u, e) /\ WriteOf(u, e, w) /\ k \in Live(es)
  BY DEF Table, Live, TableWell, EntriesWell, WriteWell
<1>2. /\ w.pos \in Int /\ w.sz \in Nat /\ w.done \in Nat /\ w.data \in Values
      /\ w.sz = Size[w.data]
  BY DEF Write, WriteWell
<1>3. /\ t \in Table
      /\ \A l \in Keys : l # k => t[l] = es[l]
      /\ x \in Entry
      /\ x.data = e.data /\ x.sz = e.sz /\ x.ek = e.ek /\ x.written = TRUE /\ x.pos = w.pos
  <2>1. t = [es EXCEPT ![k] = [e EXCEPT !.written = TRUE, !.pos = w.pos]]
    BY DEF Retire, Table
  <2>2. /\ [e EXCEPT !.written = TRUE, !.pos = w.pos] \in Entry
        /\ [e EXCEPT !.written = TRUE, !.pos = w.pos].data = e.data
        /\ [e EXCEPT !.written = TRUE, !.pos = w.pos].sz = e.sz
        /\ [e EXCEPT !.written = TRUE, !.pos = w.pos].ek = e.ek
        /\ [e EXCEPT !.written = TRUE, !.pos = w.pos].written = TRUE
        /\ [e EXCEPT !.written = TRUE, !.pos = w.pos].pos = w.pos
    <3> HIDE DEF e
    <3> QED BY <1>1, <1>2 DEF Entry
  <2> QED BY <2>1, <2>2 DEF Table
<1> HIDE DEF t
<1>4. Live(t) = Live(es) /\ Live(es) \subseteq Keys
  <2>1. x # NoEntry
    BY <1>3, EntryFields
  <2> QED BY <2>1, <1>1, <1>3 DEF Live
<1>5. \A l \in Live(es) : l # k => t[l] = es[l]
  BY <1>3, <1>4
<1>6. e.sz \in Nat /\ (e.sz > 0 => w.sz > 0)
  <2>1. "readd" \in u => w.sz > 0
    BY <1>2 DEF SoundUse
  <2>2. "readd" \notin u => e.sz = w.sz
    BY <1>1 DEF WriteOf
  <2> QED BY <1>1, <2>1, <2>2, EntryFields
<1>7. EntriesWell(u, t)
  <2>1. EntryWell(u, x)
    BY <1>1, <1>3 DEF EntryWell
  <2> QED BY <2>1, <1>4, <1>5 DEF EntriesWell, TableWell
<1>8. ASSUME x.data = Null \/ "readd" \notin u
      PROVE  x.sz = w.sz /\ x.ek = w.ek /\ x.data \in {Null, w.data}
  <2>1. CASE "readd" \notin u
    BY <2>1, <1>1, <1>3 DEF WriteOf
  <2>2. CASE x.data = Null
    BY <2>2, <1>1, <1>3 DEF WriteOf, WriteKeeps
  <2> QED BY <1>8, <2>1, <2>2
<1>9. ASSUME x.data = Null \/ "readd" \notin u, w.pos >= 0
      PROVE  Holds(f, x, w.data)
  <2>1. w.done = w.sz /\ WrittenSoFar(w, f)
    BY <1>9, <1>2
  <2> QED BY <2>1, <1>2, <1>3, <1>8, <1>9 DEF Holds, EndOf, WrittenSoFar
<1>10. ASSUME NEW l \in Stored(u, t), l # k
       PROVE  l \in Stored(u, es) /\ t[l] = es[l]
  BY <1>10, <1>4, <1>5 DEF Stored
<1>11. ASSUME NEW l \in Placed(t), l # k
       PROVE  l \in Placed(es) /\ t[l] = es[l]
  BY <1>11, <1>4, <1>5 DEF Placed
<1>12. k \in Stored(u, t) => w.pos >= 0 /\ (x.data = Null \/ "readd" \notin u)
  BY <1>3 DEF Stored, Trusted
<1>13. k \in Placed(t) => w.pos >= 0 /\ e.sz > 0
  BY <1>3 DEF Placed
<1>14. StoredWell(u, t, f)
  <2>1. ASSUME NEW l \in Stored(u, t)
        PROVE  \E v \in Values : Holds(f, t[l], v) /\ t[l].data \in {Null, v}
    <3>1. CASE l = k
      BY <3>1, <1>2, <1>8, <1>9, <1>12
    <3>2. CASE l # k
      BY <3>2, <1>10 DEF TableWell, StoredWell
    <3> QED BY <3>1, <3>2
  <2> QED BY <2>1 DEF StoredWell
<1>15. StartsApart(u, t)
  <2>1. ASSUME NEW l \in Stored(u, t), NEW a \in Placed(t) \ {l}
        PROVE  Outside(t[a].pos, t[l].pos, t[l].sz)
    <3>1. CASE l = k
      <4>1. a \in Placed(es) /\ t[a] = es[a] /\ w.pos >= 0 /\ x.sz = w.sz /\ x.pos = w.pos
        BY <3>1, <2>1, <1>3, <1>8, <1>11, <1>12
      <4>2. Outside(es[a].pos, w.pos, w.sz)
        BY <4>1, <3>1, <2>1 DEF WriteApart
      <4> QED BY <3>1, <4>1, <4>2
    <3>2. CASE l # k /\ a = k
      <4>1. l \in Stored(u, es) /\ t[l] = es[l] /\ w.pos >= 0 /\ w.sz > 0 /\ t[a].pos = w.pos
        BY <3>2, <2>1, <1>3, <1>6, <1>10, <1>13
      <4>2. es[l] \in Entry /\ es[l].pos \in Int /\ es[l].pos >= 0 /\ es[l].sz \in Nat
        BY <4>1, LiveEntry, EntryFields DEF Stored
      <4>3. CASE es[l].sz = 0
        BY <4>1, <4>2, <4>3, <1>2 DEF Outside
      <4>4. CASE es[l].sz > 0
        <5>1. l \in Placed(es)
          BY <4>1, <4>2, <4>4 DEF Placed, Stored
        <5>2. es[l].pos + es[l].sz <= w.pos \/ w.pos + w.sz <= es[l].pos
          BY <4>1, <5>1 DEF WriteApart, Apart
        <5>3. w.pos < es[l].pos \/ w.pos >= es[l].pos + es[l].sz
          BY <5>2, <4>1, <4>2, <1>2
        <5> QED BY <5>3, <4>1 DEF Outside
      <4> QED BY <4>2, <4>3, <4>4
    <3>3. CASE l # k /\ a # k
      BY <3>3, <2>1, <1>10, <1>11 DEF TableWell, StartsApart
    <3> QED BY <3>1, <3>2, <3>3
  <2> QED BY <2>1 DEF StartsApart
<1>16. PlacedInFile(t, f)
  <2>1. ASSUME NEW a \in Placed(t)
        PROVE  t[a].pos < Len(f)
    <3>1. CASE a = k
      <4>1. w.pos >= 0 /\ w.sz > 0 /\ w.done = w.sz /\ WrittenSoFar(w, f)
        BY <3>1, <1>2, <1>6, <1>13
      <4>2. w.pos + w.sz <= Len(f) /\ Len(f) \in Nat
        BY <4>1, <1>2 DEF WrittenSoFar
      <4> QED BY <3>1, <4>1, <4>2, <1>2, <1>3
    <3>2. CASE a # k
      BY <3>2, <1>11 DEF TableWell, PlacedInFile
    <3> QED BY <3>1, <3>2
  <2> QED BY <2>1 DEF PlacedInFile
<1> QED BY <1>3, <1>7, <1>9, <1>14, <1>15, <1>16 DEF TableWell, t

LEMMA RetireRest ==
    ASSUME Inv, WriterRetire, UNCHANGED usage
    PROVE  /\ Rest'
           /\ \/ ShowsSame(Keys)
              \/ \E k \in Keys : /\ WriteMayFail /\ Lookup(k) # Missing /\ Lookup(k)' = IOError
                                /\ ShowsSame(Keys \ {k})
<1>k. PICK k \in Keys : k = cw.key
  BY DEF WriterRetire, Inv, IInv, WriteOwned, Owned
<1> USE <1>k
<1>1. /\ wpc = "retire" /\ k \in Keys /\ cw.data # Null /\ Owned /\ fd
      /\ entries \in Table /\ cw \in Write /\ file \in Seq(Cell)
      /\ SoundUse(usage) /\ TableWell(usage, entries, file) /\ WriteWell(usage, entries, cw)
      /\ cw.pos >= 0 => WriteApart(usage, entries, cw) /\ WrittenSoFar(cw, file)
      /\ \/ cw.pos >= 0 /\ cw.done = cw.sz
         \/ cw.pos < 0 /\ WriteMayFail
  BY InvTypes DEF WriterRetire, Inv, IInv, WriteOwned, Rest, WritePart, Owned, FdWell
<1>2. /\ entries' = (IF entries[k] = NoEntry THEN entries ELSE Retire(entries, cw))
      /\ cw' = NoWrite /\ wpc' = "top" /\ UNCHANGED <<file, newfile, fd, snap>>
  BY DEF WriterRetire, Retired, Retire
<1>3. WriteKeeps(entries[k], cw, k)
  BY <1>1, InvFound
<1>4. entries[k] # NoEntry =>
        /\ TableWell(usage, Retire(entries, cw), file)
        /\ cw.pos >= 0 /\ entries[k].data = Null => Holds(file, Retire(entries, cw)[k], cw.data)
  <2> SUFFICES ASSUME entries[k] # NoEntry
               PROVE  /\ TableWell(usage, Retire(entries, cw), file)
                      /\ cw.pos >= 0 /\ entries[k].data = Null =>
                            Holds(file, Retire(entries, cw)[k], cw.data)
    OBVIOUS
  <2> DEFINE es == entries
             w == cw
             u == usage
             f == file
  <2>1. /\ SoundUse(u) /\ es \in Table /\ f \in Seq(Cell) /\ w \in Write
        /\ w.key \in Keys /\ es[w.key] # NoEntry
        /\ TableWell(u, es, f) /\ WriteWell(u, es, w) /\ WriteKeeps(es[w.key], w, w.key)
        /\ w.pos >= 0 => WriteApart(u, es, w) /\ WrittenSoFar(w, f)
        /\ \/ w.pos >= 0 /\ w.done = w.sz
           \/ w.pos < 0 /\ WriteMayFail
    BY <1>1, <1>3
  <2> HIDE DEF es, w, u, f
  <2>2. /\ TableWell(u, Retire(es, w), f)
        /\ w.pos >= 0 /\ es[w.key].data = Null => Holds(f, Retire(es, w)[w.key], w.data)
    BY <2>1, RetireWell
  <2> QED BY <2>2 DEF es, w, u, f
<1>5. TableWell(usage, entries', file)
  BY <1>1, <1>2, <1>4
<1>6. Rest'
  BY <1>1, <1>2, <1>5 DEF Inv, Rest, WritePart, Owned, DefragPart, EmptyWell, FdWell
<1>7. ASSUME NEW l \in Keys, l # k
      PROVE  Lookup(l)' = Lookup(l)
  <2>1. entries'[l] = entries[l]
    BY <1>1, <1>2, <1>7 DEF Retire, Table
  <2>2. ~(cw.data # Null /\ cw.key = l) /\ ~(cw'.data # Null /\ cw'.key = l)
    BY <1>2, <1>7 DEF NoWrite
  <2> QED BY <2>1, <2>2, <1>2, LookupIsFound, LookupIsFoundNext DEF Found
<1>8. CASE entries[k] = NoEntry
  <2>1. Lookup(k)' = Lookup(k)
    BY <1>1, <1>2, <1>8, LookupIsFound, LookupIsFoundNext DEF Found
  <2> QED BY <1>6, <1>7, <2>1 DEF ShowsSame
<1>9. CASE entries[k] # NoEntry
  <2>1. entries[k] \in Entry
    BY <1>1, <1>9 DEF Table
  <2>2. entries'[k] = [entries[k] EXCEPT !.written = TRUE, !.pos = cw.pos]
    BY <1>1, <1>2, <1>9 DEF Retire, Table
  <2>3. cw.pos \in Int
    BY <1>1 DEF Write
  <2>4. entries'[k] \in Entry /\ entries'[k].data = entries[k].data /\ entries'[k].pos = cw.pos
    BY <2>1, <2>2, <2>3 DEF Entry
  <2>5. entries'[k] # NoEntry
    BY <2>4, EntryFields
  <2>6. CASE entries[k].data # Null
    <3>1. Lookup(k) = entries[k].data /\ Lookup(k)' = entries[k].data
      BY <1>1, <1>9, <2>4, <2>5, <2>6, LookupIsFound, LookupIsFoundNext DEF Found
    <3> QED BY <1>6, <1>7, <3>1 DEF ShowsSame
  <2>7. CASE entries[k].data = Null
    <3>1. Lookup(k) = cw.data /\ cw.data \in Values
      BY <1>1, <1>9, <2>7, LookupCases DEF InFlight, WriteWell
    <3>2. ~(cw'.data # Null /\ cw'.key = k)
      BY <1>2 DEF NoWrite
    <3>3. CASE cw.pos >= 0
      <4>1. Holds(file, entries'[k], cw.data)
        BY <1>2, <1>4, <1>9, <2>7, <3>3
      <4>2. Found(entries'[k], cw', file, k) = cw.data
        <5> DEFINE e == entries'[k]
                   w == cw'
                   f == file
                   v == cw.data
        <5>1. /\ e \in Entry /\ f \in Seq(Cell) /\ v \in Values /\ Holds(f, e, v)
              /\ e.data = Null /\ e.pos >= 0 /\ ~(w.data # Null /\ w.key = k)
          BY <1>1, <2>4, <2>7, <3>1, <3>2, <3>3, <4>1
        <5>2. k \in Keys
          BY <1>1
        <5> HIDE DEF e, w, f, v
        <5>3. Found(e, w, f, k) = v
          BY <5>1, FoundOnFile
        <5> QED BY <5>3 DEF e, w, f, v
      <4>3. Lookup(k)' = Lookup(k)
        BY <1>1, <1>2, <3>1, <4>2, LookupIsFoundNext
      <4> QED BY <1>6, <1>7, <4>3 DEF ShowsSame
    <3>4. CASE cw.pos < 0
      <4>1. ~(entries'[k].pos >= 0) /\ WriteMayFail
        BY <1>1, <2>3, <2>4, <3>4
      <4>2. Lookup(k)' = IOError
        BY <1>1, <2>4, <2>5, <2>7, <3>2, <4>1, LookupIsFoundNext DEF Found
      <4>3. Lookup(k) # Missing
        BY <3>1, ErrorsAssumption
      <4> QED BY <1>1, <1>6, <1>7, <4>1, <4>2, <4>3 DEF ShowsSame
    <3> QED BY <2>3, <3>3, <3>4
  <2> QED BY <2>6, <2>7
<1> QED BY <1>8, <1>9

(* ftruncate(): every entry there is has its data in RAM.                  *)
LEMMA TruncateRest ==
    ASSUME Inv, WriterTruncate, UNCHANGED usage
    PROVE  Rest' /\ ShowsSame(Keys)
<1>1. /\ entries \in Table /\ entries' = entries /\ cw' = cw /\ cw = NoWrite
      /\ \A k \in Live(entries) : entries[k].pos < 0 /\ ~entries[k].written
  BY InvTypes DEF WriterTruncate, Inv, IInv, WriteOwned, Owned, Rest, EmptyWell
<1>2. Stored(usage, entries) = {}
  BY <1>1 DEF Stored
<1>3. Placed(entries) = {}
  <2>1. \A k \in Live(entries) : entries[k].pos \in Int
    BY <1>1, LiveEntry, EntryFields
  <2> QED BY <1>1, <2>1 DEF Placed
<1>4. TableWell(usage, entries, file')
  BY <1>2, <1>3 DEF Inv, Rest, TableWell, StoredWell, StartsApart, PlacedInFile
<1>5. Rest'
  BY <1>1, <1>4 DEF WriterTruncate, Inv, Rest, WritePart, Owned, DefragPart, EmptyWell, FdWell
<1>6. ASSUME NEW k \in Keys
      PROVE  Lookup(k)' = Lookup(k)
  <2>1. entries[k] = NoEntry \/ entries[k].data # Null
    BY <1>1, InvFound DEF WriteKeeps, NoWrite, Live
  <2> QED BY <1>1, <2>1, LookupIsFound, LookupIsFoundNext DEF Found
<1> QED BY <1>5, <1>6 DEF ShowsSame

-----------------------------------------------------------------------------
(* All steps together: a call changes the look-ups as CacheMap says, and   *)
(* the writer thread changes none, unless a write failed.                  *)
Shows ==
    \/ ShowsSame(Keys)
    \/ \E k \in Keys, v \in Values : Lookup(k)' = v /\ ShowsSame(Keys \ {k})
    \/ \E k \in Keys : Lookup(k)' = Missing /\ ShowsSame(Keys \ {k})
    \/ \E k \in Keys : /\ WriteMayFail /\ Lookup(k) # Missing /\ Lookup(k)' = IOError
                       /\ ShowsSame(Keys \ {k})
    \/ \A k \in Keys : Lookup(k)' = Missing

LEMMA Steps == Inv /\ [Next]_vars => Inv' /\ Shows
<1> SUFFICES ASSUME Inv, [Next]_vars PROVE Inv' /\ Shows
  OBVIOUS
<1>1. IInv'
  BY NextIInv DEF Inv
<1>2. entries' \in Table /\ file' \in Seq(Cell) /\ usage' = usage
  BY <1>1 DEF IInv, TypeOK, Table, Next, vars
<1> SUFFICES Rest' /\ Shows
  BY <1>1 DEF Inv
<1>3. cw.sz \in Nat
  BY InvTypes DEF Write
<1>4. CASE Client
  <2>1. CASE StartThread
    <3>1. Rest' /\ ShowsSame(Keys)
      BY <2>1, <1>2, OtherRest DEF StartThread, Owned
    <3> QED BY <3>1 DEF Shows
  <2>2. CASE OpenFile \/ WaitForWrite \/ Wakeup \/ Dealloc \/ DeallocWakeup
    <3>1. Rest' /\ ShowsSame(Keys)
      BY <2>2, <1>2, OtherRest DEF OpenFile, WaitForWrite, Wakeup, Dealloc, DeallocWakeup
    <3> QED BY <3>1 DEF Shows
  <2>3. CASE ClearAll \/ DeallocJoin
    BY <2>3, <1>2, ClearRest, JoinRest DEF Shows
  <2>4. ASSUME NEW k \in Keys, RemoveEntry(k)
        PROVE  Rest' /\ Shows
    BY <2>4, <1>2, RemoveRest DEF Shows
  <2>5. ASSUME NEW k \in Keys, GetIntoRam(k)
        PROVE  Rest' /\ Shows
    BY <2>5, <1>2, GetRest DEF Shows
  <2>6. ASSUME NEW k \in Keys, NEW v \in Values, Add(k, v)
        PROVE  Rest' /\ Shows
    BY <2>6, <1>2, AddRest DEF Shows
  <2>7. ASSUME NEW S \in SUBSET Keys, ClearFromRam(S)
        PROVE  Rest' /\ Shows
    BY <2>7, <1>2, LeaveRamRest DEF Shows
  <2> QED BY <1>4, <2>1, <2>2, <2>3, <2>4, <2>5, <2>6, <2>7 DEF Client
<1>5. CASE Writer
  <2> SUFFICES Rest' /\ (ShowsSame(Keys) \/ Shows)
    BY DEF Shows
  <2>1. CASE WriterExit \/ WriterPoll
    BY <2>1, <1>2, OtherRest DEF WriterExit, WriterPoll, Owned
  <2>2. CASE WriterFind
    <3>1. snap = NoSnapshot /\ newfile = <<>> /\ wpc = "top"
      BY <2>2 DEF WriterFind, Inv, Rest, DefragPart
    <3> QED BY <2>2, <3>1, <1>2, FindRest DEF WriterFind
  <2>3. CASE DefragBegin
    BY <2>3, <1>2, DefragBeginRest
  <2>4. CASE DefragSwitch
    BY <2>4, <1>2, DefragSwitchRest
  <2>5. CASE DefragFailed
    BY <2>5, <1>2, FindRest DEF DefragFailed, EndDefrag
  <2>6. CASE WriterWritten
    BY <2>6, <1>2, WrittenRest
  <2>7. CASE WriterFailed
    BY <2>7, <1>2, FailedRest
  <2>8. CASE WriterRetire
    BY <2>8, <1>2, RetireRest DEF Shows
  <2>9. CASE WriterTruncate
    BY <2>9, <1>2, TruncateRest
  <2>10. ASSUME NEW k \in Keys, DefragCopy(k)
         PROVE  Rest' /\ ShowsSame(Keys)
    BY <2>10, <1>2, DefragCopyRest
  <2>11. ASSUME NEW n \in 1..cw.sz, WriterWrite(n)
         PROVE  Rest' /\ ShowsSame(Keys)
    BY <2>11, <1>2, <1>3, WriteRest
  <2> QED
    BY <1>5, <2>1, <2>2, <2>3, <2>4, <2>5, <2>6, <2>7, <2>8, <2>9, <2>10, <2>11 DEF Writer
<1>6. CASE UNCHANGED vars
  BY <1>6, OtherRest DEF vars, changing, Shows
<1> QED BY <1>4, <1>5, <1>6 DEF Next

LEMMA InitInv == (\A u \in Usages : SoundUse(u)) /\ Init => Inv
<1>1. Init => usage \in Usages
  BY DEF Init
<1> QED BY <1>1, InitIInv, InitRest DEF Inv

(* What the invariant says of the file.                                    *)
LEMMA InvSound == Inv => StoreSound
<1> SUFFICES ASSUME Inv PROVE StoreSound
  OBVIOUS
<1>1. /\ entries \in Table /\ cw \in Write /\ file \in Seq(Cell)
      /\ TableWell(usage, entries, file) /\ WritePart /\ DefragPart
  BY InvTypes DEF Inv, Rest
<1>2. ASSUME NEW k \in OnDisk
      PROVE  /\ k \in Stored(usage, entries) /\ k \in Placed(entries)
             /\ entries[k] \in Entry /\ entries[k].pos \in Int /\ entries[k].sz \in Nat
             /\ EndOf(entries[k]) <= Len(file)
  <2>1. k \in Stored(usage, entries) /\ k \in Placed(entries) /\ k \in Live(entries)
    BY DEF OnDisk, Stored, Trusted, Placed
  <2>2. entries[k].sz > 0
    BY DEF OnDisk
  <2> QED BY <1>1, <2>1, <2>2, LiveEntry, EntryFields DEF TableWell, StoredWell, Holds
<1>3. ASSUME NEW k \in OnDisk, NEW l \in OnDisk \ {k}
      PROVE  Apart(entries[k].pos, entries[k].sz, entries[l].pos, entries[l].sz)
  <2>1. /\ Outside(entries[l].pos, entries[k].pos, entries[k].sz)
        /\ Outside(entries[k].pos, entries[l].pos, entries[l].sz)
    BY <1>1, <1>2, <1>3 DEF TableWell, StartsApart
  <2>2. entries[k].sz > 0 /\ entries[l].sz > 0
    BY DEF OnDisk
  <2> QED BY <1>2, <2>1, <2>2 DEF Outside, Apart
<1>4. ASSUME cw.pos >= 0, NEW k \in OnDisk
      PROVE  Apart(entries[k].pos, entries[k].sz, cw.pos, cw.sz)
  <2>1. Owned
    BY <1>4 DEF Inv, IInv, WriteOwned, NoWrite
  <2> QED BY <1>1, <1>2, <1>4, <2>1 DEF WritePart, WriteApart
<1>5. RegionsApart
  BY <1>2, <1>3, <1>4 DEF RegionsApart
<1>6. SnapshotValid
  BY <1>1, <1>2 DEF SnapshotValid, DefragPart, MovesWell
<1> QED BY <1>5, <1>6 DEF StoreSound, Inv, IInv

(* Data is safe on its way to the file and in it, for any keys, values and *)
(* sizes and every interleaving of the client with the writer thread: no   *)
(* dirty value is thrown away, the holes find_hole() returns and the place *)
(* a compaction moves an entry to never overlap a region that an entry     *)
(* will be read from, and what a compaction copies is where it was.        *)
THEOREM StoredDataIsSafe == (\A u \in Usages : SoundUse(u)) => (Spec => []StoreSound)
<1>1. (\A u \in Usages : SoundUse(u)) /\ Init => Inv
  BY InitInv
<1>2. Inv /\ [Next]_vars => Inv'
  BY Steps
<1> QED BY <1>1, <1>2, InvSound, PTL DEF Spec

(* The cache implements the map CacheMap: whatever the writer thread does  *)
(* and wherever in the file it puts and moves the bytes, get() returns the *)
(* value of the last add(), KeyError after a remove() or clear(), or       *)
(* OSError after a write of it failed, and never other bytes.              *)
THEOREM CacheIsMap == (\A u \in Usages : SoundUse(u)) => (Spec => Refines)
<1>1. (\A u \in Usages : SoundUse(u)) /\ Init => Inv
  BY InitInv
<1>2. Inv /\ [Next]_vars => Inv'
  BY Steps
<1>3. Init => Promise!Init
  BY LookupIsFound DEF Init, Promise!Init, Found
<1>4. Inv /\ [Next]_vars => [Promise!Next]_([k \in Keys |-> Lookup(k)])
  <2> SUFFICES ASSUME Shows
               PROVE  [Promise!Next]_([k \in Keys |-> Lookup(k)])
    BY Steps
  <2>1. CASE ShowsSame(Keys)
    BY <2>1 DEF ShowsSame
  <2>2. CASE \E k \in Keys, v \in Values : Lookup(k)' = v /\ ShowsSame(Keys \ {k})
    BY <2>2 DEF ShowsSame, Promise!Next, Promise!Put
  <2>3. CASE \E k \in Keys : Lookup(k)' = Missing /\ ShowsSame(Keys \ {k})
    BY <2>3 DEF ShowsSame, Promise!Next, Promise!Delete
  <2>4. CASE \E k \in Keys : /\ WriteMayFail /\ Lookup(k) # Missing /\ Lookup(k)' = IOError
                             /\ ShowsSame(Keys \ {k})
    BY <2>4 DEF ShowsSame, Promise!Next, Promise!Lose
  <2>5. CASE \A k \in Keys : Lookup(k)' = Missing
    BY <2>5 DEF Promise!Next, Promise!Clear
  <2> QED BY <2>1, <2>2, <2>3, <2>4, <2>5 DEF Shows
<1> QED BY <1>1, <1>2, <1>3, <1>4, PTL DEF Spec, Refines, Promise!Spec
-----------------------------------------------------------------------------
(* total_size, as a sum over the entries there are.                        *)
Sizes(es) == [k \in Keys |-> es[k].sz]
Held(es) == Amount(Sizes(es), Live(es))

LEMMA SizesAreWeights ==
    ASSUME NEW es \in Table
    PROVE  Weights(Sizes(es), Live(es))
  BY LiveEntry DEF Weights, Sizes, Live, Entry

(* MapThenSumSet of the sizes.                                             *)
LEMMA SumIsHeld ==
    ASSUME NEW es \in Table, IsFiniteSet(Live(es))
    PROVE  MapThenSumSet(LAMBDA k : es[k].sz, Live(es)) = Held(es)
<1> DEFINE D == Live(es)
           w == Sizes(es)
           P(it) == it = [s \in SUBSET D |-> IF s = {} THEN 0 ELSE
                            es[CHOOSE x \in s : TRUE].sz + it[s \ {CHOOSE x \in s : TRUE}]]
<1>1. MapThenSumSet(LAMBDA k : es[k].sz, Live(es)) = (CHOOSE it : P(it))[D]
  BY Zenon DEF MapThenSumSet, MapThenFoldSet
<1>2. Weights(w, D) /\ IsFiniteSet(D)
  BY SizesAreWeights
<1>3. ASSUME NEW s \in SUBSET D, s # {}
      PROVE  es[CHOOSE x \in s : TRUE].sz = w[OneOf(s)]
  <2>1. OneOf(s) \in Keys /\ OneOf(s) = CHOOSE x \in s : TRUE
    BY <1>3, OneIsIn DEF OneOf, Live
  <2> QED BY <2>1 DEF Sizes
<1>4. ASSUME NEW it PROVE P(it) <=> SumsOf(it, w, D)
  <2>1. [s \in SUBSET D |-> IF s = {} THEN 0 ELSE
            es[CHOOSE x \in s : TRUE].sz + it[s \ {CHOOSE x \in s : TRUE}]]
        = [s \in SUBSET D |-> IF s = {} THEN 0 ELSE w[OneOf(s)] + it[s \ {OneOf(s)}]]
    <3> HIDE DEF w, D
    <3>1. ASSUME NEW s \in SUBSET D
          PROVE  (IF s = {} THEN 0 ELSE es[CHOOSE x \in s : TRUE].sz + it[s \ {CHOOSE x \in s : TRUE}])
                 = (IF s = {} THEN 0 ELSE w[OneOf(s)] + it[s \ {OneOf(s)}])
      <4>1. CASE s = {}
        BY <4>1, Zenon
      <4>2. CASE s # {}
        <5>1. es[CHOOSE x \in s : TRUE].sz = w[OneOf(s)]
          BY <1>3, <4>2
        <5>2. OneOf(s) = CHOOSE x \in s : TRUE
          BY Zenon DEF OneOf
        <5> QED BY <4>2, <5>1, <5>2, Zenon
      <4> QED BY <4>1, <4>2
    <3> QED BY <3>1, Zenon
  <2> QED BY <2>1, Zenon DEF SumsOf
<1> HIDE DEF P, w, D
<1>5. \E it : P(it)
  BY <1>2, <1>4, AmountsAreSums
<1>6. P(CHOOSE it : P(it))
  BY <1>5, Zenon
<1>7. (CHOOSE it : P(it))[D] = Amount(w, D)
  BY <1>2, <1>4, <1>6, SumsAreAmounts
<1> QED BY <1>1, <1>7 DEF Held, w, D

(* The sum when no entry comes, goes or changes its size, and when one     *)
(* does.                                                                   *)
SameSizes(es, es2) == Live(es2) = Live(es) /\ \A k \in Live(es) : es2[k].sz = es[k].sz

LEMMA HeldSame ==
    ASSUME NEW es, NEW es2, SameSizes(es, es2)
    PROVE  Held(es2) = Held(es)
<1>1. \A k \in Live(es) : Sizes(es2)[k] = Sizes(es)[k]
  BY DEF SameSizes, Sizes, Live
<1> QED BY <1>1, AmountAgrees DEF Held, SameSizes

LEMMA HeldAdd ==
    ASSUME NEW es \in Table, NEW es2 \in Table, IsFiniteSet(Live(es)), NEW k \in Keys,
           es[k] = NoEntry, es2[k] # NoEntry, \A l \in Keys \ {k} : es2[l] = es[l]
    PROVE  IsFiniteSet(Live(es2)) /\ Held(es2) = Held(es) + es2[k].sz /\ Held(es) \in Nat
<1>1. Live(es2) = Live(es) \cup {k} /\ k \notin Live(es) /\ k \in Live(es2)
  BY DEF Live
<1>2. IsFiniteSet(Live(es2))
  BY <1>1, FS_AddElement
<1>3. Live(es2) \ {k} = Live(es)
  BY <1>1
<1>4. Held(es2) = Sizes(es2)[k] + Amount(Sizes(es2), Live(es))
  <2> DEFINE w == Sizes(es2)
             D == Live(es2)
  <2>1. Weights(w, D) /\ IsFiniteSet(D) /\ k \in D
    BY <1>1, <1>2, SizesAreWeights
  <2> HIDE DEF w, D
  <2>2. Amount(w, D) = w[k] + Amount(w, D \ {k})
    BY <2>1, AmountSplit
  <2> QED BY <2>2, <1>3 DEF Held, w, D
<1>5. \A l \in Live(es) : Sizes(es2)[l] = Sizes(es)[l]
  BY <1>1 DEF Sizes, Live
<1>6. Amount(Sizes(es2), Live(es)) = Held(es)
  BY <1>5, AmountAgrees DEF Held
<1>7. Held(es) \in Nat
  BY SizesAreWeights, AmountIsNat DEF Held
<1>8. Sizes(es2)[k] = es2[k].sz /\ es2[k].sz \in Nat
  BY <1>1, LiveEntry DEF Sizes, Entry
<1> QED BY <1>2, <1>4, <1>6, <1>7, <1>8

LEMMA HeldNone ==
    ASSUME NEW es, Live(es) = {}
    PROVE  IsFiniteSet(Live(es)) /\ Held(es) = 0
  BY AmountOfNone, FS_EmptySet DEF Held

(* Without "readd" the total is the sum until the cache is freed.          *)
Counted ==
    mpc # "freed" /\ "readd" \notin usage => IsFiniteSet(Live(entries)) /\ total = Held(entries)

LEMMA SelectSizes ==
    ASSUME NEW es \in Table, Abandoned(es) = {}, SelectEntry(es)
    PROVE  SameSizes(es, entries')
<1>0. WrittenOff(es, {}) = es /\ SUBSET Abandoned(es) = {{}}
  BY DEF WrittenOff, Table
<1>1. entries' = es \/ \E k \in Dirty(es) : entries' = TakeData(es, k)
  BY <1>0 DEF SelectEntry
<1>2. ASSUME NEW k \in Dirty(es), entries' = TakeData(es, k)
      PROVE  SameSizes(es, entries')
  <2>1. k \in Keys /\ es[k] \in Entry /\ k \in Live(es)
    BY DEF Dirty, Live, Table
  <2>2. entries' = [es EXCEPT ![k] = [es[k] EXCEPT !.data = Null]]
    BY <1>2 DEF TakeData
  <2>3. [es[k] EXCEPT !.data = Null] # NoEntry /\ [es[k] EXCEPT !.data = Null].sz = es[k].sz
    <3>1. [es[k] EXCEPT !.data = Null] \in Entry /\ [es[k] EXCEPT !.data = Null].sz = es[k].sz
      BY <2>1 DEF Entry, Data
    <3> QED BY <3>1, NoEntryAssumption
  <2>4. /\ entries'[k] = [es[k] EXCEPT !.data = Null]
        /\ \A l \in Keys : l # k => entries'[l] = es[l]
    BY <2>1, <2>2 DEF Table
  <2> QED BY <2>1, <2>3, <2>4 DEF SameSizes, Live
<1>3. SameSizes(es, es)
  BY DEF SameSizes
<1> QED BY <1>1, <1>2, <1>3

LEMMA KeepsCounted ==
    ASSUME Counted, total' = total, SameSizes(entries, entries'), usage' = usage,
           mpc' # "freed" => mpc # "freed"
    PROVE  Counted'
<1>1. Held(entries') = Held(entries) /\ Live(entries') = Live(entries)
  BY HeldSame DEF SameSizes
<1>2. Held(entries)' = Held(entries') /\ Live(entries)' = Live(entries')
  BY DEF Held, Sizes, Live
<1> QED BY <1>1, <1>2 DEF Counted

LEMMA CountedStep == IInv /\ Counted /\ [Next]_vars => Counted'
<1> SUFFICES ASSUME IInv, Counted, [Next]_vars PROVE Counted'
  OBVIOUS
<1>1. IInv'
  BY NextIInv
<1>2. entries \in Table /\ entries' \in Table /\ usage' = usage /\ total \in Nat
  BY <1>1 DEF IInv, TypeOK, Table, Next, vars
<1>3. Live(entries)' = Live(entries') /\ Held(entries)' = Held(entries')
  BY DEF Held, Sizes, Live
<1>4. ASSUME wpc = "top" \/ wpc = "defrag" PROVE cw = NoWrite /\ Abandoned(entries) = {}
  BY <1>4 DEF IInv, WriteOwned, Owned, DirtyDataKept, Abandoned
<1>5. ASSUME UNCHANGED <<entries, total>>, mpc' # "freed" => mpc # "freed" PROVE Counted'
  BY <1>2, <1>5, KeepsCounted DEF SameSizes
<1>6. CASE Client
  <2>1. CASE StartThread \/ OpenFile \/ WaitForWrite \/ Wakeup \/ Dealloc \/ DeallocWakeup
    <3>1. UNCHANGED <<entries, total>> /\ (mpc' # "freed" => mpc # "freed")
      <4>1. CASE StartThread  BY <4>1 DEF StartThread
      <4>2. CASE OpenFile  BY <4>2 DEF OpenFile
      <4>3. CASE WaitForWrite  BY <4>3 DEF WaitForWrite, Ready
      <4>4. CASE Wakeup  BY <4>4 DEF Wakeup
      <4>5. CASE Dealloc  BY <4>5 DEF Dealloc
      <4>6. CASE DeallocWakeup  BY <4>6 DEF DeallocWakeup
      <4> QED BY <2>1, <4>1, <4>2, <4>3, <4>4, <4>5, <4>6
    <3> QED BY <3>1, <1>5
  <2>2. CASE ClearAll
    <3>1. Live(entries') = {} /\ total' = 0
      BY <2>2 DEF ClearAll, Live
    <3> QED BY <3>1, <1>3, HeldNone DEF Counted
  <2>3. CASE DeallocJoin
    BY <2>3 DEF DeallocJoin, Counted
  <2>4. ASSUME NEW k \in Keys, RemoveEntry(k) PROVE Counted'
    <3>0. mpc # "freed" /\ \A l \in Keys \ {k} : entries'[l] = entries[l]
      BY <2>4, <1>2 DEF RemoveEntry, Ready, Table
    <3>1. CASE entries[k] = NoEntry
      <4>1. entries' = entries /\ total' = total
        BY <2>4, <1>2, <3>1 DEF RemoveEntry, TotalAfterRemove, Table
      <4> QED BY <4>1, <3>0, <1>5
    <3>2. CASE entries[k] # NoEntry /\ "readd" \notin usage
      <4>1. IsFiniteSet(Live(entries)) /\ total = Held(entries) /\ entries'[k] = NoEntry
        BY <2>4, <3>0, <3>2, <1>2 DEF Counted, RemoveEntry, Table
      <4>2. Live(entries') \subseteq Live(entries)
        BY <4>1, <3>0 DEF Live
      <4>3. IsFiniteSet(Live(entries'))
        BY <4>1, <4>2, FS_Subset
      <4>4. Held(entries) = Held(entries') + entries[k].sz /\ Held(entries') \in Nat
        BY <4>1, <4>3, <3>0, <3>2, <1>2, HeldAdd
      <4>5. entries[k].sz \in Nat
        BY <3>2, <1>2, LiveEntry DEF Live, Entry
      <4>6. total' = Held(entries')
        BY <2>4, <3>2, <4>1, <4>4, <4>5 DEF RemoveEntry, TotalAfterRemove
      <4> QED BY <4>3, <4>6, <1>3 DEF Counted
    <3> QED BY <3>1, <3>2, <1>2 DEF Counted
  <2>5. ASSUME NEW k \in Keys, GetIntoRam(k) PROVE Counted'
    <3>1. /\ entries[k] \in Entry /\ entries[k] # NoEntry
          /\ entries' = [entries EXCEPT ![k] = [entries[k] EXCEPT !.data = CopyKept(k)]]
          /\ total' = total /\ mpc' = mpc
      BY <2>5, <1>2 DEF GetIntoRam, Table
    <3>2. /\ entries'[k] = [entries[k] EXCEPT !.data = CopyKept(k)]
          /\ \A l \in Keys \ {k} : entries'[l] = entries[l]
      BY <3>1, <1>2 DEF Table
    <3>3. entries'[k].sz = entries[k].sz /\ entries'[k] # NoEntry
      <4>1. CopyKept(k) \in Data
        BY <2>5, LookupType DEF GetIntoRam, IInv
      <4>2. entries'[k] \in Entry /\ entries'[k].sz = entries[k].sz
        BY <3>1, <3>2, <4>1 DEF Entry
      <4> QED BY <4>2, NoEntryAssumption
    <3>4. SameSizes(entries, entries')
      BY <3>1, <3>2, <3>3 DEF SameSizes, Live
    <3> QED BY <3>1, <3>4, <1>2, KeepsCounted
  <2>6. ASSUME NEW k \in Keys, NEW v \in Values, Add(k, v) PROVE Counted'
    <3>1. CASE "readd" \in usage
      BY <3>1, <1>2 DEF Counted
    <3>2. CASE "readd" \notin usage
      <4>1. entries[k] = NoEntry /\ mpc # "freed"
        BY <2>6, <3>2 DEF Add, Untouched, Ready
      <4>2. /\ entries'[k] = AddNew(v) /\ \A l \in Keys \ {k} : entries'[l] = entries[l]
            /\ total' = total + Size[v]
        BY <2>6, <4>1, <1>2 DEF Add, TotalAfterAdd, Table
      <4>3. entries'[k] # NoEntry /\ entries'[k].sz = Size[v]
        <5>1. AddNew(v) \in Entry
          BY SizeAssumption DEF AddNew, Entry, Data, IInv, TypeOK
        <5>2. AddNew(v).sz = Size[v]
          BY DEF AddNew
        <5> QED BY <4>2, <5>1, <5>2, NoEntryAssumption
      <4>4. IsFiniteSet(Live(entries)) /\ total = Held(entries)
        BY <4>1, <3>2 DEF Counted
      <4>5. IsFiniteSet(Live(entries')) /\ Held(entries') = Held(entries) + Size[v]
        BY <4>1, <4>2, <4>3, <4>4, <1>2, HeldAdd
      <4> QED BY <4>2, <4>4, <4>5, <1>3 DEF Counted
    <3> QED BY <3>1, <3>2
  <2>7. ASSUME NEW S \in SUBSET Keys, ClearFromRam(S) PROVE Counted'
    <3>1. total' = total /\ mpc' = mpc
      BY <2>7 DEF ClearFromRam
    <3>2. ASSUME NEW k \in Keys
          PROVE  /\ entries'[k] = NoEntry <=> entries[k] = NoEntry
                 /\ entries[k] # NoEntry => entries'[k].sz = entries[k].sz
      <4>1. CASE k \in S
        <5>1. entries[k] \in Entry /\ entries[k] # NoEntry
          BY <2>7, <4>1, <1>2 DEF ClearFromRam, MayLeaveRam, Table
        <5>2. entries'[k] = [entries[k] EXCEPT !.data = Null]
          BY <2>7, <4>1 DEF ClearFromRam
        <5>3. entries'[k] \in Entry /\ entries'[k].sz = entries[k].sz
          BY <5>1, <5>2 DEF Entry, Data
        <5> QED BY <5>1, <5>3, NoEntryAssumption
      <4>2. CASE k \notin S
        BY <2>7, <4>2 DEF ClearFromRam
      <4> QED BY <4>1, <4>2
    <3>3. SameSizes(entries, entries')
      BY <3>2 DEF SameSizes, Live
    <3> QED BY <3>1, <3>3, <1>2, KeepsCounted
  <2> QED BY <1>6, <2>1, <2>2, <2>3, <2>4, <2>5, <2>6, <2>7 DEF Client
<1>7. CASE Writer
  <2>1. CASE \/ WriterExit \/ WriterPoll \/ DefragBegin \/ WriterWritten \/ WriterFailed
             \/ WriterTruncate
             \/ \E k \in Keys : DefragCopy(k)
             \/ \E n \in 1..cw.sz : WriterWrite(n)
    <3>1. UNCHANGED <<entries, total, mpc>>
      <4>1. CASE WriterExit \/ WriterPoll  BY <4>1 DEF WriterExit, WriterPoll
      <4>2. CASE DefragBegin \/ WriterWritten  BY <4>2 DEF DefragBegin, WriterWritten
      <4>3. CASE WriterFailed \/ WriterTruncate  BY <4>3 DEF WriterFailed, WriterTruncate
      <4>4. CASE \E k \in Keys : DefragCopy(k)  BY <4>4 DEF DefragCopy
      <4>5. CASE \E n \in 1..cw.sz : WriterWrite(n)  BY <4>5 DEF WriterWrite
      <4> QED BY <2>1, <4>1, <4>2, <4>3, <4>4, <4>5
    <3> QED BY <3>1, <1>5
  <2>2. CASE WriterFind \/ DefragFailed
    <3>1. SelectEntry(entries) /\ UNCHANGED <<total, mpc>> /\ Abandoned(entries) = {}
      BY <2>2, <1>4 DEF WriterFind, DefragFailed, EndDefrag
    <3> QED BY <3>1, <1>2, SelectSizes, KeepsCounted
  <2>3. CASE DefragSwitch
    <3> DEFINE ms == MovedEntries
    <3>1. SelectEntry(ms) /\ UNCHANGED <<total, mpc>> /\ Abandoned(entries) = {}
      BY <2>3, <1>4 DEF DefragSwitch, EndDefrag
    <3>2. ASSUME NEW k \in Keys
          PROVE  /\ ms[k] \in Entry \cup {NoEntry}
                 /\ ms[k] = NoEntry <=> entries[k] = NoEntry
                 /\ entries[k] # NoEntry => /\ ms[k].sz = entries[k].sz
                                            /\ ms[k].data = entries[k].data
                                            /\ ms[k].written = entries[k].written
      <4>1. CASE k \in Remembered /\ entries[k] # NoEntry
        <5>1. entries[k] \in Entry /\ snap[k].new \in Int
          BY <4>1, <1>2 DEF Remembered, Table, IInv, TypeOK, Move
        <5>2. ms[k] = [entries[k] EXCEPT !.pos = snap[k].new]
          BY <4>1 DEF MovedEntries
        <5>3. /\ ms[k] \in Entry /\ ms[k].sz = entries[k].sz
              /\ ms[k].data = entries[k].data /\ ms[k].written = entries[k].written
          BY <5>1, <5>2 DEF Entry
        <5> QED BY <4>1, <5>3, NoEntryAssumption
      <4>2. CASE ~(k \in Remembered /\ entries[k] # NoEntry)
        BY <4>2, <1>2 DEF MovedEntries, Table
      <4> QED BY <4>1, <4>2
    <3>3. ms \in Table
      BY <3>2 DEF MovedEntries, Table
    <3> HIDE DEF ms
    <3>4. Abandoned(ms) = {} /\ SameSizes(entries, ms)
      BY <3>1, <3>2 DEF Abandoned, Dirty, Live, SameSizes
    <3>5. SameSizes(ms, entries')
      BY <3>1, <3>3, <3>4, SelectSizes
    <3>6. SameSizes(entries, entries')
      BY <3>4, <3>5 DEF SameSizes
    <3> QED BY <3>1, <3>6, <1>2, KeepsCounted
  <2>4. CASE WriterRetire
    <3>1. UNCHANGED <<total, mpc>> /\ cw.key \in Keys /\ entries' = Retired(entries)
      BY <2>4 DEF WriterRetire, IInv, WriteOwned, Owned
    <3>2. CASE entries[cw.key] = NoEntry
      BY <3>1, <3>2, <1>5 DEF Retired
    <3>3. CASE entries[cw.key] # NoEntry
      <4> DEFINE e == [entries[cw.key] EXCEPT !.written = TRUE, !.pos = cw.pos]
      <4>1. entries[cw.key] \in Entry /\ cw.pos \in Int
        BY <3>1, <3>3, <1>2 DEF Table, IInv, TypeOK, Write
      <4>2. e \in Entry /\ e.sz = entries[cw.key].sz
        BY <4>1 DEF Entry
      <4>3. entries'[cw.key] = e /\ \A l \in Keys \ {cw.key} : entries'[l] = entries[l]
        BY <3>1, <3>3, <1>2 DEF Retired, Table
      <4> HIDE DEF e
      <4>4. e # NoEntry
        BY <4>2, NoEntryAssumption
      <4>5. SameSizes(entries, entries')
        BY <3>1, <3>3, <4>2, <4>3, <4>4 DEF SameSizes, Live
      <4> QED BY <3>1, <4>5, <1>2, KeepsCounted
    <3> QED BY <3>2, <3>3
  <2> QED BY <1>7, <2>1, <2>2, <2>3, <2>4 DEF Writer
<1>8. CASE UNCHANGED vars
  BY <1>8, <1>5 DEF vars, changing
<1> QED BY <1>6, <1>7, <1>8 DEF Next

(* total_size is the size of what was added and not removed, for any keys, *)
(* sizes and interleaving, as long as no key is added twice: the writer,   *)
(* which may throw an entry away and moves the others, never changes what  *)
(* an entry weighs.                                                        *)
THEOREM TotalIsWhatIsHeld == Spec => []TotalIsSum
<1>1. Init => Counted
  <2> SUFFICES ASSUME Init PROVE Counted
    OBVIOUS
  <2>1. Live(entries) = {} /\ total = 0
    BY DEF Init, Live
  <2> QED BY <2>1, HeldNone DEF Counted
<1>2. IInv /\ Counted => TotalIsSum
  <2> SUFFICES ASSUME IInv, Counted, mpc # "freed", "readd" \notin usage
               PROVE  total = MapThenSumSet(LAMBDA k : entries[k].sz, Live(entries))
    BY DEF TotalIsSum
  <2> DEFINE es == entries
  <2>1. es \in Table /\ IsFiniteSet(Live(es)) /\ total = Held(es)
    BY DEF Counted, IInv, TypeOK, Table
  <2>2. MapThenSumSet(LAMBDA k : es[k].sz, Live(es)) = Held(es)
    BY <2>1, SumIsHeld
  <2> QED BY <2>1, <2>2
<1> QED BY <1>1, <1>2, InitIInv, NextIInv, CountedStep, PTL DEF Spec

=============================================================================
