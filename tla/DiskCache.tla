----------------------------- MODULE DiskCache ------------------------------
(***************************************************************************)
(* smelly/disk-cache.c: the cache that keeps the pixel data of images out  *)
(* of RAM.  The client (the main thread, through graphics.c or Python)     *)
(* adds, removes, clears and reads entries; the thread "DiskCacheWrite"    *)
(* moves the data of dirty entries into one file, reusing the holes that   *)
(* removed entries leave and compacting the file when it is more than      *)
(* half holes.  A critical section of self->lock is one action; the file   *)
(* is written, and copied by a compaction, outside the lock.               *)
(*                                                                         *)
(* A value is abstract and occupies Size[v] cells of the file.  A cell     *)
(* holds one cyphertext byte: which byte of which value, under which key.  *)
(***************************************************************************)
EXTENDS Integers, Sequences, FiniteSetsExt

CONSTANTS
    Keys,
    Values,
    Size,          \* [Values -> Nat], bytes of a value
    Null,          \* the NULL pointer, no key
    NoEntry,       \* the key is not in the hash table
    Missing,       \* get() raises KeyError
    IOError,       \* get() raises OSError
    Garbage,       \* bytes that are no value the client stored
    MaxAdds,       \* bound on the calls of add()
    Usages,        \* what the client may do, see usage
    WriteMayFail   \* pwrite(), the second cache file or its copy may fail

ASSUME SizeAssumption == Size \in [Values -> Nat]
ASSUME MaxAddsAssumption == MaxAdds \in Nat
ASSUME UsagesAssumption ==
    /\ Usages \subseteq SUBSET {"readd", "ram"}
    /\ WriteMayFail \in BOOLEAN
(* A value is its bytes: there is one that has none.                       *)
ASSUME EmptyAssumption == \A v, w \in Values : Size[v] = 0 /\ Size[w] = 0 => v = w
(* An exception is not a value.                                            *)
ASSUME ErrorsAssumption == Missing \notin Values /\ IOError \notin Values
ASSUME NullAssumption == Null \notin Keys \cup Values \cup {Garbage}

VARIABLES
    entries,  \* the hash table: key -> CacheEntry
    cw,       \* self->currently_writing, with the cells written so far
    file,     \* the cache file, a sequence of cells
    fd,       \* cache_file_fd > -1
    total,    \* total_size
    newfile,  \* the second cache file, during a compaction
    snap,     \* defrag_entries: old offset, size and new offset by key
    wpc,      \* control point of the writer thread
    mpc,      \* control point of the client
    wake,     \* the event fd of loop_data is readable
    shutting, \* shutting_down
    adds,     \* number of calls of add() so far, also names encryption keys
    usage     \* the client adds keys it used before ("readd"); it uses
              \* get(key, store_in_ram) and remove_from_ram() ("ram")

changing == <<entries, cw, file, newfile, fd, total, snap, wpc, mpc, wake, shutting, adds>>

vars == <<changing, usage>>
-----------------------------------------------------------------------------
Data == Values \cup {Null, Garbage}

Entry == [data : Data, sz : Nat, written : BOOLEAN, pos : Int, ek : Nat]

Cell == [val : Data, ek : Nat, i : Nat]

Write == [key : Keys \cup {Null}, data : Data, sz : Nat, pos : Int, ek : Nat,
          done : Nat]

Move == [old : Nat, sz : Nat, new : Int]

ASSUME NoEntryAssumption == NoEntry \notin Entry \cup Move

NoWrite == [key |-> Null, data |-> Null, sz |-> 0, pos |-> -1, ek |-> 0,
            done |-> 0]

NoSnapshot == [k \in Keys |-> NoEntry]

Live(es) == {k \in Keys : es[k] # NoEntry}

Dirty(es) == {k \in Live(es) : ~es[k].written}

FileSize == IF fd THEN Len(file) ELSE 0

EndOf(e) == e.pos + e.sz

TypeOK ==
    /\ entries \in [Keys -> Entry \cup {NoEntry}]
    /\ cw \in Write
    /\ file \in Seq(Cell)
    /\ fd \in BOOLEAN
    /\ total \in Nat
    /\ newfile \in Seq(Cell)
    /\ snap \in [Keys -> Move \cup {NoEntry}]
    /\ wpc \in {"none", "top", "defrag", "write", "retire", "truncate", "poll",
                "done"}
    /\ mpc \in {"idle", "wakeup", "free", "join", "freed"}
    /\ wake \in BOOLEAN
    /\ shutting \in BOOLEAN
    /\ adds \in 0..MaxAdds
    /\ usage \in Usages

Init ==
    /\ entries = [k \in Keys |-> NoEntry]
    /\ cw = NoWrite
    /\ file = <<>>
    /\ fd = FALSE
    /\ total = 0
    /\ newfile = <<>>
    /\ snap = NoSnapshot
    /\ wpc = "none"
    /\ mpc = "idle"
    /\ wake = FALSE
    /\ shutting = FALSE
    /\ adds = 0
    /\ usage \in Usages
-----------------------------------------------------------------------------
(* Looking a key up.                                                       *)

CellOf(v, ek, i) == [val |-> v, ek |-> ek, i |-> i]

(* The values whose cyphertext under e's key is what the file holds in the *)
(* region e describes.                                                     *)
ValuesOnDisk(e) ==
    {v \in Values :
        /\ Size[v] = e.sz
        /\ \A i \in 1..e.sz : file[e.pos + i] = CellOf(v, e.ek, i)}

Readable(e) == e.pos >= 0 /\ (e.sz = 0 \/ EndOf(e) <= Len(file))

InFlight(k) == cw.data # Null /\ cw.key = k

Lookup(k) ==
    LET e == entries[k] IN
    CASE e = NoEntry -> Missing
      [] e # NoEntry /\ e.data # Null -> e.data
      [] e # NoEntry /\ e.data = Null /\ InFlight(k) ->
            IF cw.ek = e.ek /\ cw.sz = e.sz THEN cw.data ELSE Garbage
      [] e # NoEntry /\ e.data = Null /\ ~InFlight(k) ->
            IF ~Readable(e) THEN IOError
            ELSE IF ValuesOnDisk(e) = {} THEN Garbage
            ELSE CHOOSE v \in ValuesOnDisk(e) : TRUE
-----------------------------------------------------------------------------
(* The client.  Every call is a critical section followed, for those that  *)
(* give the writer work, by a write to the event fd outside the lock.      *)

Ready == mpc = "idle" /\ wpc # "none" /\ fd

(* ensure_state(): the thread runs before the file is open, and a failure  *)
(* to open the file is retried by the next call.                           *)
StartThread ==
    /\ mpc = "idle" /\ wpc = "none"
    /\ wpc' = "top"
    /\ UNCHANGED <<entries, cw, file, newfile, fd, total, snap, mpc, wake, shutting, adds>>

OpenFile ==
    /\ mpc = "idle" /\ wpc # "none" /\ ~fd
    /\ fd' = TRUE
    /\ UNCHANGED <<entries, cw, file, newfile, total, snap, wpc, mpc, wake, shutting, adds>>

AddNew(v) ==
    [data |-> v, sz |-> Size[v], written |-> FALSE, pos |-> -2, ek |-> adds]

AddExisting(e, v) ==
    [e EXCEPT !.data = v, !.sz = Size[v], !.written = FALSE]

(* The size of the new data is first subtracted, then added.               *)
TotalAfterAdd(k, v) ==
    IF entries[k] = NoEntry THEN total + Size[v]
    ELSE (IF Size[v] <= total THEN total - Size[v] ELSE 0) + Size[v]

(* Graphics keys hold an ever growing image id.  Ids are recycled here as   *)
(* soon as nothing in the cache remembers them.                            *)
Untouched(k) ==
    /\ entries[k] = NoEntry
    /\ cw.key # k
    /\ snap[k] = NoEntry

Woken == mpc' = "wakeup"

Add(k, v) ==
    /\ Ready /\ adds < MaxAdds
    /\ "readd" \in usage \/ Untouched(k)
    /\ entries' = [entries EXCEPT
            ![k] = IF @ = NoEntry THEN AddNew(v) ELSE AddExisting(@, v)]
    /\ total' = TotalAfterAdd(k, v)
    /\ adds' = adds + 1
    /\ Woken
    /\ UNCHANGED <<cw, file, newfile, fd, snap, wpc, wake, shutting>>

\* Mutant: total_size wraps below zero.
TotalUnclamped(k) == IF entries[k] = NoEntry THEN total ELSE total - entries[k].sz

\* Mutant: remove() forgets the size of the entry.
TotalNotReduced(k) == total

TotalAfterRemove(k) ==
    IF entries[k] = NoEntry THEN total
    ELSE IF total > entries[k].sz THEN total - entries[k].sz ELSE 0

RemoveEntry(k) ==
    /\ Ready
    /\ entries' = [entries EXCEPT ![k] = NoEntry]
    /\ total' = TotalAfterRemove(k)
    /\ Woken
    /\ UNCHANGED <<cw, file, newfile, fd, snap, wpc, wake, shutting, adds>>

ClearAll ==
    /\ Ready
    /\ entries' = [k \in Keys |-> NoEntry]
    /\ total' = 0
    /\ Woken
    /\ UNCHANGED <<cw, file, newfile, fd, snap, wpc, wake, shutting, adds>>

(* get(key, True) keeps a copy of what it read.  It does so even when the  *)
(* read failed: the copy is then whatever the allocation held.             *)
CopyKept(k) == IF Lookup(k) = IOError THEN Garbage ELSE Lookup(k)

GetIntoRam(k) ==
    /\ Ready /\ "ram" \in usage
    /\ entries[k] # NoEntry /\ entries[k].data = Null /\ entries[k].sz > 0
    /\ entries' = [entries EXCEPT ![k].data = CopyKept(k)]
    /\ UNCHANGED <<cw, file, newfile, fd, total, snap, wpc, mpc, wake, shutting, adds>>

MayLeaveRam(e) == e # NoEntry /\ e.written /\ e.data # Null

(* remove_from_ram(): the predicate the caller passes picks the keys.      *)
ClearFromRam(S) ==
    /\ Ready /\ "ram" \in usage
    /\ S # {} /\ \A k \in S : MayLeaveRam(entries[k])
    /\ entries' = [k \in Keys |->
            IF k \in S THEN [entries[k] EXCEPT !.data = Null] ELSE entries[k]]
    /\ UNCHANGED <<cw, file, newfile, fd, total, snap, wpc, mpc, wake, shutting, adds>>

(* One turn of the loop of wait_for_write() that finds a pending entry.    *)
WaitForWrite ==
    /\ Ready
    /\ Dirty(entries) # {}
    /\ mpc' = "wakeup"
    /\ UNCHANGED <<entries, cw, file, newfile, fd, total, snap, wpc, wake, shutting, adds>>

Wakeup ==
    /\ mpc = "wakeup"
    /\ mpc' = "idle"
    /\ wake' = TRUE
    /\ UNCHANGED <<entries, cw, file, newfile, fd, total, snap, wpc, shutting, adds>>

(* dealloc(): ask the thread to stop, wake it, join it, free everything.   *)
Dealloc ==
    /\ mpc = "idle"
    /\ shutting' = TRUE
    /\ mpc' = IF wpc = "none" THEN "freed" ELSE "free"
    /\ UNCHANGED <<entries, cw, file, newfile, fd, total, snap, wpc, wake, adds>>

\* Mutant: dealloc() joins without waking the thread.
DeallocSilently ==
    /\ mpc = "free"
    /\ mpc' = "join"
    /\ UNCHANGED <<entries, cw, file, newfile, fd, total, snap, wpc, wake, shutting, adds>>

DeallocWakeup ==
    /\ mpc = "free"
    /\ mpc' = "join"
    /\ wake' = TRUE
    /\ UNCHANGED <<entries, cw, file, newfile, fd, total, snap, wpc, shutting, adds>>

DeallocJoin ==
    /\ mpc = "join" /\ wpc = "done"
    /\ mpc' = "freed"
    /\ entries' = [k \in Keys |-> NoEntry]
    /\ cw' = NoWrite
    /\ fd' = FALSE
    /\ UNCHANGED <<file, newfile, total, snap, wpc, wake, shutting, adds>>
-----------------------------------------------------------------------------
(* The writer thread.                                                      *)

(* find_hole(): the first gap, in file order, between two consecutive      *)
(* entries that is large enough; -1 when there is none.  The gap before    *)
(* the first entry is not looked at.  (Entries at one offset are sorted in *)
(* any order.)                                                             *)
Placed(es) == {k \in Live(es) : es[k].pos >= 0 /\ es[k].sz > 0}

Follows(es, a, b) ==
    /\ es[a].pos < es[b].pos
    /\ \A c \in Placed(es) : ~(es[a].pos < es[c].pos /\ es[c].pos < es[b].pos)

BeforeHole(es, required) ==
    {a \in Placed(es) : \E b \in Placed(es) :
        Follows(es, a, b) /\ es[b].pos - EndOf(es[a]) >= required}

Holes(es, required) ==
    LET C == BeforeHole(es, required) IN
    IF C = {} THEN {-1}
    ELSE {EndOf(es[a]) : a \in {b \in C : \A c \in C : es[b].pos <= es[c].pos}}

(* A dirty entry that lost its data is written off as empty.               *)
Abandoned(es) == {k \in Dirty(es) : es[k].data = Null}

WrittenOff(es, D) ==
    [k \in Keys |->
        IF k \in D THEN [es[k] EXCEPT !.written = TRUE, !.pos = 0, !.sz = 0]
        ELSE es[k]]

TakeData(es, k) == [es EXCEPT ![k].data = Null]

TakenWrite(es, k, p) ==
    [key |-> k, data |-> es[k].data, sz |-> es[k].sz,
     pos |-> p, ek |-> es[k].ek, done |-> 0]

(* What the writer does when nothing is left to write.                     *)
AfterLast(es) == IF Live(es) = {} THEN "truncate" ELSE "poll"

(* The rest of find_cache_entry_to_write() after the compaction: entries    *)
(* are visited in hash order until one can be written.                     *)
SelectEntry(es) ==
    \E D \in SUBSET Abandoned(es) :
        LET rest == WrittenOff(es, D) IN
        \/ \E k \in Dirty(es) \ Abandoned(es) :
                /\ \E p \in Holes(rest, rest[k].sz) : cw' = TakenWrite(rest, k, p)
                /\ entries' = TakeData(rest, k)
                /\ wpc' = "write"
        \/ /\ Dirty(rest) = {}
           /\ entries' = rest
           /\ UNCHANGED cw
           /\ wpc' = AfterLast(rest)

(* The file is more than half holes, and defrag() finds work to do.        *)
NeedsDefrag ==
    /\ total > 0 /\ FileSize > 0 /\ FileSize > 2 * total
    /\ Live(entries) # {}

(* What defrag() remembers of an entry that is on disk.                    *)
\* Mutant: the entry at the start of the file is not copied.
SnapshotNotFirst ==
    [k \in Keys |->
        IF k \in Placed(entries) /\ entries[k].pos > 0
        THEN [old |-> entries[k].pos, sz |-> entries[k].sz, new |-> -1]
        ELSE NoEntry]

Snapshot ==
    [k \in Keys |->
        IF k \in Placed(entries)
        THEN [old |-> entries[k].pos, sz |-> entries[k].sz, new |-> -1]
        ELSE NoEntry]

WriterExit ==
    /\ wpc = "top" /\ shutting
    /\ wpc' = "done"
    /\ UNCHANGED <<entries, cw, file, newfile, fd, total, snap, mpc, wake, shutting, adds>>

WriterFind ==
    /\ wpc = "top" /\ ~shutting
    /\ ~NeedsDefrag \/ WriteMayFail    \* the second file may not open
    /\ SelectEntry(entries)
    /\ UNCHANGED <<file, newfile, fd, total, snap, mpc, wake, shutting, adds>>

(* defrag() up to the point where it releases the lock.                    *)
DefragBegin ==
    /\ wpc = "top" /\ ~shutting
    /\ NeedsDefrag
    /\ snap' = Snapshot
    /\ wpc' = "defrag"
    /\ UNCHANGED <<entries, cw, file, newfile, fd, total, mpc, wake, shutting, adds>>

Remembered == {k \in Keys : snap[k] # NoEntry}

Uncopied == {k \in Remembered : snap[k].new = -1}

(* Copying one entry; the hash table's own order decides which is next, so *)
(* any may be.                                                             *)
DefragCopy(k) ==
    /\ wpc = "defrag"
    /\ k \in Uncopied
    /\ snap[k].old + snap[k].sz <= Len(file)
    /\ newfile' = newfile \o SubSeq(file, snap[k].old + 1, snap[k].old + snap[k].sz)
    /\ snap' = [snap EXCEPT ![k].new = Len(newfile)]
    /\ UNCHANGED <<entries, cw, file, fd, total, wpc, mpc, wake, shutting, adds>>

\* Mutant: the offset in the old file is kept.
UnmovedEntries ==
    [k \in Keys |->
        IF k \in Remembered /\ entries[k] # NoEntry
        THEN [entries[k] EXCEPT !.pos = snap[k].old]
        ELSE entries[k]]

MovedEntries ==
    [k \in Keys |->
        IF k \in Remembered /\ entries[k] # NoEntry
        THEN [entries[k] EXCEPT !.pos = snap[k].new]
        ELSE entries[k]]

EndDefrag ==
    /\ snap' = NoSnapshot
    /\ newfile' = <<>>
    /\ UNCHANGED <<fd, total, mpc, wake, shutting, adds>>

(* The lock is taken again: switch to the new file, move every entry that  *)
(* still has its key, and choose a dirty entry in the same critical        *)
(* section.                                                                *)
DefragSwitch ==
    /\ wpc = "defrag" /\ Uncopied = {}
    /\ file' = newfile
    /\ SelectEntry(MovedEntries)
    /\ EndDefrag

(* A region that runs past the end of the file cannot be copied.           *)
DefragFailed ==
    /\ wpc = "defrag"
    /\ \/ WriteMayFail
       \/ \E k \in Uncopied : snap[k].old + snap[k].sz > Len(file)
    /\ SelectEntry(entries)
    /\ UNCHANGED file
    /\ EndDefrag

(* write_dirty_entry(): the entry goes at the end of the file when no hole *)
(* was found; each pwrite() writes some of what is left.                   *)
WritePos == IF cw.pos < 0 THEN FileSize ELSE cw.pos

ZeroCell == CellOf(Null, 0, 0)    \* what a write past the end leaves before it

WrittenFile(pos, n) ==
    LET end == pos + cw.done + n IN
    [i \in 1..(IF end > Len(file) THEN end ELSE Len(file)) |->
        IF i > end - n /\ i <= end THEN CellOf(cw.data, cw.ek, i - pos)
        ELSE IF i <= Len(file) THEN file[i] ELSE ZeroCell]

WriterWrite(n) ==
    /\ wpc = "write"
    /\ n \in 1..(cw.sz - cw.done)
    /\ file' = WrittenFile(WritePos, n)
    /\ cw' = [cw EXCEPT !.pos = WritePos, !.done = @ + n]
    /\ UNCHANGED <<entries, newfile, fd, total, snap, wpc, mpc, wake, shutting, adds>>

WriterWritten ==
    /\ wpc = "write" /\ cw.done = cw.sz
    /\ cw' = [cw EXCEPT !.pos = WritePos]
    /\ wpc' = "retire"
    /\ UNCHANGED <<entries, file, newfile, fd, total, snap, mpc, wake, shutting, adds>>

\* Mutant: the offset of a failed write is kept.
WriterFailedPlaced ==
    /\ wpc = "write" /\ cw.done < cw.sz /\ WriteMayFail
    /\ cw' = [cw EXCEPT !.pos = WritePos]
    /\ wpc' = "retire"
    /\ UNCHANGED <<entries, file, newfile, fd, total, snap, mpc, wake, shutting, adds>>

WriterFailed ==
    /\ wpc = "write" /\ cw.done < cw.sz /\ WriteMayFail
    /\ cw' = [cw EXCEPT !.pos = -1]
    /\ wpc' = "retire"
    /\ UNCHANGED <<entries, file, newfile, fd, total, snap, mpc, wake, shutting, adds>>

(* retire_currently_writing(): the entry is looked up again by its key.    *)
Retired(es) ==
    IF es[cw.key] = NoEntry THEN es
    ELSE [es EXCEPT ![cw.key].written = TRUE, ![cw.key].pos = cw.pos]

WriterRetire ==
    /\ wpc = "retire"
    /\ entries' = Retired(entries)
    /\ cw' = NoWrite
    /\ wpc' = "top"
    /\ UNCHANGED <<file, newfile, fd, total, snap, mpc, wake, shutting, adds>>

(* The entries were counted in an earlier critical section.                *)
WriterTruncate ==
    /\ wpc = "truncate"
    /\ file' = IF fd THEN <<>> ELSE file
    /\ wpc' = "poll"
    /\ UNCHANGED <<entries, cw, newfile, fd, total, snap, mpc, wake, shutting, adds>>

WriterPoll ==
    /\ wpc = "poll" /\ wake
    /\ wake' = FALSE
    /\ wpc' = "top"
    /\ UNCHANGED <<entries, cw, file, newfile, fd, total, snap, mpc, shutting, adds>>
-----------------------------------------------------------------------------
Client ==
    \/ StartThread \/ OpenFile \/ ClearAll \/ WaitForWrite \/ Wakeup
    \/ Dealloc \/ DeallocWakeup \/ DeallocJoin
    \/ \E k \in Keys : RemoveEntry(k) \/ GetIntoRam(k)
    \/ \E k \in Keys, v \in Values : Add(k, v)
    \/ \E S \in SUBSET Keys : ClearFromRam(S)

Writer ==
    \/ WriterExit \/ WriterFind \/ DefragBegin \/ DefragSwitch \/ DefragFailed
    \/ WriterWritten \/ WriterFailed \/ WriterRetire \/ WriterTruncate
    \/ WriterPoll
    \/ \E k \in Keys : DefragCopy(k)
    \/ \E n \in 1..cw.sz : WriterWrite(n)

Next == (Client \/ Writer) /\ UNCHANGED usage

Spec == Init /\ [][Next]_vars

(* The scheduler runs the writer, and the client returns from its calls.   *)
Fairness == WF_changing(Writer) /\ WF_changing(Wakeup) /\ WF_changing(DeallocWakeup)
            /\ WF_changing(DeallocJoin)

FairSpec == Spec /\ Fairness
-----------------------------------------------------------------------------
(* Properties.                                                             *)

(* Whatever the writer thread is doing, a look-up returns the value of the *)
(* last add(), KeyError after a remove() or clear(), or OSError once a     *)
(* write of it failed; never other bytes (read_from_disk_cache).           *)
Promise == INSTANCE CacheMap WITH
    contents <- [k \in Keys |-> Lookup(k)],
    MayLose <- WriteMayFail

Refines == Promise!Spec

(* find_cache_entry_to_write() may find a dirty entry without data, and    *)
(* then throws it away; only the entry being written may be in that state, *)
(* which the writer cannot meet.                                           *)
DirtyDataKept ==
    \A k \in Dirty(entries) :
        entries[k].data = Null =>
            /\ InFlight(k) /\ wpc \in {"write", "retire"}
            /\ cw.sz = entries[k].sz /\ cw.ek = entries[k].ek

(* The entries that can be read from the file only.                        *)
OnDisk == {k \in Live(entries) :
    /\ entries[k].written /\ entries[k].data = Null
    /\ entries[k].pos >= 0 /\ entries[k].sz > 0}

Apart(p, n, q, m) == p + n <= q \/ q + m <= p

(* find_hole() and defrag() never give two entries the same bytes, nor     *)
(* bytes to the write in progress that a stored entry still needs.         *)
RegionsApart ==
    /\ \A k \in OnDisk :
        /\ EndOf(entries[k]) <= Len(file)
        /\ \A l \in OnDisk \ {k} :
            Apart(entries[k].pos, entries[k].sz, entries[l].pos, entries[l].sz)
    /\ cw.pos >= 0 => \A k \in OnDisk :
            Apart(entries[k].pos, entries[k].sz, cw.pos, cw.sz)

(* A compaction copies the same bytes an entry will be read from later,    *)
(* although add(), remove() and clear() run while it copies: an entry that *)
(* is still on disk has not moved since the snapshot was taken.            *)
SnapshotValid ==
    wpc = "defrag" => \A k \in OnDisk :
        /\ snap[k] # NoEntry
        /\ snap[k].old = entries[k].pos /\ snap[k].sz = entries[k].sz

(* total_size, which decides when to compact and what total_size() tells   *)
(* the caller, is the size of the data added and not removed, as long as   *)
(* no key is added twice.                                                  *)
TotalIsSum ==
    mpc # "freed" /\ "readd" \notin usage =>
        total = MapThenSumSet(LAMBDA k : entries[k].sz, Live(entries))

(* Data is safe on its way to the file and in it: the writer never throws  *)
(* a value away, and neither the reuse of holes nor a compaction touches   *)
(* bytes that an entry will be read from.                                  *)
StoreSound == DirtyDataKept /\ RegionsApart /\ SnapshotValid

(* Every add() is eventually on disk: no wake-up is lost between the event *)
(* fd, drained outside the lock, and the critical sections; it is what     *)
(* wait_for_write() waits for.                                             *)
EveryAddIsWritten == \A k \in Keys : k \in Dirty(entries) ~> k \notin Dirty(entries)

(* A cache that stays empty gives the disk space back.                     *)
EmptyCacheShrinks == Live(entries) = {} ~> FileSize = 0 \/ Live(entries) # {}

(* dealloc() joins the thread whatever the thread is doing.                *)
DeallocReturns == shutting ~> mpc = "freed"

(* The three together: neither a value nor poll() nor join() waits for     *)
(* ever.                                                                   *)
NothingWaits == EveryAddIsWritten /\ EmptyCacheShrinks /\ DeallocReturns
=============================================================================
