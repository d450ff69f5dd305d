------------------------------ MODULE ScreenIO -------------------------------
(***************************************************************************)
(* The two byte buffers of a Screen, between its child and the parser.     *)
(* read_bytes() (smelly/child-monitor.c) fills read_buf from the pty in    *)
(* two critical sections with the read() between them outside the lock;    *)
(* do_parse() empties it.  schedule_write_to_child() appends to write_buf, *)
(* which grows and shrinks; write_to_child() writes it to the pty.         *)
(*                                                                         *)
(* The child stays in the table (module ChildMonitor has its life), and a  *)
(* byte is its position in the stream.                                     *)
(***************************************************************************)
EXTENDS Integers, Sequences

CONSTANTS
    BufSize,     \* READ_BUF_SZ
    MaxOutput,   \* bound on what the child prints
    SmallBuf,    \* BUFSIZ, the size write_buf starts with and shrinks to
    WriteLimit,  \* 100 MB, the most write_buf may hold
    Writes,      \* sizes of the data given to schedule_write_to_child()
    MaxWrites,   \* bound on the number of those calls
    PtyRoom,     \* what the pty takes before the child reads
    WriteMayFail \* write() may fail

ASSUME SizesAssumption ==
    /\ {BufSize, SmallBuf, WriteLimit, PtyRoom} \subseteq Nat \ {0}
    /\ SmallBuf <= WriteLimit
    /\ {MaxOutput, MaxWrites} \subseteq Nat /\ Writes \subseteq Nat
    /\ WriteMayFail \in BOOLEAN

VARIABLES
    \* the child and the kernel
    pty,       \* output not read yet
    room,      \* input the pty still takes
    \* the screen
    rbuf,      \* read_buf, all of it
    rsz,       \* read_buf_sz
    wbuf,      \* what write_buf holds
    wcap,      \* write_buf_sz
    \* the I/O thread
    pc,        \* control point
    mask,      \* events: subset of {"in", "out"}
    revents,   \* likewise
    orig,      \* orig_sz
    len,       \* bytes the last read() returned
    iowake,    \* the event fd is readable
    \* history
    printed,   \* everything the child printed
    parsed,    \* everything the parser was given
    queued,    \* everything schedule_write accepted and no error discarded
    written,   \* everything write() took
    calls      \* schedule_write calls so far

read == <<pty, rbuf, rsz, orig, len, printed, parsed>>
write == <<room, wbuf, wcap, queued, written, calls>>
vars == <<read, write, pc, mask, revents, iowake>>

Stale == 0

(* The memcpy() into write_buf stays inside it, and the buffer inside its  *)
(* limit.                                                                  *)
WriteFits == Len(wbuf) <= wcap

TypeOK ==
    /\ pty \in Seq(Nat) /\ room \in 0..PtyRoom
    /\ rbuf \in [1..BufSize -> Nat] /\ rsz \in 0..BufSize
    /\ wbuf \in Seq(Nat) /\ wcap \in SmallBuf..WriteLimit /\ WriteFits
    /\ pc \in {"events", "poll", "read", "reading", "commit", "write"}
    /\ mask \subseteq {"in", "out"} /\ revents \subseteq {"in", "out"}
    /\ orig \in 0..BufSize /\ len \in 0..BufSize
    /\ iowake \in BOOLEAN
    /\ {printed, parsed, queued, written} \subseteq Seq(Nat)
    /\ calls \in Nat

Init ==
    /\ pty = <<>> /\ room = PtyRoom
    /\ rbuf = [i \in 1..BufSize |-> Stale] /\ rsz = 0
    /\ wbuf = <<>> /\ wcap = SmallBuf
    /\ pc = "events" /\ mask = {} /\ revents = {} /\ orig = 0 /\ len = 0
    /\ iowake = FALSE
    /\ printed = <<>> /\ parsed = <<>> /\ queued = <<>> /\ written = <<>> /\ calls = 0
-----------------------------------------------------------------------------
(* The child.                                                              *)

ChildPrints ==
    LET byte == Len(printed) + 1 IN
    /\ byte <= MaxOutput
    /\ printed' = Append(printed, byte)
    /\ pty' = Append(pty, byte)
    /\ UNCHANGED <<rbuf, rsz, orig, len, parsed, write, pc, mask, revents, iowake>>

ChildReads ==
    /\ room < PtyRoom /\ room' = PtyRoom
    /\ UNCHANGED <<read, wbuf, wcap, queued, written, calls, pc, mask, revents, iowake>>
-----------------------------------------------------------------------------
(* The main thread.                                                        *)

(* do_parse(), under read_buf_lock: everything, and the I/O thread is      *)
(* woken if it had stopped polling for output.                             *)
NotRearmed == iowake
Rearmed == iowake \/ rsz >= BufSize

Parse ==
    /\ rsz > 0
    /\ parsed' = parsed \o SubSeq(rbuf, 1, rsz)
    /\ rsz' = 0
    /\ iowake' = Rearmed
    /\ UNCHANGED <<pty, rbuf, orig, len, printed, write, pc, mask, revents>>

(* schedule_write_to_child_generic(), under both locks.                    *)
TooMuch(sz) == Len(wbuf) + sz > WriteLimit

Grown(sz) == IF wcap - Len(wbuf) < sz THEN Len(wbuf) + sz ELSE wcap

ShrunkEarly(cap, used) == IF cap > SmallBuf THEN SmallBuf ELSE cap
Shrunk(cap, used) == IF cap > SmallBuf /\ used < SmallBuf THEN SmallBuf ELSE cap

WakeWriterNever == UNCHANGED iowake
WakeWriter == iowake' = (iowake \/ wbuf' # <<>>)

(* Data that does not fit and would pass the limit is refused as a whole.  *)
RefuseWrite(sz) ==
    /\ calls < MaxWrites /\ calls' = calls + 1
    /\ wcap - Len(wbuf) < sz /\ TooMuch(sz)
    /\ UNCHANGED <<read, room, wbuf, wcap, queued, written, pc, mask, revents, iowake>>

ScheduleWrite(sz) ==
    LET data == [i \in 1..sz |-> Len(queued) + i] IN
    /\ calls < MaxWrites /\ calls' = calls + 1
    /\ wcap - Len(wbuf) >= sz \/ ~TooMuch(sz)
    /\ wbuf' = wbuf \o data
    /\ wcap' = Shrunk(Grown(sz), Len(wbuf'))
    /\ queued' = queued \o data
    /\ WakeWriter
    /\ UNCHANGED <<read, room, written, pc, mask, revents>>
-----------------------------------------------------------------------------
(* The I/O thread: one turn.                                               *)

IoEvents ==
    /\ pc = "events"
    /\ mask' = (IF rsz < BufSize THEN {"in"} ELSE {}) \cup (IF wbuf # <<>> THEN {"out"} ELSE {})
    /\ pc' = "poll"
    /\ UNCHANGED <<read, write, revents, iowake>>

Ready ==
    mask \cap ((IF pty # <<>> THEN {"in"} ELSE {}) \cup (IF room > 0 THEN {"out"} ELSE {}))

AfterPoll == IF "in" \in revents' THEN "read" ELSE IF "out" \in revents' THEN "write" ELSE "events"
AfterRead == IF "out" \in revents THEN "write" ELSE "events"

IoPoll ==
    /\ pc = "poll" /\ (iowake \/ Ready # {})
    /\ revents' = Ready
    /\ iowake' = FALSE
    /\ mask' = {}
    /\ pc' = AfterPoll
    /\ UNCHANGED <<read, write>>

(* read_bytes(), first critical section.                                   *)
IoReadBegin ==
    /\ pc = "read"
    /\ orig' = rsz
    /\ pc' = IF rsz >= BufSize THEN AfterRead ELSE "reading"
    /\ UNCHANGED <<pty, rbuf, rsz, len, printed, parsed, write, mask, revents, iowake>>

(* read() with no lock held: behind what was in the buffer.                *)
IoRead(n) ==
    /\ pc = "reading"
    /\ n <= Len(pty) /\ n <= BufSize - orig
    /\ rbuf' = [i \in 1..BufSize |-> IF i - orig \in 1..n THEN pty[i - orig] ELSE rbuf[i]]
    /\ pty' = SubSeq(pty, n + 1, Len(pty))
    /\ len' = n
    /\ pc' = "commit"
    /\ UNCHANGED <<rsz, orig, printed, parsed, write, mask, revents, iowake>>

(* read_bytes(), second critical section: the parser may have emptied the  *)
(* buffer meanwhile.                                                       *)
Unmoved == rbuf
Moved ==
    [i \in 1..BufSize |-> IF i - rsz \in 1..len THEN rbuf[i - rsz + orig] ELSE rbuf[i]]

IoReadCommit ==
    /\ pc = "commit"
    /\ rbuf' = IF orig # rsz THEN Moved ELSE rbuf
    /\ rsz' = rsz + len
    /\ len' = 0 /\ orig' = 0
    /\ pc' = AfterRead
    /\ UNCHANGED <<pty, printed, parsed, write, mask, revents, iowake>>

(* write_to_child() holds write_buf_lock to the end.                       *)
Kept(n) == SubSeq(wbuf, n + 1, Len(wbuf))

IoWrite ==
    LET n == IF room < Len(wbuf) THEN room ELSE Len(wbuf) IN
    /\ pc = "write"
    /\ written' = written \o SubSeq(wbuf, 1, n)
    /\ wbuf' = Kept(n)
    /\ room' = room - n
    /\ pc' = "events"
    /\ UNCHANGED <<read, wcap, queued, calls, mask, revents, iowake>>

(* write() fails after n bytes: the rest is discarded.                     *)
IoWriteFails(n) ==
    /\ pc = "write" /\ WriteMayFail
    /\ n <= room /\ n < Len(wbuf)
    /\ written' = written \o SubSeq(wbuf, 1, n)
    /\ queued' = written'
    /\ wbuf' = <<>>
    /\ room' = room - n
    /\ pc' = "events"
    /\ UNCHANGED <<read, wcap, calls, mask, revents, iowake>>
-----------------------------------------------------------------------------
IoThread ==
    \/ IoEvents \/ IoPoll \/ IoReadBegin \/ IoReadCommit \/ IoWrite
    \/ \E n \in 1..BufSize : IoRead(n)
    \/ \E n \in 0..PtyRoom : IoWriteFails(n)

Next ==
    \/ ChildPrints \/ ChildReads \/ Parse \/ IoThread
    \/ \E sz \in Writes : ScheduleWrite(sz) \/ RefuseWrite(sz)

Spec == Init /\ [][Next]_vars

(* Both threads run and the child reads its input.                         *)
FairSpec == Spec /\ WF_vars(IoThread) /\ WF_vars(Parse) /\ WF_vars(ChildReads)
-----------------------------------------------------------------------------
(* Properties.                                                             *)

(* The parser sees the output of the child in order, each byte once, for   *)
(* every interleaving of the unlocked read() with the parser.              *)
Output == INSTANCE ByteStream WITH
    accepted <- printed, delivered <- parsed, MayDiscard <- FALSE
OutputInOrder == Output!Spec

(* The child sees what was scheduled in order, each byte once; a failing   *)
(* write() loses all that is queued, never a part from the middle.         *)
Input == INSTANCE ByteStream WITH
    accepted <- queued, delivered <- written, MayDiscard <- WriteMayFail
InputInOrder == Input!Spec

(* The two directions of the pty.                                          *)
StreamsInOrder == OutputInOrder /\ InputInOrder

(* poll() never waits for a pty it was not asked to write to while there   *)
(* is something to write.                                                  *)
WriteNotForgotten == pc = "poll" /\ wbuf # <<>> => "out" \in mask \/ iowake

(* All output reaches the parser, all that was scheduled the child.        *)
OutputArrives == \A i \in 1..MaxOutput : Len(printed) >= i ~> Len(parsed) >= i
InputArrives == wbuf # <<>> ~> wbuf = <<>>
EverythingArrives == OutputArrives /\ InputArrives
=============================================================================
