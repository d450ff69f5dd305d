--------------------------- MODULE ScreenIO_proofs ---------------------------
(***************************************************************************)
(* Proofs about ScreenIO for any buffer sizes: the types, the write        *)
(* buffer, and that each direction implements ByteStream.                  *)
(***************************************************************************)
EXTENDS ScreenIO, SequenceTheorems, TLAPS

-----------------------------------------------------------------------------
(* Types.  OneRead is what makes the unlocked read() safe: while it runs   *)
(* the buffer holds what it held at the start or nothing.                  *)

ReadTyped ==
    /\ pty \in Seq(Nat) /\ printed \in Seq(Nat) /\ parsed \in Seq(Nat)
    /\ rbuf \in [1..BufSize -> Nat] /\ rsz \in 0..BufSize
    /\ orig \in 0..BufSize /\ len \in 0..BufSize

WriteTyped ==
    /\ room \in 0..PtyRoom
    /\ wbuf \in Seq(Nat) /\ queued \in Seq(Nat) /\ written \in Seq(Nat)
    /\ wcap \in SmallBuf..WriteLimit
    /\ calls \in Nat

ControlTyped ==
    /\ pc \in {"events", "poll", "read", "reading", "commit", "write"}
    /\ mask \subseteq {"in", "out"} /\ revents \subseteq {"in", "out"}
    /\ iowake \in BOOLEAN

OneRead ==
    /\ pc \in {"reading", "commit"} => orig = rsz \/ rsz = 0
    /\ pc = "commit" => orig + len <= BufSize
    /\ pc # "commit" => len = 0

LEMMA NextControl == ControlTyped /\ [Next]_vars => ControlTyped'
<1> SUFFICES ASSUME ControlTyped, [Next]_vars PROVE ControlTyped'
  OBVIOUS
<1> USE DEF ControlTyped
<1>1. CASE ChildPrints
  BY <1>1 DEF ChildPrints
<1>2. CASE ChildReads
  BY <1>2 DEF ChildReads
<1>3. CASE Parse
  BY <1>3 DEF Parse, Rearmed
<1>4. CASE IoEvents
  BY <1>4 DEF IoEvents
<1>5. CASE IoPoll
  BY <1>5 DEF IoPoll, Ready, AfterPoll
<1>6. CASE IoReadBegin
  BY <1>6 DEF IoReadBegin, AfterRead
<1>7. CASE IoReadCommit
  BY <1>7 DEF IoReadCommit, AfterRead
<1>8. CASE IoWrite
  BY <1>8 DEF IoWrite
<1>9. ASSUME NEW n \in 1..BufSize, IoRead(n) PROVE ControlTyped'
  BY <1>9 DEF IoRead
<1>10. ASSUME NEW n \in 0..PtyRoom, IoWriteFails(n) PROVE ControlTyped'
  BY <1>10 DEF IoWriteFails
<1>11. ASSUME NEW sz \in Writes, ScheduleWrite(sz) PROVE ControlTyped'
  BY <1>11 DEF ScheduleWrite, WakeWriter
<1>12. ASSUME NEW sz \in Writes, RefuseWrite(sz) PROVE ControlTyped'
  BY <1>12 DEF RefuseWrite
<1>13. CASE UNCHANGED vars
  BY <1>13 DEF vars
<1> QED
  BY <1>1, <1>2, <1>3, <1>4, <1>5, <1>6, <1>7, <1>8, <1>9, <1>10, <1>11, <1>12, <1>13
  DEF Next, IoThread

(* What a part of a sequence, or of the read buffer, is.                   *)
LEMMA PartOfSeq ==
    ASSUME NEW s \in Seq(Nat), NEW m \in 1..(Len(s) + 1), NEW n \in (m - 1)..Len(s)
    PROVE  /\ SubSeq(s, m, n) \in Seq(Nat)
           /\ Len(SubSeq(s, m, n)) = n - m + 1
           /\ \A i \in 1..(n - m + 1) : SubSeq(s, m, n)[i] = s[m + i - 1]
<1>1. \A i \in m..n : s[i] \in Nat
  BY ElementOfSeq
<1> QED
  BY <1>1, SubSeqProperties, LenProperties

LEMMA SplitSeq ==
    ASSUME NEW s \in Seq(Nat), NEW n \in 0..Len(s)
    PROVE  /\ SubSeq(s, 1, n) \in Seq(Nat)
           /\ SubSeq(s, n + 1, Len(s)) \in Seq(Nat)
           /\ Len(SubSeq(s, 1, n)) = n
           /\ Len(SubSeq(s, n + 1, Len(s))) = Len(s) - n
           /\ SubSeq(s, 1, n) \o SubSeq(s, n + 1, Len(s)) = s
<1>0. Len(s) \in Nat /\ n \in Nat
  BY LenProperties
<1>1. /\ n \in (1 - 1)..Len(s) /\ 1 \in 1..(Len(s) + 1)
      /\ n + 1 \in 1..(Len(s) + 1) /\ Len(s) \in (n + 1 - 1)..Len(s)
      /\ Len(s) \in n..Len(s)
  BY <1>0
<1>2. SubSeq(s, 1, n) \in Seq(Nat) /\ Len(SubSeq(s, 1, n)) = n - 1 + 1
  BY <1>1, PartOfSeq
<1>3. SubSeq(s, n + 1, Len(s)) \in Seq(Nat) /\ Len(SubSeq(s, n + 1, Len(s))) = Len(s) - (n + 1) + 1
  BY <1>1, PartOfSeq
<1>4. SubSeq(s, 1, n) \o SubSeq(s, n + 1, Len(s)) = SubSeq(s, 1, Len(s))
  BY <1>1, ConcatAdjacentSubSeq
<1>5. SubSeq(s, 1, Len(s)) = s
  BY SubSeqFull
<1>6. n - 1 + 1 = n /\ Len(s) - (n + 1) + 1 = Len(s) - n
  BY <1>0
<1> QED
  BY <1>2, <1>3, <1>4, <1>5, <1>6

LEMMA PartOfBuffer ==
    ASSUME NEW b \in [1..BufSize -> Nat], NEW n \in 0..BufSize
    PROVE  /\ SubSeq(b, 1, n) \in Seq(Nat)
           /\ Len(SubSeq(b, 1, n)) = n
           /\ \A i \in 1..n : SubSeq(b, 1, n)[i] = b[i]
<1>1. n \in Nat /\ BufSize \in Nat
  BY SizesAssumption
<1>2. \A i \in 1..n : b[i] \in Nat
  BY <1>1
<1> QED
  BY <1>1, <1>2, SubSeqProperties

LEMMA NextRead == ReadTyped /\ OneRead /\ ControlTyped /\ [Next]_vars => ReadTyped' /\ OneRead'
<1> SUFFICES ASSUME ReadTyped, OneRead, ControlTyped, [Next]_vars PROVE ReadTyped' /\ OneRead'
  OBVIOUS
<1> USE SizesAssumption DEF ReadTyped, OneRead, read
<1>1. CASE ChildPrints
  <2>1. Len(printed) + 1 \in Nat
    BY LenProperties
  <2>2. printed' \in Seq(Nat) /\ pty' \in Seq(Nat)
    BY <1>1, <2>1, AppendProperties DEF ChildPrints
  <2> QED
    BY <1>1, <2>2 DEF ChildPrints
<1>2. CASE ChildReads
  BY <1>2 DEF ChildReads
<1>3. CASE Parse
  <2>1. parsed' \in Seq(Nat)
    BY <1>3, PartOfBuffer, ConcatProperties DEF Parse
  <2> QED
    BY <1>3, <2>1 DEF Parse
<1>4. CASE IoEvents
  BY <1>4 DEF IoEvents
<1>5. CASE IoPoll
  BY <1>5 DEF IoPoll, AfterPoll
<1>6. CASE IoReadBegin
  BY <1>6 DEF IoReadBegin, AfterRead
<1>7. CASE IoReadCommit
  <2>1. rsz + len \in 0..BufSize
    BY <1>7 DEF IoReadCommit
  <2>2. rbuf' \in [1..BufSize -> Nat]
    <3>1. ASSUME NEW i \in 1..BufSize, i - rsz \in 1..len, orig # rsz
          PROVE  i - rsz + orig \in 1..BufSize
      BY <1>7, <3>1 DEF IoReadCommit
    <3>2. orig # rsz => Moved \in [1..BufSize -> Nat]
      BY <3>1 DEF Moved
    <3> QED
      BY <1>7, <3>2 DEF IoReadCommit
  <2>3. pc' # "commit" /\ pc' # "reading"
    BY <1>7 DEF IoReadCommit, AfterRead
  <2> QED
    BY <1>7, <2>1, <2>2, <2>3 DEF IoReadCommit
<1>8. CASE IoWrite
  BY <1>8 DEF IoWrite
<1>9. ASSUME NEW n \in 1..BufSize, IoRead(n) PROVE ReadTyped' /\ OneRead'
  <2>1. n \in 0..Len(pty) /\ Len(pty) \in Nat /\ n <= BufSize - orig
    BY <1>9, LenProperties DEF IoRead
  <2>2. pty' \in Seq(Nat)
    <3>1. n + 1 \in 1..(Len(pty) + 1) /\ Len(pty) \in (n + 1 - 1)..Len(pty)
      BY <2>1
    <3>2. pty \in Seq(Nat)
      OBVIOUS
    <3>3. SubSeq(pty, n + 1, Len(pty)) \in Seq(Nat)
      BY ONLY <3>1, <3>2, PartOfSeq, n \in 1..BufSize, SizesAssumption
    <3> QED
      BY <1>9, <3>3 DEF IoRead
  <2>3. \A i \in 1..BufSize : i - orig \in 1..n => pty[i - orig] \in Nat
    <3> SUFFICES ASSUME NEW i \in 1..BufSize, i - orig \in 1..n PROVE pty[i - orig] \in Nat
      OBVIOUS
    <3>1. i - orig \in 1..Len(pty)
      BY <2>1
    <3> QED
      BY <3>1, ElementOfSeq
  <2>4. rbuf' \in [1..BufSize -> Nat]
    <3>1. /\ rbuf \in [1..BufSize -> Nat]
          /\ rbuf' = [i \in 1..BufSize |-> IF i - orig \in 1..n THEN pty[i - orig] ELSE rbuf[i]]
      BY <1>9 DEF IoRead
    <3> QED
      BY ONLY <3>1, <2>3
  <2>5. OneRead'
    BY <1>9, <2>1 DEF IoRead
  <2>6. len' \in 0..BufSize
    BY <1>9 DEF IoRead
  <2> QED
    BY <1>9, <2>2, <2>4, <2>5, <2>6 DEF IoRead
<1>10. ASSUME NEW n \in 0..PtyRoom, IoWriteFails(n) PROVE ReadTyped' /\ OneRead'
  BY <1>10 DEF IoWriteFails
<1>11. ASSUME NEW sz \in Writes, ScheduleWrite(sz) PROVE ReadTyped' /\ OneRead'
  BY <1>11 DEF ScheduleWrite
<1>12. ASSUME NEW sz \in Writes, RefuseWrite(sz) PROVE ReadTyped' /\ OneRead'
  BY <1>12 DEF RefuseWrite
<1>13. CASE UNCHANGED vars
  BY <1>13 DEF vars
<1> QED
  BY <1>1, <1>2, <1>3, <1>4, <1>5, <1>6, <1>7, <1>8, <1>9, <1>10, <1>11, <1>12, <1>13
  DEF Next, IoThread

-----------------------------------------------------------------------------
(* The write buffer.                                                       *)

(* Nothing of what was accepted is lost or reordered between the two ends. *)
InputKept == queued = written \o wbuf


WriteInv == WriteTyped /\ WriteFits /\ InputKept

LEMMA NextWrite == WriteInv /\ [Next]_vars => WriteInv'
<1> SUFFICES ASSUME WriteInv, [Next]_vars PROVE WriteInv'
  OBVIOUS
<1> USE SizesAssumption DEF WriteInv, WriteTyped, WriteFits, InputKept, write
<1>0. Len(wbuf) \in Nat
  BY LenProperties
<1>1. CASE ChildPrints
  BY <1>1 DEF ChildPrints
<1>2. CASE ChildReads
  BY <1>2 DEF ChildReads
<1>3. CASE Parse
  BY <1>3 DEF Parse
<1>4. CASE IoEvents
  BY <1>4 DEF IoEvents
<1>5. CASE IoPoll
  BY <1>5 DEF IoPoll
<1>6. CASE IoReadBegin
  BY <1>6 DEF IoReadBegin
<1>7. CASE IoReadCommit
  BY <1>7 DEF IoReadCommit
<1>8. CASE IoWrite
  <2> DEFINE n == IF room < Len(wbuf) THEN room ELSE Len(wbuf)
             out == SubSeq(wbuf, 1, n)
             rest == SubSeq(wbuf, n + 1, Len(wbuf))
  <2>1. n \in 0..Len(wbuf) /\ n <= room /\ n \in Nat
    BY <1>0
  <2> HIDE DEF n
  <2>2. written' = written \o out /\ wbuf' = rest /\ room' = room - n
    BY <1>8 DEF IoWrite, Kept, n
  <2>3. out \in Seq(Nat) /\ rest \in Seq(Nat) /\ Len(rest) = Len(wbuf) - n /\ out \o rest = wbuf
    BY <1>0, <2>1, SplitSeq
  <2>4. written' \in Seq(Nat)
    BY <2>2, <2>3, ConcatProperties
  <2>5. written' \o wbuf' = queued
    <3>0. written \in Seq(Nat) /\ out \in Seq(Nat) /\ rest \in Seq(Nat)
      BY <2>3
    <3> HIDE DEF out, rest
    <3>1. (written \o out) \o rest = written \o (out \o rest)
      BY ONLY <3>0, ConcatAssociative
    <3> QED
      BY <2>2, <2>3, <3>1
  <2>6. room - n \in 0..PtyRoom
    BY <2>1
  <2>7. Len(wbuf') <= wcap
    BY <1>0, <2>1, <2>2, <2>3
  <2> HIDE DEF out, rest
  <2> QED
    BY <1>8, <2>2, <2>3, <2>4, <2>5, <2>6, <2>7 DEF IoWrite
<1>9. ASSUME NEW n \in 1..BufSize, IoRead(n) PROVE WriteInv'
  BY <1>9 DEF IoRead
<1>10. ASSUME NEW n \in 0..PtyRoom, IoWriteFails(n) PROVE WriteInv'
  <2>1. n \in 0..Len(wbuf) /\ room - n \in 0..PtyRoom
    BY <1>0, <1>10 DEF IoWriteFails
  <2>2. SubSeq(wbuf, 1, n) \in Seq(Nat)
    BY <1>0, <2>1, SplitSeq
  <2>3. written' \in Seq(Nat)
    BY <1>10, <2>2, ConcatProperties DEF IoWriteFails
  <2>4. wbuf' = <<>> /\ wbuf' \in Seq(Nat) /\ Len(wbuf') = 0
    BY <1>10 DEF IoWriteFails
  <2>5. queued' = written' \o wbuf'
    BY <1>10, <2>3, <2>4, ConcatEmptySeq DEF IoWriteFails
  <2> QED
    BY <1>10, <2>1, <2>3, <2>4, <2>5 DEF IoWriteFails
<1>11. ASSUME NEW sz \in Writes, ScheduleWrite(sz) PROVE WriteInv'
  <2> DEFINE data == [i \in 1..sz |-> Len(queued) + i]
  <2>1. Len(queued) \in Nat /\ sz \in Nat
    BY LenProperties
  <2>2. data \in Seq(Nat) /\ Len(data) = sz
    BY <2>1
  <2> HIDE DEF data
  <2>3. wbuf' = wbuf \o data /\ queued' = queued \o data
    BY <1>11 DEF ScheduleWrite, data
  <2>4. wbuf' \in Seq(Nat) /\ queued' \in Seq(Nat) /\ Len(wbuf') = Len(wbuf) + sz
    BY <2>2, <2>3, ConcatProperties
  <2>5. queued' = written' \o wbuf'
    <3>1. written \in Seq(Nat) /\ wbuf \in Seq(Nat) /\ data \in Seq(Nat)
      BY <2>2
    <3>2. (written \o wbuf) \o data = written \o (wbuf \o data)
      BY ONLY <3>1, ConcatAssociative
    <3>3. written' = written
      BY <1>11 DEF ScheduleWrite
    <3> QED
      BY <2>3, <3>2, <3>3
  <2>6. Grown(sz) \in SmallBuf..WriteLimit /\ Len(wbuf) + sz <= Grown(sz)
    BY <1>0, <1>11, <2>1 DEF ScheduleWrite, Grown, TooMuch
  <2>7. wcap' \in SmallBuf..WriteLimit /\ Len(wbuf') <= wcap'
    BY <1>0, <1>11, <2>1, <2>4, <2>6 DEF ScheduleWrite, Shrunk
  <2> QED
    <3>1. UNCHANGED <<room, written>> /\ calls' \in Nat
      BY <1>11 DEF ScheduleWrite
    <3> QED
      BY <2>4, <2>5, <2>7, <3>1
<1>12. ASSUME NEW sz \in Writes, RefuseWrite(sz) PROVE WriteInv'
  BY <1>12 DEF RefuseWrite
<1>13. CASE UNCHANGED vars
  BY <1>13 DEF vars
<1> QED
  BY <1>1, <1>2, <1>3, <1>4, <1>5, <1>6, <1>7, <1>8, <1>9, <1>10, <1>11, <1>12, <1>13
  DEF Next, IoThread

LEMMA NextWatched == ControlTyped /\ WriteNotForgotten /\ [Next]_vars => WriteNotForgotten'
<1> SUFFICES ASSUME ControlTyped, WriteNotForgotten, [Next]_vars PROVE WriteNotForgotten'
  OBVIOUS
<1> USE DEF ControlTyped, WriteNotForgotten, read, write
<1>1. CASE ChildPrints
  BY <1>1 DEF ChildPrints
<1>2. CASE ChildReads
  BY <1>2 DEF ChildReads
<1>3. CASE Parse
  BY <1>3 DEF Parse, Rearmed
<1>4. CASE IoEvents
  BY <1>4 DEF IoEvents
<1>5. CASE IoPoll
  BY <1>5 DEF IoPoll, AfterPoll
<1>6. CASE IoReadBegin
  BY <1>6 DEF IoReadBegin, AfterRead
<1>7. CASE IoReadCommit
  BY <1>7 DEF IoReadCommit, AfterRead
<1>8. CASE IoWrite
  BY <1>8 DEF IoWrite
<1>9. ASSUME NEW n \in 1..BufSize, IoRead(n) PROVE WriteNotForgotten'
  BY <1>9 DEF IoRead
<1>10. ASSUME NEW n \in 0..PtyRoom, IoWriteFails(n) PROVE WriteNotForgotten'
  BY <1>10 DEF IoWriteFails
<1>11. ASSUME NEW sz \in Writes, ScheduleWrite(sz) PROVE WriteNotForgotten'
  BY <1>11 DEF ScheduleWrite, WakeWriter
<1>12. ASSUME NEW sz \in Writes, RefuseWrite(sz) PROVE WriteNotForgotten'
  BY <1>12 DEF RefuseWrite
<1>13. CASE UNCHANGED vars
  BY <1>13 DEF vars
<1> QED
  BY <1>1, <1>2, <1>3, <1>4, <1>5, <1>6, <1>7, <1>8, <1>9, <1>10, <1>11, <1>12, <1>13
  DEF Next, IoThread

-----------------------------------------------------------------------------
(* The output stream: what was printed is what was parsed, then the read   *)
(* buffer, then what read() returned and is not committed, then the pty.   *)

Numbered(s, from) == \A i \in 1..Len(s) : s[i] = from + i

StreamInv ==
    /\ Len(printed) = Len(parsed) + rsz + len + Len(pty)
    /\ Numbered(printed, 0)
    /\ Numbered(parsed, 0)
    /\ \A i \in 1..rsz : rbuf[i] = Len(parsed) + i
    /\ \A i \in 1..len : rbuf[orig + i] = Len(parsed) + rsz + i
    /\ Numbered(pty, Len(parsed) + rsz + len)

LEMMA StreamUnchanged ==
    ASSUME StreamInv, UNCHANGED <<pty, rbuf, rsz, len, printed, parsed>>, UNCHANGED orig \/ len = 0
    PROVE  StreamInv'
BY DEF StreamInv, Numbered

LEMMA NotLast ==
    ASSUME NEW k \in Nat, NEW i \in 1..(k + 1), i # k + 1
    PROVE  i \in 1..k
OBVIOUS

LEMMA NextStream ==
    ReadTyped /\ OneRead /\ StreamInv /\ [Next]_vars => StreamInv'
<1> SUFFICES ASSUME ReadTyped, OneRead, StreamInv, [Next]_vars PROVE StreamInv'
  OBVIOUS
<1> USE SizesAssumption DEF ReadTyped, read
<1>0. Len(pty) \in Nat /\ Len(parsed) \in Nat /\ Len(printed) \in Nat
  BY LenProperties
<1>1. CASE ChildPrints
  <2> DEFINE byte == Len(printed) + 1
  <2>0. byte \in Nat
    BY <1>0
  <2>1. /\ Len(printed') = byte /\ printed'[byte] = byte
        /\ \A i \in 1..Len(printed) : printed'[i] = printed[i]
    BY <1>1, <2>0, AppendProperties DEF ChildPrints
  <2>2. /\ Len(pty') = Len(pty) + 1 /\ pty'[Len(pty) + 1] = byte
        /\ \A i \in 1..Len(pty) : pty'[i] = pty[i]
    BY <1>1, <2>0, AppendProperties DEF ChildPrints
  <2>3. UNCHANGED <<rbuf, rsz, orig, len, parsed>>
    BY <1>1 DEF ChildPrints
  <2>4. Numbered(printed', 0)
    <3> SUFFICES ASSUME NEW i \in 1..Len(printed') PROVE printed'[i] = 0 + i
      BY DEF Numbered
    <3>0. i \in 1..(Len(printed) + 1)
      BY <2>1
    <3>1. CASE i = byte
      BY <2>0, <2>1, <3>1
    <3>2. CASE i # byte
      <4>1. i \in 1..Len(printed)
        BY ONLY <1>0, <3>0, <3>2, NotLast
      <4>2. printed[i] = 0 + i
        BY <4>1 DEF StreamInv, Numbered
      <4> QED
        BY <2>1, <4>1, <4>2
    <3> QED
      BY <3>1, <3>2
  <2>5. Numbered(pty', Len(parsed) + rsz + len)
    <3> SUFFICES ASSUME NEW i \in 1..Len(pty') PROVE pty'[i] = Len(parsed) + rsz + len + i
      BY DEF Numbered
    <3>0. i \in 1..(Len(pty) + 1)
      BY <2>2
    <3>1. CASE i = Len(pty) + 1
      <4>1. Len(printed) = Len(parsed) + rsz + len + Len(pty)
        BY DEF StreamInv
      <4>2. byte = Len(parsed) + rsz + len + (Len(pty) + 1)
        BY <1>0, <4>1
      <4> QED
        BY <2>2, <3>1, <4>2
    <3>2. CASE i # Len(pty) + 1
      <4>1. i \in 1..Len(pty)
        BY ONLY <1>0, <3>0, <3>2, NotLast
      <4>2. pty[i] = Len(parsed) + rsz + len + i
        BY <4>1 DEF StreamInv, Numbered
      <4> QED
        BY <2>2, <4>1, <4>2
    <3> QED
      BY <3>1, <3>2
  <2> QED
    BY <1>0, <2>1, <2>2, <2>3, <2>4, <2>5 DEF StreamInv
<1>2. CASE ChildReads
  BY <1>2, StreamUnchanged DEF ChildReads
<1>3. CASE Parse
  <2> DEFINE new == SubSeq(rbuf, 1, rsz)
  <2>1. new \in Seq(Nat) /\ Len(new) = rsz /\ \A i \in 1..rsz : new[i] = rbuf[i]
    BY PartOfBuffer
  <2> HIDE DEF new
  <2>2. parsed' = parsed \o new /\ rsz' = 0 /\ UNCHANGED <<pty, rbuf, orig, len, printed>>
    BY <1>3 DEF Parse, new
  <2>3. /\ Len(parsed') = Len(parsed) + rsz
        /\ \A i \in 1..(Len(parsed) + rsz) :
              parsed'[i] = IF i <= Len(parsed) THEN parsed[i] ELSE new[i - Len(parsed)]
    BY <2>1, <2>2, ConcatProperties
  <2>4. Numbered(parsed', 0)
    <3> SUFFICES ASSUME NEW i \in 1..(Len(parsed) + rsz) PROVE parsed'[i] = i
      BY <1>0, <2>3 DEF Numbered
    <3>1. CASE i <= Len(parsed)
      <4>1. i \in 1..Len(parsed)
        BY <1>0, <3>1
      <4>2. parsed[i] = 0 + i
        BY <4>1 DEF StreamInv, Numbered
      <4> QED
        BY <2>3, <3>1, <4>2
    <3>2. CASE i > Len(parsed)
      <4>1. i - Len(parsed) \in 1..rsz
        BY <1>0, <3>2
      <4>2. new[i - Len(parsed)] = Len(parsed) + (i - Len(parsed))
        BY <2>1, <4>1 DEF StreamInv
      <4> QED
        BY <1>0, <2>3, <3>2, <4>2
    <3> QED
      BY <1>0, <3>1, <3>2
  <2>5. Len(parsed') + rsz' = Len(parsed) + rsz
    BY <1>0, <2>2, <2>3
  <2>6. \A i \in 1..rsz' : rbuf'[i] = Len(parsed') + i
    BY <2>2
  <2> QED
    BY <2>2, <2>4, <2>5, <2>6 DEF StreamInv, Numbered
<1>4. CASE IoEvents
  BY <1>4, StreamUnchanged DEF IoEvents
<1>5. CASE IoPoll
  BY <1>5, StreamUnchanged DEF IoPoll
<1>6. CASE IoReadBegin
  BY <1>6, StreamUnchanged DEF IoReadBegin, OneRead
<1>7. CASE IoReadCommit
  <2>1. /\ rsz' = rsz + len /\ len' = 0 /\ UNCHANGED <<pty, printed, parsed>>
        /\ rsz' + len' = rsz + len
    BY <1>7 DEF IoReadCommit
  <2>2. \A i \in 1..rsz' : rbuf'[i] = Len(parsed') + i
    <3> SUFFICES ASSUME NEW i \in 1..(rsz + len) PROVE rbuf'[i] = Len(parsed) + i
      BY <2>1
    <3>1. rsz + len <= BufSize /\ i \in 1..BufSize
      BY <1>7 DEF IoReadCommit, OneRead
    <3>2. CASE orig = rsz
      <4>1. rbuf' = rbuf
        BY <1>7, <3>2 DEF IoReadCommit
      <4>2. CASE i <= rsz
        BY <4>1, <4>2 DEF StreamInv
      <4>3. CASE i > rsz
        <5>1. i - rsz \in 1..len /\ orig + (i - rsz) = i
          BY <3>2, <4>3
        <5>2. rbuf[orig + (i - rsz)] = Len(parsed) + rsz + (i - rsz)
          BY <5>1 DEF StreamInv
        <5>3. Len(parsed) + rsz + (i - rsz) = Len(parsed) + i
          BY <1>0
        <5> QED
          BY <4>1, <5>1, <5>2, <5>3
      <4> QED
        BY <4>2, <4>3
    <3>3. CASE orig # rsz
      <4>1. rsz = 0
        BY <1>7, <3>3 DEF IoReadCommit, OneRead
      <4>2. i \in 1..len /\ i - rsz \in 1..len /\ i - rsz + orig = orig + i
        BY <4>1
      <4>3. rbuf'[i] = rbuf[orig + i]
        BY <1>7, <3>1, <3>3, <4>2 DEF IoReadCommit, Moved
      <4>4. rbuf[orig + i] = Len(parsed) + rsz + i
        BY <4>2 DEF StreamInv
      <4> QED
        BY <1>0, <4>1, <4>3, <4>4
    <3> QED
      BY <3>2, <3>3
  <2>3. \A i \in 1..len' : rbuf'[orig' + i] = Len(parsed') + rsz' + i
    BY <2>1
  <2>4. Len(parsed') + rsz' + len' = Len(parsed) + rsz + len
    BY <1>0, <2>1
  <2> QED
    BY <2>1, <2>2, <2>3, <2>4 DEF StreamInv, Numbered
<1>8. CASE IoWrite
  BY <1>8, StreamUnchanged DEF IoWrite
<1>9. ASSUME NEW n \in 1..BufSize, IoRead(n) PROVE StreamInv'
  <2>1. n \in 1..Len(pty) /\ n <= BufSize - orig /\ pc = "reading" /\ len = 0
    BY <1>0, <1>9 DEF IoRead, OneRead
  <2>2. /\ len' = n /\ UNCHANGED <<rsz, orig, printed, parsed>>
        /\ pty' = SubSeq(pty, n + 1, Len(pty))
        /\ rbuf' = [i \in 1..BufSize |-> IF i - orig \in 1..n THEN pty[i - orig] ELSE rbuf[i]]
    BY <1>9 DEF IoRead
  <2>3. /\ Len(pty') = Len(pty) - n
        /\ \A i \in 1..(Len(pty) - n) : pty'[i] = pty[n + i]
    <3>1. n + 1 \in 1..(Len(pty) + 1) /\ Len(pty) \in (n + 1 - 1)..Len(pty)
      BY <1>0, <2>1
    <3>2. /\ Len(SubSeq(pty, n + 1, Len(pty))) = Len(pty) - (n + 1) + 1
          /\ \A i \in 1..(Len(pty) - (n + 1) + 1) :
                SubSeq(pty, n + 1, Len(pty))[i] = pty[(n + 1) + i - 1]
      BY <3>1, PartOfSeq
    <3>3. Len(pty) - (n + 1) + 1 = Len(pty) - n
      BY <1>0, <2>1
    <3>4. ASSUME NEW i \in 1..(Len(pty) - n) PROVE pty'[i] = pty[n + i]
      <4>1. (n + 1) + i - 1 = n + i
        BY <2>1
      <4> QED
        BY <2>2, <3>2, <3>3, <4>1
    <3> QED
      BY <2>2, <3>2, <3>3, <3>4
  <2>4. \A i \in 1..rsz : rbuf'[i] = Len(parsed) + i
    <3> SUFFICES ASSUME NEW i \in 1..rsz PROVE rbuf'[i] = Len(parsed) + i
      OBVIOUS
    <3>1. i \in 1..BufSize /\ i - orig \notin 1..n
      BY <2>1 DEF OneRead
    <3> QED
      BY <2>2, <3>1 DEF StreamInv
  <2>5. \A i \in 1..n : rbuf'[orig + i] = Len(parsed) + rsz + i
    <3> SUFFICES ASSUME NEW i \in 1..n PROVE rbuf'[orig + i] = Len(parsed) + rsz + i
      OBVIOUS
    <3>1. orig + i \in 1..BufSize /\ (orig + i) - orig = i /\ i \in 1..Len(pty)
      BY <1>0, <2>1
    <3>2. rbuf'[orig + i] = pty[i]
      BY <2>2, <3>1
    <3> QED
      BY <1>0, <2>1, <3>1, <3>2 DEF StreamInv, Numbered
  <2>6. Numbered(pty', Len(parsed) + rsz + n)
    <3> SUFFICES ASSUME NEW i \in 1..(Len(pty) - n) PROVE pty[n + i] = Len(parsed) + rsz + n + i
      BY <2>3 DEF Numbered
    <3>1. n + i \in 1..Len(pty)
      BY <1>0, <2>1
    <3> QED
      BY <1>0, <2>1, <3>1 DEF StreamInv, Numbered
  <2>7. Len(printed) = Len(parsed) + rsz + n + Len(pty')
    BY <1>0, <2>1, <2>3 DEF StreamInv
  <2> QED
    BY <2>2, <2>4, <2>5, <2>6, <2>7 DEF StreamInv, Numbered
<1>10. ASSUME NEW n \in 0..PtyRoom, IoWriteFails(n) PROVE StreamInv'
  BY <1>10, StreamUnchanged DEF IoWriteFails
<1>11. ASSUME NEW sz \in Writes, ScheduleWrite(sz) PROVE StreamInv'
  BY <1>11, StreamUnchanged DEF ScheduleWrite
<1>12. ASSUME NEW sz \in Writes, RefuseWrite(sz) PROVE StreamInv'
  BY <1>12, StreamUnchanged DEF RefuseWrite
<1>13. CASE UNCHANGED vars
  BY <1>13, StreamUnchanged DEF vars
<1> QED
  BY <1>1, <1>2, <1>3, <1>4, <1>5, <1>6, <1>7, <1>8, <1>9, <1>10, <1>11, <1>12, <1>13
  DEF Next, IoThread

-----------------------------------------------------------------------------
(* The invariant of the specification.                                     *)

IInv == ReadTyped /\ ControlTyped /\ OneRead /\ WriteInv /\ WriteNotForgotten /\ StreamInv

LEMMA InitIInv == Init => IInv
<1> SUFFICES ASSUME Init PROVE IInv
  OBVIOUS
<1> USE SizesAssumption DEF Init
<1>1. <<>> \in Seq(Nat) /\ Len(<<>>) = 0 /\ <<>> = <<>> \o <<>>
  BY EmptySeq, ConcatEmptySeq
<1>2. ReadTyped
  BY <1>1 DEF ReadTyped, Stale
<1>3. ControlTyped /\ OneRead /\ WriteNotForgotten
  BY DEF ControlTyped, OneRead, WriteNotForgotten
<1>4. WriteInv
  BY <1>1 DEF WriteInv, WriteTyped, WriteFits, InputKept
<1>5. StreamInv
  BY <1>1 DEF StreamInv, Numbered
<1> QED
  BY <1>2, <1>3, <1>4, <1>5 DEF IInv

LEMMA NextIInv == IInv /\ [Next]_vars => IInv'
BY NextControl, NextRead, NextWrite, NextWatched, NextStream DEF IInv

LEMMA Invariant == Spec => []IInv
BY InitIInv, NextIInv, PTL DEF Spec

(* Every variable of the two buffers keeps its type: in particular         *)
(* read_buf never passes its size, write_buf never its limit, and what     *)
(* schedule_write_to_child() copies fits the capacity of that moment,      *)
(* whatever grew, shrank or was refused before.                            *)
THEOREM TypeCorrect == Spec => []TypeOK
<1>1. IInv => TypeOK
  BY DEF IInv, TypeOK, ReadTyped, ControlTyped, WriteInv, WriteTyped, WriteFits
<1> QED
  BY <1>1, Invariant, PTL

(* The I/O thread never polls with data to write that it neither watches   *)
(* for nor is woken for.                                                   *)
THEOREM WritesAreWatched == Spec => []WriteNotForgotten
<1>1. IInv => WriteNotForgotten
  BY DEF IInv
<1> QED
  BY <1>1, Invariant, PTL

-----------------------------------------------------------------------------
(* Refinement.                                                             *)

(* A numbered stream is the beginning of every longer one.                 *)
LEMMA NumberedPrefix ==
    ASSUME NEW s \in Seq(Nat), NEW t \in Seq(Nat), Numbered(s, 0), Numbered(t, 0), Len(s) <= Len(t)
    PROVE  s = SubSeq(t, 1, Len(s))
<1>0. Len(s) \in Nat /\ Len(t) \in Nat
  BY LenProperties
<1>1. 1 \in 1..(Len(t) + 1) /\ Len(s) \in (1 - 1)..Len(t) /\ Len(s) - 1 + 1 = Len(s)
  BY <1>0
<1> DEFINE p == SubSeq(t, 1, Len(s))
<1>2. /\ p \in Seq(Nat) /\ Len(p) = Len(s) - 1 + 1
      /\ \A i \in 1..(Len(s) - 1 + 1) : p[i] = t[1 + i - 1]
  BY <1>1, PartOfSeq
<1> HIDE DEF p
<1>3. ASSUME NEW i \in 1..Len(s) PROVE s[i] = p[i]
  <2>1. i \in 1..Len(t) /\ 1 + i - 1 = i
    BY <1>0
  <2>2. s[i] = 0 + i /\ t[i] = 0 + i
    BY <2>1 DEF Numbered
  <2> QED
    BY <1>1, <1>2, <2>1, <2>2
<1>4. s = p
  BY <1>1, <1>2, <1>3, SeqEqual
<1> QED
  BY <1>4 DEF p

LEMMA PrefixOfConcat ==
    ASSUME NEW s \in Seq(Nat), NEW t \in Seq(Nat)
    PROVE  SubSeq(s \o t, 1, Len(s)) = s
<1>0. Len(s) \in Nat /\ Len(t) \in Nat
  BY LenProperties
<1>1. CASE s = <<>>
  <2>1. Len(s) = 0
    BY <1>1
  <2> QED
    BY <1>1, <2>1, SubSeqEmpty
<1>2. CASE s # <<>>
  <2>1. 1 \in 1..Len(s) /\ Len(s) \in 1..Len(s)
    BY <1>2, EmptySeq, LenProperties
  <2>2. SubSeq(s \o t, 1, Len(s)) = SubSeq(s, 1, Len(s))
    BY <2>1, SubSeqOfConcat1
  <2> QED
    BY <2>2, SubSeqFull
<1> QED
  BY <1>1, <1>2

(* The next part of what follows makes a longer beginning of the whole.    *)
LEMMA LongerPrefix ==
    ASSUME NEW s \in Seq(Nat), NEW t \in Seq(Nat), NEW n \in 0..Len(t)
    PROVE  LET u == s \o SubSeq(t, 1, n)
           IN  Len(u) = Len(s) + n /\ u = SubSeq(s \o t, 1, Len(u))
<1> DEFINE a == SubSeq(t, 1, n)
           b == SubSeq(t, n + 1, Len(t))
<1>1. a \in Seq(Nat) /\ b \in Seq(Nat) /\ Len(a) = n /\ a \o b = t
  BY SplitSeq
<1> HIDE DEF a, b
<1>2. s \o a \in Seq(Nat) /\ Len(s \o a) = Len(s) + n
  BY <1>1, ConcatProperties
<1>3. (s \o a) \o b = s \o t
  <2>1. (s \o a) \o b = s \o (a \o b)
    <3>1. s \in Seq(Nat) /\ a \in Seq(Nat) /\ b \in Seq(Nat)
      BY <1>1
    <3> QED
      BY ONLY <3>1, ConcatAssociative
  <2> QED
    BY <1>1, <2>1
<1>4. SubSeq((s \o a) \o b, 1, Len(s \o a)) = s \o a
  BY <1>1, <1>2, PrefixOfConcat
<1> QED
  BY <1>2, <1>3, <1>4 DEF a

LEMMA OutputStep == IInv /\ IInv' /\ [Next]_vars => [Output!Next]_<<printed, parsed>>
<1> SUFFICES ASSUME IInv, IInv', [Next]_vars, ~UNCHANGED <<printed, parsed>> PROVE Output!Next
  OBVIOUS
<1>0. /\ printed \in Seq(Nat) /\ parsed \in Seq(Nat) /\ printed' \in Seq(Nat) /\ parsed' \in Seq(Nat)
      /\ rsz \in 0..BufSize /\ rbuf \in [1..BufSize -> Nat] /\ Len(pty) \in Nat /\ len' \in Nat /\ rsz' \in Nat
      /\ Len(pty') \in Nat
  BY LenProperties, SizesAssumption DEF IInv, ReadTyped
<1>1. CASE ChildPrints
  <2>1. /\ Len(printed') = Len(printed) + 1 /\ UNCHANGED parsed
    BY <1>0, <1>1, LenProperties, AppendProperties DEF ChildPrints
  <2>2. Len(printed) \in Nat
    BY <1>0, LenProperties
  <2>3. Numbered(printed, 0) /\ Numbered(printed', 0)
    BY DEF IInv, StreamInv
  <2>4. Len(printed) <= Len(printed')
    BY <2>1, <2>2
  <2>5. printed = SubSeq(printed', 1, Len(printed))
    BY <1>0, <2>3, <2>4, NumberedPrefix
  <2> QED
    BY <2>1, <2>2, <2>5 DEF Output!Next, Output!Accept
<1>2. CASE Parse
  <2>1. Len(parsed') = Len(parsed) + rsz /\ UNCHANGED printed /\ rsz > 0
    BY <1>0, <1>2, PartOfBuffer, ConcatProperties DEF Parse
  <2>2. Len(parsed) \in Nat /\ Len(printed') \in Nat /\ rsz \in Nat
    BY <1>0, LenProperties, SizesAssumption
  <2>3. Numbered(parsed', 0) /\ Numbered(printed', 0) /\ Len(printed') = Len(parsed') + rsz' + len' + Len(pty')
    BY DEF IInv, StreamInv
  <2>4. Len(parsed') <= Len(printed')
    BY <1>0, <2>1, <2>2, <2>3
  <2>5. parsed' = SubSeq(printed', 1, Len(parsed'))
    BY <1>0, <2>3, <2>4, NumberedPrefix
  <2>6. Len(parsed') \in (Len(parsed) + 1)..Len(printed)
    BY <2>1, <2>2, <2>4
  <2> QED
    BY <2>1, <2>5, <2>6 DEF Output!Next, Output!Deliver
<1>3. CASE ~(ChildPrints \/ Parse)
  <2>1. UNCHANGED <<printed, parsed>>
    BY <1>3 DEF Next, IoThread, vars, read, ChildReads, IoEvents, IoPoll, IoReadBegin, IoReadCommit,
        IoWrite, IoRead, IoWriteFails, ScheduleWrite, RefuseWrite
  <2> QED
    BY <2>1
<1> QED
  BY <1>1, <1>2, <1>3

(* For every interleaving of the unlocked read() with the parser the       *)
(* output of the child reaches the parser in order, each byte once.        *)
THEOREM OutputIsAStream == Spec => OutputInOrder
<1>1. Init => Output!Init
  BY DEF Init, Output!Init
<1> QED
  BY <1>1, OutputStep, Invariant, PTL DEF Spec, OutputInOrder, Output!Spec

LEMMA InputStep == IInv /\ IInv' /\ [Next]_vars => [Input!Next]_<<queued, written>>
<1> SUFFICES ASSUME IInv, IInv', [Next]_vars, ~UNCHANGED <<queued, written>> PROVE Input!Next
  OBVIOUS
<1>0. /\ wbuf \in Seq(Nat) /\ queued \in Seq(Nat) /\ written \in Seq(Nat) /\ written' \in Seq(Nat)
      /\ queued = written \o wbuf /\ room \in Nat /\ Len(wbuf) \in Nat /\ Len(written) \in Nat
      /\ Len(queued) \in Nat
  BY LenProperties, SizesAssumption DEF IInv, WriteInv, WriteTyped, InputKept
<1>1. Len(queued) = Len(written) + Len(wbuf)
  BY <1>0, ConcatProperties
<1>2. ASSUME NEW sz \in Writes, ScheduleWrite(sz) PROVE Input!Next
  <2> DEFINE data == [i \in 1..sz |-> Len(queued) + i]
  <2>1. sz \in Nat
    BY SizesAssumption
  <2>2. data \in Seq(Nat) /\ Len(data) = sz
    BY <1>0, <2>1
  <2> HIDE DEF data
  <2>3. queued' = queued \o data /\ UNCHANGED written
    BY <1>2 DEF ScheduleWrite, data
  <2>4. Len(queued') = Len(queued) + sz
    BY <1>0, <2>2, <2>3, ConcatProperties
  <2>5. sz # 0
    <3>1. sz = 0 => data = <<>>
      BY <2>2
    <3> QED
      BY <1>0, <2>3, <3>1, ConcatEmptySeq
  <2>6. SubSeq(queued', 1, Len(queued)) = queued
    BY <1>0, <2>2, <2>3, PrefixOfConcat
  <2>7. Len(queued') > Len(queued)
    BY <1>0, <2>1, <2>4, <2>5
  <2> QED
    BY <2>3, <2>6, <2>7 DEF Input!Next, Input!Accept
<1>3. CASE IoWrite
  <2> DEFINE n == IF room < Len(wbuf) THEN room ELSE Len(wbuf)
  <2>1. n \in 0..Len(wbuf)
    BY <1>0
  <2>2. written' = written \o SubSeq(wbuf, 1, n) /\ UNCHANGED queued
    BY <1>3 DEF IoWrite, write
  <2> HIDE DEF n
  <2>3. Len(written') = Len(written) + n /\ written' = SubSeq(queued, 1, Len(written'))
    BY <1>0, <2>1, <2>2, LongerPrefix
  <2>4. n # 0
    <3>1. n = 0 => written' = written
      BY <1>0, <2>2, SubSeqEmpty, ConcatEmptySeq
    <3> QED
      BY <2>2, <3>1
  <2>5. Len(written') \in (Len(written) + 1)..Len(queued)
    BY <1>0, <1>1, <2>1, <2>3, <2>4
  <2> QED
    BY <2>2, <2>3, <2>5 DEF Input!Next, Input!Deliver
<1>4. ASSUME NEW n \in 0..PtyRoom, IoWriteFails(n) PROVE Input!Next
  <2>1. n \in 0..Len(wbuf)
    BY <1>0, <1>4, SizesAssumption DEF IoWriteFails
  <2>2. written' = written \o SubSeq(wbuf, 1, n) /\ queued' = written' /\ WriteMayFail
    BY <1>4 DEF IoWriteFails
  <2>3. Len(written') = Len(written) + n /\ written' = SubSeq(queued, 1, Len(written'))
    BY <1>0, <2>1, <2>2, LongerPrefix
  <2>4. Len(written') \in Len(written)..Len(queued)
    BY <1>0, <1>1, <2>1, <2>3
  <2> QED
    BY <2>2, <2>3, <2>4 DEF Input!Next, Input!Discard
<1>5. CASE ~(IoWrite \/ (\E sz \in Writes : ScheduleWrite(sz)) \/ (\E n \in 0..PtyRoom : IoWriteFails(n)))
  <2>1. UNCHANGED <<queued, written>>
    BY <1>5 DEF Next, IoThread, vars, write, ChildReads, ChildPrints, Parse, IoEvents, IoPoll, IoReadBegin,
        IoReadCommit, IoRead, RefuseWrite
  <2> QED
    BY <2>1
<1> QED
  BY <1>2, <1>3, <1>4, <1>5

(* What is scheduled for the child reaches it in order, each byte once; a  *)
(* failing write() discards everything that is still queued.               *)
THEOREM InputIsAStream == Spec => InputInOrder
<1>1. Init => Input!Init
  BY DEF Init, Input!Init
<1> QED
  BY <1>1, InputStep, Invariant, PTL DEF Spec, InputInOrder, Input!Spec

(* Both directions of the pty are streams.                                 *)
THEOREM BothAreStreams == Spec => StreamsInOrder
<1> QED
  BY OutputIsAStream, InputIsAStream DEF StreamsInOrder
=============================================================================
