-------------------------- MODULE PendingMode_proofs --------------------------
(***************************************************************************)
(* Nothing of an update is executed before the update ends; the variables  *)
(* keep their types, the pending buffer its limit; and the codes of the    *)
(* program reach the dispatch functions once, whole and in order, unless   *)
(* one of the marked losses happens.                                       *)
(*                                                                         *)
(* For the last two: the steps of the parser within each code, read from   *)
(* its beginning or from the pending buffer (CodeStep, FormStep), lengths  *)
(* in bytes, then the invariant IInv, which says where in the program the  *)
(* parser is (n codes and j characters), which codes the buffer has, how   *)
(* many of them were executed, and that what was executed, then what the   *)
(* buffer still has, is what is expected of what was read.                 *)
(***************************************************************************)
EXTENDS PendingMode, Sums, TLAPS

(* The loop that executes what it reads is only entered outside of an      *)
(* update, and left where one begins.                                      *)
ReadsOutside == phase = "read" => ~active

(* A character that is queued is not executed, but for a control character *)
(* inside a CSI code.                                                      *)
LEMMA QueuedCharacter ==
    ASSUME NEW c, Queueing, Char(c)
    PROVE  done' \in {done, Append(done, <<"BS">>)}
<1>1. CASE state = Normal /\ NormalChar(c)
    BY <1>1 DEF NormalChar, Nothing, Handle
<1>2. ASSUME NEW buf, EscChar(c, buf)
      PROVE  done' = done
    BY <1>2 DEF EscChar, Nothing, Handle
<1>3. CASE state = "CSI" /\ CsiChar(c)
    <2>1. CASE c \in Letters /\ CsiCode(<<"CSI">> \o pbuf \o <<c>>)
        <3>1. ASSUME NEW code, CsiCode(code)
              PROVE  done' = done
            BY <3>1 DEF CsiCode, BeginUpdate, EndUpdate, Handle
        <3> QED BY <2>1, <3>1
    <2>2. CASE ~(c \in Letters /\ CsiCode(<<"CSI">> \o pbuf \o <<c>>))
        BY <1>3, <2>2 DEF CsiChar, Nothing
    <2> QED BY <2>1, <2>2
<1>4. CASE state = "DCS" /\ DcsChar(c)
    <2>1. ASSUME NEW body, DcsCode(body)
          PROVE  done' = done
        BY <2>1 DEF DcsCode, BeginUpdate, EndUpdate, Handle
    <2> QED BY <1>2, <1>4, <2>1 DEF DcsChar, Nothing
<1> QED BY <1>1, <1>2, <1>3, <1>4 DEF Char

LEMMA QueuedByte ==
    ASSUME Queueing, Decode
    PROVE  done' \in {done, Append(done, <<"BS">>)}
BY QueuedCharacter DEF Decode, Nothing

LEMMA ReadsOutsideStep ==
    ASSUME ReadsOutside, [Next]_vars
    PROVE  ReadsOutside'
<1>1. CASE DoParse
    BY <1>1 DEF DoParse, ReadsOutside
<1>2. CASE Start
    <2>1. CASE active /\ late
        BY <1>2, <2>1 DEF Start, Goto, ReadsOutside
    <2>2. CASE ~(active /\ late)
        BY <1>2, <2>2 DEF Start, Goto, ReadsOutside
    <2> QED BY <2>1, <2>2
<1>3. CASE Queue
    BY <1>3 DEF Queue, Goto, ReadsOutside
<1>4. CASE ParsePending \/ ParsedPending
    BY <1>4 DEF ParsePending, ParsedPending, Goto, ReadsOutside
<1>5. CASE QueueByte
    BY <1>5 DEF QueueByte, Goto, ReadsOutside
<1>6. CASE ParseByte
    BY <1>6 DEF ParseByte, Goto, LoopEnds, Queueing, ReadsOutside
<1>7. CASE ParsePendingByte
    BY <1>7 DEF ParsePendingByte, ReadsOutside
<1>8. CASE TimePasses \/ UNCHANGED vars
    BY <1>8 DEF TimePasses, vars, ReadsOutside
<1>9. ASSUME NEW n \in 1..ReadBuf, Read(n)
      PROVE  ReadsOutside'
    BY <1>9 DEF Read, ReadsOutside
<1> QED
    BY <1>1, <1>2, <1>3, <1>4, <1>5, <1>6, <1>7, <1>8, <1>9
    DEF Next, MainLoop, Tick, TickForOtherReason, DoParseBytes

Held == active /\ active' /\ phase # "draining"

LEMMA AtomicStep ==
    ASSUME ReadsOutside, [Next]_vars, Held
    PROVE  done' \in {done, Append(done, <<"BS">>)}
<1>1. CASE QueueByte
    BY <1>1, QueuedByte DEF QueueByte, Queueing
<1>2. ~ParseByte /\ ~ParsePendingByte /\ ~ParsedPending
    BY DEF ParseByte, ParsePendingByte, ParsedPending, ReadsOutside, Held
<1>3. CASE DoParse \/ Start \/ Queue \/ ParsePending \/ TimePasses \/ UNCHANGED vars
    BY <1>3 DEF DoParse, Start, Queue, ParsePending, TimePasses, vars
<1>4. ASSUME NEW n \in 1..ReadBuf, Read(n)
      PROVE  done' = done
    BY <1>4 DEF Read
<1> QED
    BY <1>1, <1>2, <1>3, <1>4 DEF Next, MainLoop, Tick, TickForOtherReason, DoParseBytes

(* queue_pending_bytes() and the two loops of do_parse_bytes(): whatever   *)
(* the program, the reads and the time, an update is executed as a whole.  *)
THEOREM UpdatesAreAtomic == Spec => UpdateIsAtomic
<1>1. Init => ReadsOutside
    BY DEF Init, ReadsOutside
<1>2. ReadsOutside /\ [Next]_vars => ReadsOutside'
    BY ReadsOutsideStep
<1>3. ReadsOutside /\ [Next]_vars =>
        [active /\ active' /\ phase # "draining" => done' \in {done, Append(done, <<"BS">>)}]_vars
    BY AtomicStep DEF Held
<1> QED
    BY <1>1, <1>2, <1>3, PTL DEF Spec, UpdateIsAtomic
-----------------------------------------------------------------------------
(* Where the parts of a text begin that is put together from the sequences *)
(* of s, and that may go on after them.                                    *)
Cut(c, s, t) ==
    /\ c \in [0..Len(s) -> Nat]
    /\ c[0] = 0
    /\ \A k \in 1..Len(s) : c[k] = c[k - 1] + Len(s[k])
    /\ \A k \in 1..Len(s) : \A i \in 1..Len(s[k]) : t[c[k - 1] + i] = s[k][i]
    /\ \A k \in 0..Len(s) : c[k] <= Len(t)

(* FlattenSeq is a recursive function; that there is one is proved for the *)
(* least length for which there would not be.                              *)
Flattens(f, s, n) ==
    f = [i \in 1..n |-> IF i = 1 THEN s[i] ELSE f[i - 1] \o s[i]]

LEMMA FlattensExists ==
    ASSUME NEW s, NEW n \in Nat
    PROVE  \E f : Flattens(f, s, n)
<1> DEFINE T == {k \in Nat : ~ \E f : Flattens(f, s, k)}
<1> SUFFICES ASSUME T # {} PROVE FALSE
  OBVIOUS
<1>1. PICK k \in T : \A l \in T : k <= l
  <2>1. T \subseteq Nat
    OBVIOUS
  <2> HIDE DEF T
  <2> QED  BY <2>1, LeastNatural
<1>2. CASE k = 0
  <2> DEFINE f == [i \in 1..0 |-> <<>>]
  <2>1. Flattens(f, s, 0)
    BY DEF Flattens
  <2> QED  BY <1>1, <1>2, <2>1
<1>3. CASE k # 0
  <2>1. k \in Nat /\ k - 1 \in Nat /\ k - 1 \notin T
    BY <1>1, <1>3
  <2>2. PICK f : Flattens(f, s, k - 1)
    BY <2>1, Zenon
  <2> DEFINE g == [i \in 1..k |-> IF i = k
                    THEN IF i = 1 THEN s[i] ELSE f[i - 1] \o s[i]
                    ELSE f[i]]
  <2>3. ASSUME NEW i \in 1..k
        PROVE  g[i] = IF i = 1 THEN s[i] ELSE g[i - 1] \o s[i]
    <3>1. CASE i = k
      BY <2>1, <3>1
    <3>2. CASE i # k
      <4>1. i \in 1..(k - 1) /\ (i # 1 => i - 1 \in 1..(k - 1))
        BY <2>1, <3>2
      <4>2. f[i] = IF i = 1 THEN s[i] ELSE f[i - 1] \o s[i]
        BY <2>2, <4>1, Zenon DEF Flattens
      <4>3. g[i] = f[i] /\ (i # 1 => g[i - 1] = f[i - 1])
        BY <2>1, <3>2, <4>1
      <4> QED  BY <4>2, <4>3
    <3> QED  BY <3>1, <3>2
  <2>4. g = [i \in 1..k |-> IF i = 1 THEN s[i] ELSE g[i - 1] \o s[i]]
    <3>1. g = [i \in 1..k |-> g[i]]
      OBVIOUS
    <3> HIDE DEF g
    <3> QED  BY <2>3, <3>1
  <2>5. Flattens(g, s, k)
    BY <2>4, Zenon DEF Flattens
  <2> QED  BY <1>1, <2>5
<1> QED  BY <1>2, <1>3

(* The parts of the first k sequences.                                     *)
LEMMA FlatCut ==
    ASSUME NEW X, NEW s \in Seq(Seq(X))
    PROVE  /\ FlattenSeq(s) \in Seq(X)
           /\ \E c : Cut(c, s, FlattenSeq(s)) /\ c[Len(s)] = Len(FlattenSeq(s))
<1> DEFINE N == Len(s)
           First(k) == [i \in 1..k |-> s[i]]
<1>1. N \in Nat /\ \A k \in 1..N : s[k] \in Seq(X) /\ Len(s[k]) \in Nat
  OBVIOUS
<1>2. CASE N = 0
  <2> DEFINE c == [i \in 0..0 |-> 0]
  <2>1. s = <<>> /\ FlattenSeq(s) = s
    BY <1>2 DEF FlattenSeq
  <2>2. Cut(c, s, FlattenSeq(s)) /\ c[Len(s)] = Len(FlattenSeq(s))
    BY <2>1 DEF Cut
  <2>3. FlattenSeq(s) \in Seq(X)
    <3>1. <<>> \in Seq(X)
      OBVIOUS
    <3> QED  BY <2>1, <3>1
  <2> QED  BY <2>2, <2>3
<1>3. CASE N # 0
  <2> DEFINE f == CHOOSE f : f = [i \in 1..Len(s) |-> IF i = 1 THEN s[i] ELSE f[i - 1] \o s[i]]
  <2>1. Flattens(f, s, N)
    <3>1. \E g : g = [i \in 1..Len(s) |-> IF i = 1 THEN s[i] ELSE g[i - 1] \o s[i]]
      BY <1>1, FlattensExists, Zenon DEF Flattens
    <3> QED  BY <3>1, Zenon DEF Flattens
  <2>2. FlattenSeq(s) = f[N]
    BY <1>3, Zenon DEF FlattenSeq
  <2> HIDE DEF f
  <2>3. ASSUME NEW i \in 1..N PROVE f[i] = IF i = 1 THEN s[i] ELSE f[i - 1] \o s[i]
    BY <2>1, Zenon DEF Flattens
  <2> DEFINE Good(k, c) ==
        /\ c \in [0..k -> Nat] /\ c[0] = 0
        /\ \A l \in 1..k : c[l] = c[l - 1] + Len(s[l])
        /\ \A l \in 1..k : \A i \in 1..Len(s[l]) : f[k][c[l - 1] + i] = s[l][i]
        /\ \A l \in 0..k : c[l] <= Len(f[k])
        /\ c[k] = Len(f[k])
        /\ f[k] \in Seq(X)
      T == {k \in 1..N : ~ \E c : Good(k, c)}
  <2>a. T \subseteq 1..N /\ \A k \in 1..N : k \in T <=> ~ \E c : Good(k, c)
    OBVIOUS
  <2>4. T = {}
    <3> HIDE DEF T
    <3> SUFFICES ASSUME T # {} PROVE FALSE
      OBVIOUS
    <3>1. PICK k \in T : \A l \in T : k <= l
      <4>1. T \subseteq Nat
        BY <1>1, <2>a
      <4> QED  BY <4>1, LeastNatural
    <3> HIDE DEF Good
    <3>2. k \in 1..N /\ ~ \E c : Good(k, c)
      BY <3>1, <2>a
    <3> USE DEF Good
    <3>3. CASE k = 1
      <4> DEFINE c == [l \in 0..1 |-> IF l = 0 THEN 0 ELSE Len(s[1])]
      <4>1. f[1] = s[1] /\ s[1] \in Seq(X) /\ Len(s[1]) \in Nat
        BY <1>1, <2>3, <3>2, <3>3
      <4>2. Good(1, c)
        BY <4>1
      <4> QED  BY <3>2, <3>3, <4>2
    <3>4. CASE k # 1
      <4>1. k - 1 \in 1..N /\ k - 1 \notin T /\ k \in Nat
        <5>1. k - 1 \in 1..N /\ ~(k <= k - 1) /\ k \in Nat
          BY <1>1, <3>2, <3>4
        <5> QED  BY <3>1, <5>1
      <4>2. PICK c : Good(k - 1, c)
        <5> HIDE DEF Good
        <5> QED  BY <4>1, <2>a
      <4>3. f[k] = f[k - 1] \o s[k] /\ s[k] \in Seq(X) /\ Len(s[k]) \in Nat
        BY <1>1, <2>3, <3>2, <3>4
      <4> DEFINE g == f[k - 1]
                 d == [l \in 0..k |-> IF l = k THEN c[k - 1] + Len(s[k]) ELSE c[l]]
      <4>4. g \in Seq(X) /\ Len(g) \in Nat /\ c[k - 1] = Len(g) /\ c \in [0..(k - 1) -> Nat] /\ c[0] = 0
        BY <4>2
      <4>5. /\ \A l \in 1..(k - 1) : c[l] = c[l - 1] + Len(s[l])
            /\ \A l \in 1..(k - 1) : \A i \in 1..Len(s[l]) : g[c[l - 1] + i] = s[l][i]
            /\ \A l \in 0..(k - 1) : c[l] <= Len(g)
        BY <4>2
      <4> HIDE DEF g
      <4>6. f[k] = g \o s[k]
        BY <4>3 DEF g
      <4>7. /\ f[k] \in Seq(X) /\ Len(f[k]) = Len(g) + Len(s[k])
            /\ \A i \in 1..Len(g) : f[k][i] = g[i]
            /\ \A i \in 1..Len(s[k]) : f[k][Len(g) + i] = s[k][i]
        <5> DEFINE h == s[k]
        <5>1. h \in Seq(X) /\ g \in Seq(X) /\ f[k] = g \o h
          BY <4>3, <4>4, <4>6
        <5> HIDE DEF h
        <5>2. /\ g \o h \in Seq(X) /\ Len(g \o h) = Len(g) + Len(h)
              /\ \A i \in 1..Len(g) : (g \o h)[i] = g[i]
              /\ \A i \in 1..Len(h) : (g \o h)[Len(g) + i] = h[i]
          BY <5>1
        <5> QED  BY <5>1, <5>2 DEF h
      <4>9. \A l \in 0..(k - 1) : d[l] = c[l]
        BY <4>1
      <4>10. d[k] = c[k - 1] + Len(s[k])
        BY <4>1
      <4>8. d \in [0..k -> Nat] /\ d[0] = 0 /\ d[k] = Len(f[k])
        <5>1. c[k - 1] + Len(s[k]) \in Nat /\ \A l \in 0..k : l # k => c[l] \in Nat
          BY <4>1, <4>3, <4>4
        <5>2. d \in [0..k -> Nat]
          BY <5>1
        <5>3. d[0] = 0
          BY <4>1, <4>4, <4>9
        <5> QED  BY <5>2, <5>3, <4>10, <4>7, <4>4
      <4> HIDE DEF d
      <4>11. ASSUME NEW l \in 1..k
             PROVE  /\ d[l] = d[l - 1] + Len(s[l])
                    /\ \A i \in 1..Len(s[l]) : f[k][d[l - 1] + i] = s[l][i]
        <5>1. CASE l = k
          <6>1. k - 1 \in 0..(k - 1) /\ d[k - 1] = Len(g)
            <7>1. k - 1 \in 0..(k - 1)
              BY <4>1
            <7> QED  BY <7>1, <4>4, <4>9
          <6>2. d[l] = d[l - 1] + Len(s[l])
            BY <5>1, <6>1, <4>4, <4>10
          <6>3. \A i \in 1..Len(s[k]) : f[k][d[k - 1] + i] = s[k][i]
            BY <6>1, <4>7
          <6> QED  BY <5>1, <6>2, <6>3
        <5>2. CASE l # k
          <6>1. l \in 1..(k - 1) /\ l - 1 \in 0..(k - 1) /\ l \in 0..(k - 1)
            BY <5>2, <4>1
          <6>2. d[l] = c[l] /\ d[l - 1] = c[l - 1] /\ c[l] = c[l - 1] + Len(s[l]) /\ c[l - 1] \in Nat
                /\ c[l] <= Len(g)
            BY <6>1, <4>9, <4>5, <4>4
          <6>3. ASSUME NEW i \in 1..Len(s[l]) PROVE f[k][d[l - 1] + i] = s[l][i]
            <7>1. Len(s[l]) \in Nat
              BY <1>1, <6>1, <3>2
            <7>2. c[l - 1] + i \in 1..Len(g)
              BY <6>2, <7>1, <4>4
            <7>3. g[c[l - 1] + i] = s[l][i]
              BY <6>1, <4>5
            <7> QED  BY <7>2, <7>3, <6>2, <4>7
          <6> QED  BY <6>2, <6>3
        <5> QED  BY <5>1, <5>2
      <4>12. \A l \in 0..k : d[l] <= Len(f[k])
        <5> SUFFICES ASSUME NEW l \in 0..k PROVE d[l] <= Len(f[k])
          OBVIOUS
        <5>1. CASE l = k
          BY <5>1, <4>7, <4>8, <4>3, <4>4
        <5>2. CASE l # k
          <6>1. l \in 0..(k - 1)
            BY <5>2, <4>1
          <6>2. d[l] = c[l] /\ c[l] <= Len(g) /\ c[l] \in Nat
            BY <6>1, <4>9, <4>5, <4>4
          <6> QED  BY <6>2, <4>7, <4>3, <4>4
        <5> QED  BY <5>1, <5>2
      <4>13. Good(k, d)
        BY <4>7, <4>8, <4>11, <4>12
      <4> QED  BY <3>2, <4>13
    <3> QED  BY <3>3, <3>4
  <2>5. PICK c : Good(N, c)
    <3>1. N \in 1..N
      BY <1>1, <1>3
    <3> HIDE DEF Good
    <3> QED  BY <2>4, <3>1
  <2> QED  BY <2>2, <2>5, Zenon DEF Cut
<1> QED  BY <1>2, <1>3
-----------------------------------------------------------------------------
(* One character, in each state in which it can come.                      *)

(* The parser is in a state, with a buffer, and inside a character or not. *)
ParserIs(s, b, h) == state = s /\ pbuf = b /\ (u1 <=> h)

Becomes(s, b, h) == state' = s /\ pbuf' = b /\ (u1' <=> h)

Goes(s, b) == Consume /\ Becomes(s, b, FALSE) /\ Nothing
Ends == Consume /\ Becomes(Normal, <<>>, FALSE)
Gives(x) == Ends /\ Handle(x) /\ Same

ControlDone ==
    /\ done' = Append(done, <<"BS">>)
    /\ spoiled' = (spoiled \/ (Queueing /\ pending # <<>>))
    /\ UNCHANGED <<active, late, pending>>

LEMMA SameSequence ==
    ASSUME NEW S, NEW s \in Seq(S), NEW t \in Seq(S), Len(s) = Len(t), \A i \in 1..Len(s) : s[i] = t[i]
    PROVE  s = t
OBVIOUS

LEMMA OneMore ==
    ASSUME NEW S, NEW s \in Seq(S), NEW t \in Seq(S)
    PROVE  Len(t) = 1 =>
           /\ s \o t \in Seq(S) /\ Len(s \o t) = Len(s) + 1
           /\ Len(s) = 1 => (s \o t)[1] = s[1] /\ (s \o t)[2] = t[1]
           /\ Len(s) = 2 => (s \o t)[1] = s[1] /\ (s \o t)[2] = s[2] /\ (s \o t)[3] = t[1]
<1> DEFINE w == s \o t
<1>1. /\ w \in Seq(S) /\ Len(w) = Len(s) + Len(t)
      /\ \A i \in 1..Len(s) : w[i] = s[i]
      /\ \A i \in 1..Len(t) : w[Len(s) + i] = t[i]
  OBVIOUS
<1>2. Len(s) \in Nat
  OBVIOUS
<1> HIDE DEF w
<1>3. Len(t) = 1 => w[Len(s) + 1] = t[1] /\ Len(w) = Len(s) + 1
  BY <1>1
<1>4. Len(t) = 1 /\ Len(s) = 1 => w[1] = s[1] /\ w[2] = t[1]
  BY <1>1, <1>3
<1>5. Len(t) = 1 /\ Len(s) = 2 => w[1] = s[1] /\ w[2] = s[2] /\ w[3] = t[1]
  BY <1>1, <1>3
<1> QED  BY <1>1, <1>3, <1>4, <1>5 DEF w

LEMMA ShortConcat ==
    ASSUME NEW x, NEW y, NEW z
    PROVE  /\ <<x>> \o <<y>> = <<x, y>>
           /\ <<x, y>> \o <<z>> = <<x, y, z>>
           /\ <<x>> \o <<>> = <<x>>
           /\ Append(<<>>, x) = <<x>>
           /\ Append(<<x>>, y) = <<x, y>>
<1> DEFINE S == {x, y, z}
<1>1. <<x>> \in Seq(S) /\ <<y>> \in Seq(S) /\ <<z>> \in Seq(S) /\ <<x, y>> \in Seq(S)
      /\ <<x, y, z>> \in Seq(S) /\ <<>> \in Seq(S)
  OBVIOUS
<1>2. /\ Len(<<x>>) = 1 /\ Len(<<y>>) = 1 /\ Len(<<z>>) = 1 /\ Len(<<x, y>>) = 2
      /\ Len(<<x, y, z>>) = 3 /\ Len(<<>>) = 0
  OBVIOUS
<1>3. /\ <<x>>[1] = x /\ <<y>>[1] = y /\ <<z>>[1] = z /\ <<x, y>>[1] = x /\ <<x, y>>[2] = y
      /\ <<x, y, z>>[1] = x /\ <<x, y, z>>[2] = y /\ <<x, y, z>>[3] = z
  OBVIOUS
<1>4. x \in S /\ y \in S /\ z \in S
  OBVIOUS
<1> HIDE DEF S
<1>5. ASSUME NEW s \in Seq(S), NEW t \in Seq(S), Len(t) = 1
      PROVE  /\ s \o t \in Seq(S) /\ Len(s \o t) = Len(s) + 1
             /\ Len(s) = 1 => (s \o t)[1] = s[1] /\ (s \o t)[2] = t[1]
             /\ Len(s) = 2 => (s \o t)[1] = s[1] /\ (s \o t)[2] = s[2] /\ (s \o t)[3] = t[1]
  BY <1>5, OneMore
<1>6. ASSUME NEW s \in Seq(S), NEW e \in S
      PROVE  /\ Append(s, e) \in Seq(S) /\ Len(Append(s, e)) = Len(s) + 1
             /\ Len(s) = 0 => Append(s, e)[1] = e
             /\ Len(s) = 1 => Append(s, e)[1] = s[1] /\ Append(s, e)[2] = e
  OBVIOUS
<1>7. <<x>> \o <<y>> = <<x, y>>
  <2> DEFINE s == <<x>> \o <<y>>
  <2>1. s \in Seq(S) /\ Len(s) = 2
    BY <1>1, <1>2, <1>5
  <2>3. s[1] = <<x>>[1] /\ s[2] = <<y>>[1]
    BY <1>1, <1>2, <1>5, Zenon
  <2> HIDE DEF s
  <2>4. \A i \in 1..Len(s) : s[i] = <<x, y>>[i]
    <3>1. \A i \in 1..Len(s) : i = 1 \/ i = 2
      BY <2>1
    <3> QED  BY <3>1, <2>3, <1>3, Zenon
  <2>5. s = <<x, y>>
    BY <1>1, <1>2, <2>1, <2>4, SameSequence
  <2> QED  BY <2>5 DEF s
<1>8. <<x, y>> \o <<z>> = <<x, y, z>>
  <2> DEFINE s == <<x, y>> \o <<z>>
  <2>1. s \in Seq(S) /\ Len(s) = 3
    BY <1>1, <1>2, <1>5
  <2>3. s[1] = <<x, y>>[1] /\ s[2] = <<x, y>>[2] /\ s[3] = <<z>>[1]
    BY <1>1, <1>2, <1>5, Zenon
  <2> HIDE DEF s
  <2>4. \A i \in 1..Len(s) : s[i] = <<x, y, z>>[i]
    <3>1. \A i \in 1..Len(s) : i = 1 \/ i = 2 \/ i = 3
      BY <2>1
    <3> QED  BY <3>1, <2>3, <1>3, Zenon
  <2>5. s = <<x, y, z>>
    BY <1>1, <1>2, <2>1, <2>4, SameSequence
  <2> QED  BY <2>5 DEF s
<1>9. <<x>> \o <<>> = <<x>>
  BY <1>1, <1>2
<1>10. Append(<<>>, x) = <<x>>
  <2> DEFINE s == Append(<<>>, x)
  <2>1. s \in Seq(S) /\ Len(s) = 1 /\ s[1] = x
    <3>1. Append(<<>>, x) \in Seq(S) /\ Len(Append(<<>>, x)) = Len(<<>>) + 1 /\ Append(<<>>, x)[1] = x
      BY <1>1, <1>2, <1>4, <1>6, Zenon
    <3>2. Len(<<>>) + 1 = 1
      BY <1>2
    <3> QED  BY <3>1, <3>2
  <2> HIDE DEF s
  <2>2. \A i \in 1..Len(s) : s[i] = <<x>>[i]
    <3>1. \A i \in 1..Len(s) : i = 1
      BY <2>1
    <3> QED  BY <3>1, <2>1, <1>3, Zenon
  <2>3. s = <<x>>
    BY <1>1, <1>2, <2>1, <2>2, SameSequence
  <2> QED  BY <2>3 DEF s
<1>11. Append(<<x>>, y) = <<x, y>>
  <2> DEFINE s == Append(<<x>>, y)
  <2>0. s \in Seq(S) /\ Len(s) = Len(<<x>>) + 1 /\ s[1] = <<x>>[1] /\ s[2] = y
    BY <1>1, <1>2, <1>4, <1>6, Zenon
  <2>1. s \in Seq(S) /\ Len(s) = 2 /\ s[1] = <<x>>[1] /\ s[2] = y
    BY <1>2, <2>0
  <2> HIDE DEF s
  <2>2. \A i \in 1..Len(s) : s[i] = <<x, y>>[i]
    <3>1. \A i \in 1..Len(s) : i = 1 \/ i = 2
      BY <2>1
    <3> QED  BY <3>1, <2>1, <1>3, Zenon
  <2>3. s = <<x, y>>
    BY <1>1, <1>2, <2>1, <2>2, SameSequence
  <2> QED  BY <2>3 DEF s
<1> QED  BY <1>7, <1>8, <1>9, <1>10, <1>11

LEMMA ConcatThree ==
    ASSUME NEW x, NEW y, NEW z
    PROVE  <<x>> \o <<y>> \o <<z>> = <<x, y, z>>
BY ShortConcat, Zenon

LEMMA ShortTuples ==
    ASSUME NEW x, NEW y, NEW z
    PROVE  /\ <<x>> \o <<>> \o <<y>> = <<x, y>>
           /\ <<x>> \o <<y>> \o <<z>> = <<x, y, z>>
           /\ <<x>> # <<>> /\ <<x, y>> # <<>>
           /\ Last(<<x>>) = x /\ Last(<<x, y>>) = y /\ Front(<<x, y>>) = <<x>>
           /\ Head(<<x>>) = x /\ Head(<<x, y>>) = x
<1>1. Front(<<x, y>>) = <<x>>
  <2> DEFINE S == {x, y}
             t == <<x, y>>
             s == SubSeq(t, 1, 1)
  <2>1. t \in Seq(S) /\ Len(t) = 2 /\ t[1] = x /\ <<x>> \in Seq(S) /\ Len(<<x>>) = 1 /\ <<x>>[1] = x
    OBVIOUS
  <2>2. Front(t) = s
    BY <2>1 DEF Front
  <2> HIDE DEF S, t
  <2>3. s \in Seq(S) /\ Len(s) = 1 /\ s[1] = t[1]
    BY <2>1
  <2> HIDE DEF s
  <2>4. \A i \in 1..Len(s) : s[i] = <<x>>[i]
    <3>1. \A i \in 1..Len(s) : i = 1
      BY <2>3
    <3> QED  BY <3>1, <2>1, <2>3, Zenon
  <2>5. s = <<x>>
    BY <2>1, <2>3, <2>4, SameSequence
  <2> QED  BY <2>2, <2>5 DEF t
<1>2. <<x>> \o <<>> \o <<y>> = <<x, y>> /\ <<x>> \o <<y>> \o <<z>> = <<x, y, z>>
  BY ShortConcat, Zenon
<1>3. <<x>> # <<>> /\ <<x, y>> # <<>>
  OBVIOUS
<1>4. Last(<<x>>) = x /\ Last(<<x, y>>) = y
  BY DEF Last
<1>5. Head(<<x>>) = x /\ Head(<<x, y>>) = x
  OBVIOUS
<1> QED  BY <1>1, <1>2, <1>3, <1>4, <1>5

(* A character that is not inside of another goes to the parser.           *)
LEMMA WholeChar ==
    ASSUME Decode, ~u1, NEW c, Head(Source) = c, c \notin {"u1", "u2"}
    PROVE  /\ Consume /\ (u1' <=> FALSE)
           /\ state = Normal => NormalChar(c)
           /\ state = "ESC" => EscChar(c, pbuf)
           /\ state = "CSI" => CsiChar(c)
           /\ state = "DCS" => DcsChar(c)
<1>1. Consume /\ u1' = u1 /\ Char(c)
  BY DEF Decode
<1> QED  BY <1>1 DEF Char, Normal

LEMMA StepIntroducer ==
    ASSUME NEW b, NEW c \in Introducers, ParserIs(Normal, b, FALSE), Head(Source) = c, Decode
    PROVE  Goes(c, <<>>)
<1>1. c \notin {"u1", "u2"} /\ ~u1 /\ state = Normal
  BY DEF ParserIs, Introducers
<1> QED  BY <1>1, WholeChar DEF NormalChar, SetState, Goes, Becomes, ParserIs

LEMMA StepText ==
    ASSUME NEW b, NEW c, c \notin Introducers \cup {"u1", "u2"},
           ParserIs(Normal, b, FALSE), Head(Source) = c, Decode
    PROVE  Consume /\ Becomes(Normal, b, FALSE) /\ Handle(<<c>>) /\ Same
<1>1. c \notin {"u1", "u2"} /\ ~u1 /\ state = Normal /\ c \notin Introducers
  BY DEF ParserIs
<1> QED  BY <1>1, WholeChar DEF NormalChar, Becomes, ParserIs

LEMMA StepEsc ==
    ASSUME ParserIs("ESC", <<>>, FALSE), Decode
    PROVE  /\ Head(Source) = "[" => Goes("CSI", <<>>)
           /\ Head(Source) = "P" => Goes("DCS", <<>>)
           /\ Head(Source) = "(" => Goes("ESC", <<"(">>)
           /\ Head(Source) = "7" => Gives(<<"ESC", "7">>)
<1>1. ~u1 /\ state = "ESC" /\ pbuf = <<>>
  BY DEF ParserIs
<1>2. CASE Head(Source) = "["
  BY <1>1, <1>2, WholeChar DEF EscChar, SetState, Goes, Becomes, ParserIs
<1>3. CASE Head(Source) = "P"
  BY <1>1, <1>3, WholeChar DEF EscChar, SetState, Goes, Becomes, ParserIs
<1>4. CASE Head(Source) = "("
  BY <1>1, <1>4, WholeChar DEF EscChar, SetState, Goes, Becomes, ParserIs
<1>5. CASE Head(Source) = "7"
  BY <1>1, <1>5, WholeChar DEF EscChar, SetState, Gives, Ends, Becomes, ParserIs
<1> QED  BY <1>2, <1>3, <1>4, <1>5

LEMMA StepCharset ==
    ASSUME ParserIs("ESC", <<"(">>, FALSE), Head(Source) = "B", Decode
    PROVE  Gives(<<"ESC", "(", "B">>)
<1>1. ~u1 /\ state = "ESC" /\ pbuf = <<"(">>
  BY DEF ParserIs
<1>2. EscChar("B", <<"(">>) /\ Consume /\ (u1' <=> FALSE)
  BY <1>1, WholeChar
<1>3. Last(<<"(">>) = "(" /\ <<"(">> # <<>>
  BY ShortTuples
<1> QED  BY <1>2, <1>3 DEF EscChar, SetState, Gives, Ends, Becomes, ParserIs

LEMMA StepCsi ==
    ASSUME ParserIs("CSI", <<>>, FALSE), Decode
    PROVE  /\ Head(Source) \in {"3", "?"} => Goes("CSI", <<Head(Source)>>)
           /\ Head(Source) = "m" => Gives(<<"CSI", "m">>)
           /\ Head(Source) = "BS" => Consume /\ Becomes("CSI", <<>>, FALSE) /\ ControlDone
<1>1. ~u1 /\ state = "CSI" /\ pbuf = <<>>
  BY DEF ParserIs
<1>2. CASE Head(Source) \in {"3", "?"}
  <2> DEFINE c == Head(Source)
  <2>1. CsiChar(c) /\ Consume /\ (u1' <=> FALSE)
    BY <1>1, <1>2, WholeChar
  <2>2. Append(<<>>, c) = <<c>>
    BY ShortConcat
  <2>3. Accepted(c) /\ c \notin Letters /\ c # "BS"
    BY <1>1, <1>2 DEF Accepted, Letters
  <2> HIDE DEF c
  <2>4. Accumulate(c) /\ Nothing
    BY <2>1, <2>3 DEF CsiChar
  <2>5. state' = "CSI" /\ pbuf' = <<c>>
    BY <1>1, <2>2, <2>4, Zenon DEF Accumulate
  <2>6. Goes("CSI", <<c>>)
    BY <2>1, <2>4, <2>5 DEF Goes, Becomes, ParserIs
  <2> QED  BY <1>2, <2>6 DEF c
<1>3. CASE Head(Source) = "m"
  <2>1. CsiChar("m") /\ Consume /\ (u1' <=> FALSE)
    BY <1>1, <1>3, WholeChar
  <2>2. CsiCode(<<"CSI">> \o pbuf \o <<"m">>) /\ SetState(Normal)
    BY <2>1, <1>1 DEF CsiChar, Accepted, Letters
  <2>3. CsiCode(<<"CSI", "m">>)
    BY <2>2, <1>1, ShortTuples
  <2>4. <<"CSI", "m">> # <<"CSI", "?", "h">> /\ <<"CSI", "m">> # <<"CSI", "?", "l">>
    OBVIOUS
  <2>5. Gives(<<"CSI", "m">>)
    BY <2>1, <2>2, <2>3, <2>4 DEF CsiCode, SetState, Gives, Ends, Becomes, ParserIs
  <2> QED  BY <1>3, <2>5
<1>4. CASE Head(Source) = "BS"
  <2>1. CsiChar("BS") /\ Consume /\ (u1' <=> FALSE)
    BY <1>1, <1>4, WholeChar
  <2>2. UNCHANGED <<state, pbuf>> /\ ControlDone
    BY <2>1 DEF CsiChar, Accepted, Letters, ControlDone
  <2>3. Becomes("CSI", <<>>, FALSE)
    BY <2>1, <2>2, <1>1 DEF Becomes, ParserIs
  <2> QED  BY <1>4, <2>1, <2>2, <2>3
<1> QED  BY <1>2, <1>3, <1>4

LEMMA StepCsiColor ==
    ASSUME ParserIs("CSI", <<"3">>, FALSE), Head(Source) = "m", Decode
    PROVE  Gives(<<"CSI", "3", "m">>)
<1>1. ~u1 /\ state = "CSI" /\ pbuf = <<"3">>
  BY DEF ParserIs
<1>2. CsiChar("m") /\ Consume /\ (u1' <=> FALSE)
  BY <1>1, WholeChar
<1>3. CsiCode(<<"CSI">> \o pbuf \o <<"m">>) /\ SetState(Normal)
  BY <1>2, <1>1 DEF CsiChar, Accepted, Letters
<1>4. CsiCode(<<"CSI", "3", "m">>)
  <2>1. <<"CSI">> \o <<"3">> \o <<"m">> = <<"CSI", "3", "m">>
    BY ConcatThree, Zenon
  <2> QED  BY <1>1, <1>3, <2>1, Zenon
<1>5. <<"CSI", "3", "m">> # <<"CSI", "?", "h">> /\ <<"CSI", "3", "m">> # <<"CSI", "?", "l">>
  OBVIOUS
<1> QED  BY <1>2, <1>3, <1>4, <1>5 DEF CsiCode, SetState, Gives, Ends, Becomes, ParserIs

LEMMA StepCsiMode ==
    ASSUME ParserIs("CSI", <<"?">>, FALSE), Decode
    PROVE  /\ Head(Source) = "h" => Ends /\ BeginUpdate
           /\ Head(Source) = "l" => Ends /\ EndUpdate
<1>1. ~u1 /\ state = "CSI" /\ pbuf = <<"?">>
  BY DEF ParserIs
<1>2. ASSUME NEW c \in {"h", "l"}, Head(Source) = c
      PROVE  Ends /\ CsiCode(<<"CSI", "?", c>>)
  <2>1. CsiChar(c) /\ Consume /\ (u1' <=> FALSE)
    BY <1>1, <1>2, WholeChar
  <2>2. CsiCode(<<"CSI">> \o pbuf \o <<c>>) /\ SetState(Normal)
    BY <2>1, <1>1, <1>2 DEF CsiChar, Accepted, Letters
  <2>3. <<"CSI">> \o <<"?">> \o <<c>> = <<"CSI", "?", c>>
    BY ConcatThree, Zenon
  <2>4. Ends
    BY <2>1, <2>2 DEF SetState, Ends, Becomes, ParserIs
  <2> QED  BY <1>1, <2>2, <2>3, <2>4, Zenon
<1>3. CsiCode(<<"CSI", "?", "h">>) => BeginUpdate
  BY DEF CsiCode
<1>4. <<"CSI", "?", "l">> # <<"CSI", "?", "h">>
  OBVIOUS
<1>5. CsiCode(<<"CSI", "?", "l">>) => EndUpdate
  BY <1>4 DEF CsiCode
<1> QED  BY <1>2, <1>3, <1>5

LEMMA StepDcs ==
    ASSUME ParserIs("DCS", <<>>, FALSE), Head(Source) \in {"1s", "2s", "q", "ESC"}, Decode
    PROVE  Goes("DCS", <<Head(Source)>>)
<1> DEFINE c == Head(Source)
<1>1. ~u1 /\ state = "DCS" /\ pbuf = <<>>
  BY DEF ParserIs
<1>2. DcsChar(c) /\ Consume /\ (u1' <=> FALSE)
  BY <1>1, WholeChar
<1>3. c \notin Unprintable \cup {"ST"}
  BY DEF Unprintable
<1> HIDE DEF c
<1>4. Accumulate(c) /\ Nothing
  BY <1>1, <1>2, <1>3 DEF DcsChar
<1>a. state' = "DCS" /\ pbuf' = <<c>>
  BY <1>1, <1>4, ShortConcat, Zenon DEF Accumulate
<1>5. Goes("DCS", <<c>>)
  BY <1>2, <1>4, <1>a DEF Goes, Becomes, ParserIs
<1> QED  BY <1>5 DEF c

LEMMA StepDcsEsc ==
    ASSUME NEW x \in {"1s", "2s", "q"}, ParserIs("DCS", <<x>>, FALSE), Head(Source) = "ESC", Decode
    PROVE  Goes("DCS", <<x, "ESC">>)
<1>1. ~u1 /\ state = "DCS" /\ pbuf = <<x>>
  BY DEF ParserIs
<1>2. DcsChar("ESC") /\ Consume /\ (u1' <=> FALSE)
  BY <1>1, WholeChar
<1>3. ~(pbuf # <<>> /\ Last(pbuf) = "ESC")
  BY <1>1, ShortTuples
<1>4. Accumulate("ESC") /\ Nothing
  BY <1>2, <1>3 DEF DcsChar, Unprintable
<1>5. state' = "DCS" /\ pbuf' = <<x, "ESC">>
  BY <1>1, <1>4, ShortConcat, Zenon DEF Accumulate
<1> QED  BY <1>2, <1>4, <1>5 DEF Goes, Becomes, ParserIs

LEMMA StepDcsEnd ==
    ASSUME NEW x \in {"1s", "2s", "q"}, ParserIs("DCS", <<x, "ESC">>, FALSE),
           Head(Source) = "\\", Decode
    PROVE  Ends /\ DcsCode(<<x>>)
<1>1. ~u1 /\ state = "DCS" /\ pbuf = <<x, "ESC">>
  BY DEF ParserIs
<1>2. DcsChar("\\") /\ Consume /\ (u1' <=> FALSE)
  BY <1>1, WholeChar
<1>3. pbuf # <<>> /\ Last(pbuf) = "ESC" /\ Front(pbuf) = <<x>>
  BY <1>1, ShortTuples
<1>4. DcsCode(Front(pbuf)) /\ SetState(Normal)
  BY <1>2, <1>3 DEF DcsChar, Unprintable
<1> QED  BY <1>2, <1>3, <1>4 DEF SetState, Ends, Becomes, ParserIs

LEMMA DcsMeans ==
    /\ DcsCode(<<"1s">>) => BeginUpdate
    /\ DcsCode(<<"2s">>) => EndUpdate
    /\ DcsCode(<<"q">>) => Handle(<<"DCS", "q", "ST">>) /\ Same
<1>1. <<"1s">> # <<>> /\ <<"2s">> # <<>> /\ <<"q">> # <<>>
  OBVIOUS
<1>2. Head(<<"1s">>) = "1s" /\ Head(<<"2s">>) = "2s" /\ Head(<<"q">>) = "q"
  OBVIOUS
<1>3. <<"DCS">> \o <<"q">> \o <<"ST">> = <<"DCS", "q", "ST">>
  BY ConcatThree, Zenon
<1>4. DcsCode(<<"1s">>) => BeginUpdate
  BY <1>1, <1>2 DEF DcsCode
<1>5. DcsCode(<<"2s">>) => EndUpdate
  BY <1>1, <1>2 DEF DcsCode
<1>6. DcsCode(<<"q">>) => Handle(<<"DCS", "q", "ST">>) /\ Same
  BY <1>1, <1>2, <1>3 DEF DcsCode
<1> QED  BY <1>4, <1>5, <1>6

LEMMA StepDcsSeven ==
    ASSUME ParserIs("DCS", <<"ESC">>, FALSE), Head(Source) = "7", Decode
    PROVE  Gives(<<"ESC", "7">>)
<1>1. ~u1 /\ state = "DCS" /\ pbuf = <<"ESC">>
  BY DEF ParserIs
<1>2. DcsChar("7") /\ Consume /\ (u1' <=> FALSE)
  BY <1>1, WholeChar
<1>3. pbuf # <<>> /\ Last(pbuf) = "ESC"
  BY <1>1, ShortTuples
<1>4. EscChar("7", <<>>)
  BY <1>2, <1>3 DEF DcsChar, Unprintable
<1>5. Handle(<<"ESC", "7">>) /\ Same /\ SetState(Normal)
  BY <1>4 DEF EscChar
<1> QED  BY <1>2, <1>5 DEF SetState, Gives, Ends, Becomes, ParserIs

LEMMA StepDcsQueued ==
    ASSUME ParserIs("DCS", <<"q">>, FALSE), Head(Source) = "ST", Decode
    PROVE  Gives(<<"DCS", "q", "ST">>)
<1>1. ~u1 /\ state = "DCS" /\ pbuf = <<"q">>
  BY DEF ParserIs
<1>2. DcsChar("ST") /\ Consume /\ (u1' <=> FALSE)
  BY <1>1, WholeChar
<1>3. DcsCode(<<"q">>) /\ SetState(Normal)
  BY <1>1, <1>2 DEF DcsChar, Unprintable
<1> QED  BY <1>2, <1>3, DcsMeans DEF SetState, Gives, Ends, Becomes, ParserIs
-----------------------------------------------------------------------------
(* The next character of a code.                                           *)

BsCode == <<"ESC", "[", "BS", "m">>

(* The parser after the first j characters of a code that it read from its *)
(* beginning.                                                              *)
StateAt(c, j) ==
    IF j = 0 \/ c[1] # "ESC" THEN Normal
    ELSE IF j = 1 \/ c[2] = "(" THEN "ESC"
    ELSE IF c[2] = "[" THEN "CSI" ELSE "DCS"
BufAt(c, j) ==
    IF j < 2 \/ c[1] # "ESC" THEN <<>>
    ELSE IF c[2] = "(" THEN <<"(">>
    ELSE IF j = 2 \/ c[3] = "BS" THEN <<>>
    ELSE IF j = 3 THEN <<c[3]>> ELSE <<c[3], c[4]>>
HalfAt(c, j) == j = 1 /\ c[1] = "u1"

Parser(c, j) == ParserIs(StateAt(c, j), BufAt(c, j), HalfAt(c, j))
NextParser(c, j) == Becomes(StateAt(c, j), BufAt(c, j), HalfAt(c, j))

(* What a code does at its end.                                            *)
Spoken(c) == Last(Meaning(c))
Finished(c) ==
    IF c \in Begin THEN BeginUpdate
    ELSE IF c \in End THEN EndUpdate
    ELSE Handle(Spoken(c)) /\ Same

(* The code was read up to its j-th character, and its next is read.       *)
CodeStep(c, j) ==
    /\ Consume
    /\ IF j + 1 = Len(c) THEN Becomes(Normal, <<>>, FALSE) /\ Finished(c)
       ELSE /\ NextParser(c, j + 1)
            /\ IF c = BsCode /\ j = 2 THEN ControlDone ELSE Nothing

ModeCode(x) == <<"ESC", "[", "?", x>>
DcsBody(x) == <<"ESC", "P", x, "ESC", "\\">>
ColorCode == <<"ESC", "[", "3", "m">>
CharsetCode == <<"ESC", "(", "B">>
SevenCode == <<"ESC", "P", "ESC", "7">>
HalvesCode == <<"u1", "u2">>

LEMMA CodesAre ==
    /\ Begin = {ModeCode("h"), DcsBody("1s")}
    /\ End = {ModeCode("l"), DcsBody("2s")}
    /\ Codes = Begin \cup End \cup
         {<<"a">>, HalvesCode, CharsetCode, ColorCode, BsCode, DcsBody("q"), SevenCode}
BY DEF Begin, End, Codes, ModeCode, DcsBody, ColorCode, CharsetCode, SevenCode, HalvesCode, BsCode

LEMMA MeaningIs ==
    /\ \A c \in Begin \cup End : Meaning(c) = <<>>
    /\ Meaning(<<"a">>) = << <<"a">> >>
    /\ Meaning(HalvesCode) = << <<"u">> >>
    /\ Meaning(CharsetCode) = << <<"ESC", "(", "B">> >>
    /\ Meaning(ColorCode) = << <<"CSI", "3", "m">> >>
    /\ Meaning(BsCode) = << <<"BS">>, <<"CSI", "m">> >>
    /\ Meaning(DcsBody("q")) = << <<"DCS", "q", "ST">> >>
    /\ Meaning(SevenCode) = << <<"ESC", "7">> >>
<1>1. \A c \in Begin \cup End : Meaning(c) = <<>>
  BY DEF Meaning, Begin, End
<1>2. Meaning(<<"a">>) = << <<"a">> >>
  BY DEF Meaning, Begin, End
<1>3. Meaning(HalvesCode) = << <<"u">> >>
  BY DEF Meaning, Begin, End, HalvesCode
<1>4. Meaning(CharsetCode) = << <<"ESC", "(", "B">> >>
  BY DEF Meaning, Begin, End, CharsetCode
<1>5. Meaning(ColorCode) = << <<"CSI", "3", "m">> >>
  BY DEF Meaning, Begin, End, ColorCode
<1>6. Meaning(BsCode) = << <<"BS">>, <<"CSI", "m">> >>
  BY DEF Meaning, Begin, End, BsCode
<1>7. Meaning(DcsBody("q")) = << <<"DCS", "q", "ST">> >>
  BY DEF Meaning, Begin, End, DcsBody
<1>8. Meaning(SevenCode) = << <<"ESC", "7">> >>
  BY DEF Meaning, Begin, End, SevenCode
<1> QED  BY <1>1, <1>2, <1>3, <1>4, <1>5, <1>6, <1>7, <1>8

LEMMA SpokenIs ==
    /\ \A c \in {<<"a">>, HalvesCode, CharsetCode, ColorCode, BsCode, DcsBody("q"), SevenCode} :
            c \notin Begin /\ c \notin End
    /\ \A c \in End : c \notin Begin
    /\ Spoken(<<"a">>) = <<"a">>
    /\ Spoken(HalvesCode) = <<"u">>
    /\ Spoken(CharsetCode) = <<"ESC", "(", "B">>
    /\ Spoken(ColorCode) = <<"CSI", "3", "m">>
    /\ Spoken(BsCode) = <<"CSI", "m">>
    /\ Spoken(DcsBody("q")) = <<"DCS", "q", "ST">>
    /\ Spoken(SevenCode) = <<"ESC", "7">>
<1>1. \A c \in {<<"a">>, HalvesCode, CharsetCode, ColorCode, BsCode, DcsBody("q"), SevenCode} :
            c \notin Begin /\ c \notin End
  BY DEF Begin, End, ModeCode, DcsBody, ColorCode, CharsetCode, SevenCode, HalvesCode, BsCode
<1>2. \A c \in End : c \notin Begin
  BY DEF Begin, End
<1>3. Spoken(<<"a">>) = <<"a">> /\ Spoken(HalvesCode) = <<"u">>
  BY MeaningIs, ShortTuples, Zenon DEF Spoken
<1>4. Spoken(CharsetCode) = <<"ESC", "(", "B">> /\ Spoken(ColorCode) = <<"CSI", "3", "m">>
  BY MeaningIs, ShortTuples, Zenon DEF Spoken
<1>5. Spoken(DcsBody("q")) = <<"DCS", "q", "ST">> /\ Spoken(SevenCode) = <<"ESC", "7">>
  BY MeaningIs, ShortTuples, Zenon DEF Spoken
<1>6. Spoken(BsCode) = <<"CSI", "m">>
  <2>1. Last(<< <<"BS">>, <<"CSI", "m">> >>) = <<"CSI", "m">>
    BY ShortTuples, Zenon
  <2> QED  BY <2>1, MeaningIs, Zenon DEF Spoken
<1> QED  BY <1>1, <1>2, <1>3, <1>4, <1>5, <1>6

(* The first characters of the codes that begin with an escape.            *)
LEMMA EscBegins ==
    ASSUME NEW c, c[1] = "ESC", c[2] \in {"[", "P", "("}, Len(c) > 2,
           NEW j \in {0, 1}, Parser(c, j), Head(Source) = c[j + 1], Decode
    PROVE  CodeStep(c, j)
<1>1. CASE j = 0
  <2>1. ParserIs(Normal, <<>>, FALSE) /\ Head(Source) = "ESC"
    BY <1>1 DEF Parser, StateAt, BufAt, HalfAt, ParserIs
  <2>2. Goes("ESC", <<>>)
    BY <2>1, StepIntroducer DEF Introducers
  <2>3. StateAt(c, 1) = "ESC" /\ BufAt(c, 1) = <<>> /\ (HalfAt(c, 1) <=> FALSE)
    BY DEF StateAt, BufAt, HalfAt
  <2>4. j + 1 = 1 /\ 1 # Len(c) /\ j # 2
    BY <1>1
  <2> QED  BY <2>2, <2>3, <2>4 DEF CodeStep, NextParser, Goes, Becomes
<1>2. CASE j = 1
  <2>1. ParserIs("ESC", <<>>, FALSE) /\ Head(Source) = c[2]
    BY <1>2 DEF Parser, StateAt, BufAt, HalfAt, ParserIs
  <2>2. Goes(StateAt(c, 2), BufAt(c, 2))
    <3>1. CASE c[2] = "["
      BY <2>1, <3>1, StepEsc DEF StateAt, BufAt
    <3>2. CASE c[2] = "P"
      BY <2>1, <3>2, StepEsc DEF StateAt, BufAt
    <3>3. CASE c[2] = "("
      BY <2>1, <3>3, StepEsc DEF StateAt, BufAt
    <3> QED  BY <3>1, <3>2, <3>3
  <2>3. HalfAt(c, 2) <=> FALSE
    BY DEF HalfAt
  <2>4. j + 1 = 2 /\ 2 # Len(c) /\ j # 2
    BY <1>2
  <2> QED  BY <2>2, <2>3, <2>4 DEF CodeStep, NextParser, Goes, Becomes
<1> QED  BY <1>1, <1>2

LEMMA TextStep ==
    ASSUME Parser(<<"a">>, 0), Head(Source) = "a", Decode
    PROVE  CodeStep(<<"a">>, 0)
<1>1. ParserIs(Normal, <<>>, FALSE)
  BY DEF Parser, StateAt, BufAt, HalfAt, ParserIs
<1>2. Consume /\ ParserIs(Normal, <<>>, FALSE)' /\ Handle(<<"a">>) /\ Same
  BY <1>1, StepText DEF Introducers, ParserIs, Becomes
<1>3. Finished(<<"a">>) /\ Len(<<"a">>) = 1
  BY <1>2, SpokenIs DEF Finished
<1> QED  BY <1>2, <1>3 DEF CodeStep, Becomes, ParserIs

LEMMA HalvesStep ==
    ASSUME NEW j \in {0, 1}, Parser(HalvesCode, j), Head(Source) = HalvesCode[j + 1], Decode
    PROVE  CodeStep(HalvesCode, j)
<1>0. Len(HalvesCode) = 2 /\ HalvesCode[1] = "u1" /\ HalvesCode[2] = "u2" /\ HalvesCode # BsCode
  BY DEF HalvesCode, BsCode
<1>1. CASE j = 0
  <2>1. ParserIs(Normal, <<>>, FALSE) /\ Head(Source) = "u1"
    BY <1>0, <1>1 DEF Parser, StateAt, BufAt, HalfAt, ParserIs
  <2>2. Consume /\ Becomes(Normal, <<>>, TRUE) /\ Nothing
    BY <2>1 DEF Decode, ParserIs, Becomes
  <2> QED  BY <1>0, <1>1, <2>2 DEF CodeStep, NextParser, StateAt, BufAt, HalfAt, Becomes
<1>2. CASE j = 1
  <2>1. ParserIs(Normal, <<>>, TRUE) /\ Head(Source) = "u2"
    BY <1>0, <1>2 DEF Parser, StateAt, BufAt, HalfAt, ParserIs
  <2>2. Consume /\ (u1' <=> FALSE) /\ Char("u")
    BY <2>1 DEF Decode, ParserIs
  <2>3. NormalChar("u")
    BY <2>1, <2>2 DEF Char, ParserIs, Normal
  <2>4. Handle(<<"u">>) /\ Same /\ Becomes(Normal, <<>>, FALSE)
    BY <2>1, <2>2, <2>3 DEF NormalChar, Introducers, ParserIs, Becomes
  <2>5. Finished(HalvesCode)
    BY <2>4, SpokenIs DEF Finished
  <2>6. j + 1 = Len(HalvesCode)
    BY <1>0, <1>2
  <2> QED  BY <2>2, <2>4, <2>5, <2>6 DEF CodeStep
<1> QED  BY <1>1, <1>2

LEMMA CharsetStep ==
    ASSUME NEW j \in 0..2, Parser(CharsetCode, j), Head(Source) = CharsetCode[j + 1], Decode
    PROVE  CodeStep(CharsetCode, j)
<1>0. Len(CharsetCode) = 3 /\ CharsetCode[1] = "ESC" /\ CharsetCode[2] = "(" /\ CharsetCode[3] = "B"
  BY DEF CharsetCode
<1>1. CASE j \in {0, 1}
  <2>1. Len(CharsetCode) > 2 /\ CharsetCode[1] = "ESC" /\ CharsetCode[2] \in {"[", "P", "("}
    BY <1>0
  <2> QED  BY <1>1, <2>1, EscBegins, Zenon
<1>2. CASE j = 2
  <2>1. ParserIs("ESC", <<"(">>, FALSE) /\ Head(Source) = "B"
    BY <1>0, <1>2 DEF Parser, StateAt, BufAt, HalfAt, ParserIs
  <2>2. Gives(<<"ESC", "(", "B">>)
    BY <2>1, StepCharset
  <2>3. Finished(CharsetCode)
    BY <2>2, SpokenIs DEF Finished, Gives
  <2>4. j + 1 = Len(CharsetCode)
    BY <1>0, <1>2
  <2> QED  BY <2>2, <2>3, <2>4 DEF CodeStep, Gives, Ends
<1> QED  BY <1>1, <1>2

LEMMA ColorStep ==
    ASSUME NEW j \in 0..3, Parser(ColorCode, j), Head(Source) = ColorCode[j + 1], Decode
    PROVE  CodeStep(ColorCode, j)
<1>0. Len(ColorCode) = 4 /\ ColorCode[1] = "ESC" /\ ColorCode[2] = "[" /\ ColorCode[3] = "3"
      /\ ColorCode[4] = "m" /\ ColorCode # BsCode
  BY DEF ColorCode, BsCode
<1>1. CASE j \in {0, 1}
  <2>1. Len(ColorCode) > 2 /\ ColorCode[1] = "ESC" /\ ColorCode[2] \in {"[", "P", "("}
    BY <1>0
  <2> QED  BY <1>1, <2>1, EscBegins, Zenon
<1>2. CASE j = 2
  <2>1. ParserIs("CSI", <<>>, FALSE) /\ Head(Source) = "3"
    BY <1>0, <1>2 DEF Parser, StateAt, BufAt, HalfAt, ParserIs
  <2>2. Goes("CSI", <<"3">>)
    BY <2>1, StepCsi
  <2> QED  BY <1>0, <1>2, <2>2 DEF CodeStep, NextParser, StateAt, BufAt, HalfAt, Goes, Becomes
<1>3. CASE j = 3
  <2>1. ParserIs("CSI", <<"3">>, FALSE) /\ Head(Source) = "m"
    BY <1>0, <1>3 DEF Parser, StateAt, BufAt, HalfAt, ParserIs
  <2>2. Gives(<<"CSI", "3", "m">>)
    BY <2>1, StepCsiColor
  <2>3. Finished(ColorCode)
    BY <2>2, SpokenIs DEF Finished, Gives
  <2>4. j + 1 = Len(ColorCode)
    BY <1>0, <1>3
  <2> QED  BY <2>2, <2>3, <2>4 DEF CodeStep, Gives, Ends
<1> QED  BY <1>1, <1>2, <1>3

LEMMA BsStep ==
    ASSUME NEW j \in 0..3, Parser(BsCode, j), Head(Source) = BsCode[j + 1], Decode
    PROVE  CodeStep(BsCode, j)
<1>0. Len(BsCode) = 4 /\ BsCode[1] = "ESC" /\ BsCode[2] = "[" /\ BsCode[3] = "BS" /\ BsCode[4] = "m"
  BY DEF BsCode
<1>1. CASE j \in {0, 1}
  <2>1. Len(BsCode) > 2 /\ BsCode[1] = "ESC" /\ BsCode[2] \in {"[", "P", "("}
    BY <1>0
  <2> QED  BY <1>1, <2>1, EscBegins, Zenon
<1>2. CASE j = 2
  <2>1. ParserIs("CSI", <<>>, FALSE) /\ Head(Source) = "BS"
    BY <1>0, <1>2 DEF Parser, StateAt, BufAt, HalfAt, ParserIs
  <2>2. Consume /\ Becomes("CSI", <<>>, FALSE) /\ ControlDone
    BY <2>1, StepCsi
  <2> QED  BY <1>0, <1>2, <2>2 DEF CodeStep, NextParser, StateAt, BufAt, HalfAt, Becomes
<1>3. CASE j = 3
  <2>1. ParserIs("CSI", <<>>, FALSE) /\ Head(Source) = "m"
    BY <1>0, <1>3 DEF Parser, StateAt, BufAt, HalfAt, ParserIs
  <2>2. Gives(<<"CSI", "m">>)
    BY <2>1, StepCsi
  <2>3. Finished(BsCode)
    BY <2>2, SpokenIs DEF Finished, Gives
  <2>4. j + 1 = Len(BsCode)
    BY <1>0, <1>3
  <2> QED  BY <2>2, <2>3, <2>4 DEF CodeStep, Gives, Ends
<1> QED  BY <1>1, <1>2, <1>3

LEMMA ModeStep ==
    ASSUME NEW x \in {"h", "l"}, NEW j \in 0..3, Parser(ModeCode(x), j),
           Head(Source) = ModeCode(x)[j + 1], Decode
    PROVE  CodeStep(ModeCode(x), j)
<1> DEFINE c == ModeCode(x)
<1>0. Len(c) = 4 /\ c[1] = "ESC" /\ c[2] = "[" /\ c[3] = "?" /\ c[4] = x /\ c # BsCode
  BY DEF ModeCode, BsCode
<1> HIDE DEF c
<1>a. Parser(c, j) /\ Head(Source) = c[j + 1]
  BY DEF c
<1>1. CASE j \in {0, 1}
  <2>0. Len(c) > 2 /\ c[1] = "ESC" /\ c[2] \in {"[", "P", "("}
    BY <1>0
  <2>1. CodeStep(c, j)
    BY <1>1, <1>a, <2>0, EscBegins, Zenon
  <2> QED  BY <2>1 DEF c
<1>2. CASE j = 2
  <2>1. ParserIs("CSI", <<>>, FALSE) /\ Head(Source) = "?"
    BY <1>0, <1>2, <1>a DEF Parser, StateAt, BufAt, HalfAt, ParserIs
  <2>2. Goes("CSI", <<"?">>)
    BY <2>1, StepCsi
  <2>3. CodeStep(c, j)
    BY <1>0, <1>2, <2>2 DEF CodeStep, NextParser, StateAt, BufAt, HalfAt, Goes, Becomes
  <2> QED  BY <2>3 DEF c
<1>3. CASE j = 3
  <2>1. ParserIs("CSI", <<"?">>, FALSE) /\ Head(Source) = x
    BY <1>0, <1>3, <1>a DEF Parser, StateAt, BufAt, HalfAt, ParserIs
  <2>2. Ends /\ Finished(c)
    <3>1. CASE x = "h"
      BY <2>1, <3>1, StepCsiMode, CodesAre DEF Finished, c
    <3>2. CASE x = "l"
      BY <2>1, <3>2, StepCsiMode, CodesAre, SpokenIs DEF Finished, c
    <3> QED  BY <3>1, <3>2
  <2>3. j + 1 = Len(c)
    BY <1>0, <1>3
  <2>4. CodeStep(c, j)
    BY <2>2, <2>3 DEF CodeStep, Ends
  <2> QED  BY <2>4 DEF c
<1> QED  BY <1>1, <1>2, <1>3

LEMMA DcsStep ==
    ASSUME NEW x \in {"1s", "2s", "q"}, NEW j \in 0..4, Parser(DcsBody(x), j),
           Head(Source) = DcsBody(x)[j + 1], Decode
    PROVE  CodeStep(DcsBody(x), j)
<1> DEFINE c == DcsBody(x)
<1>0. Len(c) = 5 /\ c[1] = "ESC" /\ c[2] = "P" /\ c[3] = x /\ c[4] = "ESC" /\ c[5] = "\\" /\ c # BsCode
  BY DEF DcsBody, BsCode
<1> HIDE DEF c
<1>a. Parser(c, j) /\ Head(Source) = c[j + 1]
  BY DEF c
<1>1. CASE j \in {0, 1}
  <2>0. Len(c) > 2 /\ c[1] = "ESC" /\ c[2] \in {"[", "P", "("}
    BY <1>0
  <2>1. CodeStep(c, j)
    BY <1>1, <1>a, <2>0, EscBegins, Zenon
  <2> QED  BY <2>1 DEF c
<1>2. CASE j = 2
  <2>1. ParserIs("DCS", <<>>, FALSE) /\ Head(Source) = x
    BY <1>0, <1>2, <1>a DEF Parser, StateAt, BufAt, HalfAt, ParserIs
  <2>2. Goes("DCS", <<x>>)
    BY <2>1, StepDcs
  <2>3. CodeStep(c, j)
    BY <1>0, <1>2, <2>2 DEF CodeStep, NextParser, StateAt, BufAt, HalfAt, Goes, Becomes
  <2> QED  BY <2>3 DEF c
<1>3. CASE j = 3
  <2>1. ParserIs("DCS", <<x>>, FALSE) /\ Head(Source) = "ESC"
    BY <1>0, <1>3, <1>a DEF Parser, StateAt, BufAt, HalfAt, ParserIs
  <2>2. Goes("DCS", <<x, "ESC">>)
    BY <2>1, StepDcsEsc
  <2>3. CodeStep(c, j)
    BY <1>0, <1>3, <2>2 DEF CodeStep, NextParser, StateAt, BufAt, HalfAt, Goes, Becomes
  <2> QED  BY <2>3 DEF c
<1>4. CASE j = 4
  <2>1. ParserIs("DCS", <<x, "ESC">>, FALSE) /\ Head(Source) = "\\"
    BY <1>0, <1>4, <1>a DEF Parser, StateAt, BufAt, HalfAt, ParserIs
  <2>2. Ends /\ DcsCode(<<x>>)
    BY <2>1, StepDcsEnd
  <2>3. Finished(c)
    <3>1. CASE x = "1s"
      BY <2>2, <3>1, DcsMeans, CodesAre DEF Finished, c
    <3>2. CASE x = "2s"
      BY <2>2, <3>2, DcsMeans, CodesAre, SpokenIs DEF Finished, c
    <3>3. CASE x = "q"
      BY <2>2, <3>3, DcsMeans, SpokenIs DEF Finished, c
    <3> QED  BY <3>1, <3>2, <3>3
  <2>4. j + 1 = Len(c)
    BY <1>0, <1>4
  <2>5. CodeStep(c, j)
    BY <2>2, <2>3, <2>4 DEF CodeStep, Ends
  <2> QED  BY <2>5 DEF c
<1> QED  BY <1>1, <1>2, <1>3, <1>4

LEMMA SevenStep ==
    ASSUME NEW j \in 0..3, Parser(SevenCode, j), Head(Source) = SevenCode[j + 1], Decode
    PROVE  CodeStep(SevenCode, j)
<1>0. Len(SevenCode) = 4 /\ SevenCode[1] = "ESC" /\ SevenCode[2] = "P" /\ SevenCode[3] = "ESC"
      /\ SevenCode[4] = "7" /\ SevenCode # BsCode
  BY DEF SevenCode, BsCode
<1>1. CASE j \in {0, 1}
  <2>1. Len(SevenCode) > 2 /\ SevenCode[1] = "ESC" /\ SevenCode[2] \in {"[", "P", "("}
    BY <1>0
  <2> QED  BY <1>1, <2>1, EscBegins, Zenon
<1>2. CASE j = 2
  <2>1. ParserIs("DCS", <<>>, FALSE) /\ Head(Source) = "ESC"
    BY <1>0, <1>2 DEF Parser, StateAt, BufAt, HalfAt, ParserIs
  <2>2. Goes("DCS", <<"ESC">>)
    BY <2>1, StepDcs
  <2> QED  BY <1>0, <1>2, <2>2 DEF CodeStep, NextParser, StateAt, BufAt, HalfAt, Goes, Becomes
<1>3. CASE j = 3
  <2>1. ParserIs("DCS", <<"ESC">>, FALSE) /\ Head(Source) = "7"
    BY <1>0, <1>3 DEF Parser, StateAt, BufAt, HalfAt, ParserIs
  <2>2. Gives(<<"ESC", "7">>)
    BY <2>1, StepDcsSeven
  <2>3. Finished(SevenCode)
    BY <2>2, SpokenIs DEF Finished, Gives
  <2>4. j + 1 = Len(SevenCode)
    BY <1>0, <1>3
  <2> QED  BY <2>2, <2>3, <2>4 DEF CodeStep, Gives, Ends
<1> QED  BY <1>1, <1>2, <1>3

LEMMA NextOfCode ==
    ASSUME NEW c \in Codes, NEW j \in 0..(Len(c) - 1), Parser(c, j), Head(Source) = c[j + 1], Decode
    PROVE  CodeStep(c, j)
<1>1. CASE c = <<"a">>
  <2>1. j = 0 /\ <<"a">>[1] = "a"
    BY <1>1
  <2> QED  BY <1>1, <2>1, TextStep
<1>2. CASE c = HalvesCode
  <2>1. j \in {0, 1}
    BY <1>2 DEF HalvesCode
  <2> QED  BY <1>2, <2>1, HalvesStep
<1>3. CASE c = CharsetCode
  <2>1. j \in 0..2
    BY <1>3 DEF CharsetCode
  <2> QED  BY <1>3, <2>1, CharsetStep
<1>4. CASE c = ColorCode
  <2>1. j \in 0..3
    BY <1>4 DEF ColorCode
  <2> QED  BY <1>4, <2>1, ColorStep
<1>5. CASE c = BsCode
  <2>1. j \in 0..3
    BY <1>5 DEF BsCode
  <2> QED  BY <1>5, <2>1, BsStep
<1>6. ASSUME NEW x \in {"h", "l"}, c = ModeCode(x) PROVE CodeStep(c, j)
  <2>1. j \in 0..3
    BY <1>6 DEF ModeCode
  <2> QED  BY <1>6, <2>1, ModeStep
<1>7. ASSUME NEW x \in {"1s", "2s", "q"}, c = DcsBody(x) PROVE CodeStep(c, j)
  <2>1. j \in 0..4
    BY <1>7 DEF DcsBody
  <2> QED  BY <1>7, <2>1, DcsStep
<1>8. CASE c = SevenCode
  <2>1. j \in 0..3
    BY <1>8 DEF SevenCode
  <2> QED  BY <1>8, <2>1, SevenStep
<1> QED  BY <1>1, <1>2, <1>3, <1>4, <1>5, <1>6, <1>7, <1>8, CodesAre
-----------------------------------------------------------------------------
(* The next character of the pending buffer.  It has whole codes, and at   *)
(* its end there may be what was read of a code when the update was given  *)
(* up.                                                                     *)

Forms ==
    {<<"a">>, HalvesCode, CharsetCode, <<"CSI", "3", "m">>, <<"CSI", "m">>, <<"DCS", "q", "ST">>,
     <<"ESC", "7">>}
Tails ==
    {<<"ESC", "(">>, <<"CSI", "3">>, <<"CSI", "?">>}
    \cup {<<"DCS", x>> : x \in {"1s", "2s", "q", "ESC"}}
    \cup {<<"DCS", x, "ESC">> : x \in {"1s", "2s", "q"}}

(* What a code in the buffer is to the dispatch functions.                 *)
Said(f) == IF f = HalvesCode THEN <<"u">> ELSE f

(* The parser after i characters of a code, or of what is at the end.      *)
FormParser(f, i) ==
    IF i = 0 THEN state = Normal /\ ~u1
    ELSE IF f = HalvesCode THEN state = Normal /\ u1
    ELSE ParserIs(f[1], IF i = 1 THEN <<>> ELSE <<f[2]>>, FALSE)
TailBuf(t, i) == IF i = 1 THEN <<>> ELSE IF i = 2 THEN <<t[2]>> ELSE <<t[2], t[3]>>
TailParser(t, i) ==
    IF i = 0 THEN state = Normal /\ ~u1 ELSE ParserIs(t[1], TailBuf(t, i), FALSE)

(* The same in the next state.                                             *)
NextFormParser(f, i) ==
    IF f = HalvesCode THEN state' = Normal /\ u1' /\ pbuf' = pbuf
    ELSE Becomes(f[1], IF i = 1 THEN <<>> ELSE <<f[2]>>, FALSE)

(* A code of the buffer may leave in parser_buf what an earlier one left   *)
(* there; the next introducer clears it.                                   *)
FormStep(f, i) ==
    /\ Consume
    /\ IF i + 1 = Len(f)
       THEN /\ Handle(Said(f)) /\ Same /\ state' = Normal /\ ~u1'
            /\ pbuf' = <<>> \/ (state = Normal /\ pbuf' = pbuf)
       ELSE NextFormParser(f, i + 1) /\ Nothing

LEMMA NextOfText ==
    ASSUME FormParser(<<"a">>, 0), Head(Source) = "a", Decode
    PROVE  FormStep(<<"a">>, 0)
<1>1. ParserIs(Normal, pbuf, FALSE)
  BY DEF FormParser, ParserIs
<1>2. ~u1 /\ state = Normal /\ "a" \notin {"u1", "u2"} /\ "a" \notin Introducers
  BY DEF FormParser, Introducers
<1>3. NormalChar("a") /\ Consume /\ (u1' <=> FALSE)
  BY <1>2, WholeChar
<1>4. Handle(<<"a">>) /\ Same /\ state' = Normal /\ pbuf' = pbuf
  BY <1>2, <1>3 DEF NormalChar
<1>5. Said(<<"a">>) = <<"a">> /\ Len(<<"a">>) = 1
  BY DEF Said, HalvesCode
<1> QED  BY <1>2, <1>3, <1>4, <1>5 DEF FormStep

LEMMA NextOfHalves ==
    ASSUME NEW i \in {0, 1}, FormParser(HalvesCode, i), Head(Source) = HalvesCode[i + 1], Decode
    PROVE  FormStep(HalvesCode, i)
<1>0. Len(HalvesCode) = 2 /\ HalvesCode[1] = "u1" /\ HalvesCode[2] = "u2" /\ Said(HalvesCode) = <<"u">>
  BY DEF HalvesCode, Said
<1>1. CASE i = 0
  <2>1. state = Normal /\ ~u1 /\ Head(Source) = "u1"
    BY <1>0, <1>1 DEF FormParser
  <2>2. Consume /\ state' = Normal /\ u1' /\ pbuf' = pbuf /\ Nothing
    BY <2>1 DEF Decode
  <2> QED  BY <1>0, <1>1, <2>2 DEF FormStep, NextFormParser
<1>2. CASE i = 1
  <2>1. state = Normal /\ u1 /\ Head(Source) = "u2"
    BY <1>0, <1>2 DEF FormParser
  <2>2. Consume /\ (u1' <=> FALSE) /\ Char("u")
    BY <2>1 DEF Decode
  <2>3. NormalChar("u")
    BY <2>1, <2>2 DEF Char, Normal
  <2>4. Handle(<<"u">>) /\ Same /\ state' = Normal /\ pbuf' = pbuf
    BY <2>1, <2>2, <2>3 DEF NormalChar, Introducers
  <2>5. i + 1 = Len(HalvesCode)
    BY <1>0, <1>2
  <2> QED  BY <1>0, <2>1, <2>2, <2>4, <2>5 DEF FormStep
<1> QED  BY <1>1, <1>2

(* Codes that have an introducer.                                          *)
LEMMA FormBegins ==
    ASSUME NEW f, f[1] \in Introducers, Len(f) \in {2, 3}, f # HalvesCode, FormParser(f, 0),
           Head(Source) = f[1], Decode
    PROVE  FormStep(f, 0)
<1>1. ParserIs(Normal, pbuf, FALSE)
  BY DEF FormParser, ParserIs
<1>2. ~u1 /\ state = Normal /\ f[1] \notin {"u1", "u2"}
  BY DEF FormParser, Introducers
<1>3. NormalChar(f[1]) /\ Consume /\ (u1' <=> FALSE)
  BY <1>2, WholeChar
<1>4. Becomes(f[1], <<>>, FALSE) /\ Nothing
  BY <1>3 DEF NormalChar, SetState, Becomes
<1>5. 0 + 1 = 1 /\ 1 # Len(f) /\ f # HalvesCode
  OBVIOUS
<1> QED  BY <1>3, <1>4, <1>5 DEF FormStep, NextFormParser

LEMMA FormEnds ==
    ASSUME NEW f, NEW i, i + 1 = Len(f), f # HalvesCode, Gives(f)
    PROVE  FormStep(f, i)
BY DEF FormStep, Gives, Ends, Becomes, Said

LEMMA FormGoes ==
    ASSUME NEW f, f # HalvesCode, Len(f) # 2, Goes(f[1], <<f[2]>>)
    PROVE  FormStep(f, 1)
BY DEF FormStep, NextFormParser, Goes, Becomes

LEMMA NextOfForm ==
    ASSUME NEW f \in Forms, NEW i \in 0..(Len(f) - 1), FormParser(f, i), Head(Source) = f[i + 1], Decode
    PROVE  FormStep(f, i)
<1>1. CASE f = <<"a">>
  <2>1. i = 0 /\ <<"a">>[1] = "a"
    BY <1>1
  <2> QED  BY <1>1, <2>1, NextOfText
<1>2. CASE f = HalvesCode
  <2>1. i \in {0, 1}
    BY <1>2 DEF HalvesCode
  <2> QED  BY <1>2, <2>1, NextOfHalves
<1>3. CASE f \notin {<<"a">>, HalvesCode} /\ i = 0
  <2>1. f[1] \in Introducers /\ Len(f) \in {2, 3} /\ f # HalvesCode
    BY <1>3 DEF Forms, CharsetCode, Introducers
  <2>2. Head(Source) = f[1]
    BY <1>3
  <2> QED  BY <1>3, <2>1, <2>2, FormBegins
<1>4. CASE f = CharsetCode /\ i # 0
  <2>0. Len(f) = 3 /\ f[1] = "ESC" /\ f[2] = "(" /\ f[3] = "B" /\ f # HalvesCode
    BY <1>4 DEF CharsetCode, HalvesCode
  <2>1. CASE i = 1
    <3>1. ParserIs("ESC", <<>>, FALSE) /\ Head(Source) = "("
      BY <2>0, <2>1 DEF FormParser, ParserIs
    <3>2. Goes(f[1], <<f[2]>>)
      BY <2>0, <3>1, StepEsc
    <3> QED  BY <2>0, <2>1, <3>2, FormGoes
  <2>2. CASE i = 2
    <3>1. ParserIs("ESC", <<"(">>, FALSE) /\ Head(Source) = "B"
      BY <2>0, <2>2 DEF FormParser, ParserIs
    <3>2. Gives(f)
      BY <1>4, <3>1, StepCharset DEF CharsetCode
    <3>3. i + 1 = Len(f)
      BY <2>0, <2>2
    <3> QED  BY <2>0, <3>2, <3>3, FormEnds
  <2> QED  BY <1>4, <2>0, <2>1, <2>2
<1>5. CASE f = <<"CSI", "3", "m">> /\ i # 0
  <2>0. Len(f) = 3 /\ f[1] = "CSI" /\ f[2] = "3" /\ f[3] = "m" /\ f # HalvesCode
    BY <1>5 DEF HalvesCode
  <2>1. CASE i = 1
    <3>1. ParserIs("CSI", <<>>, FALSE) /\ Head(Source) = "3"
      BY <2>0, <2>1 DEF FormParser, ParserIs
    <3>2. Goes(f[1], <<f[2]>>)
      BY <2>0, <3>1, StepCsi
    <3> QED  BY <2>0, <2>1, <3>2, FormGoes
  <2>2. CASE i = 2
    <3>1. ParserIs("CSI", <<"3">>, FALSE) /\ Head(Source) = "m"
      BY <2>0, <2>2 DEF FormParser, ParserIs
    <3>2. Gives(f)
      BY <1>5, <3>1, StepCsiColor
    <3>3. i + 1 = Len(f)
      BY <2>0, <2>2
    <3> QED  BY <2>0, <3>2, <3>3, FormEnds
  <2> QED  BY <1>5, <2>0, <2>1, <2>2
<1>6. CASE f = <<"CSI", "m">> /\ i # 0
  <2>0. Len(f) = 2 /\ f[1] = "CSI" /\ f[2] = "m" /\ f # HalvesCode /\ i = 1
    BY <1>6 DEF HalvesCode
  <2>1. ParserIs("CSI", <<>>, FALSE) /\ Head(Source) = "m"
    BY <2>0 DEF FormParser, ParserIs
  <2>2. Gives(f)
    BY <1>6, <2>1, StepCsi
  <2>3. i + 1 = Len(f)
    BY <2>0
  <2> QED  BY <2>0, <2>2, <2>3, FormEnds
<1>7. CASE f = <<"DCS", "q", "ST">> /\ i # 0
  <2>0. Len(f) = 3 /\ f[1] = "DCS" /\ f[2] = "q" /\ f[3] = "ST" /\ f # HalvesCode
    BY <1>7 DEF HalvesCode
  <2>1. CASE i = 1
    <3>1. ParserIs("DCS", <<>>, FALSE) /\ Head(Source) = "q"
      BY <2>0, <2>1 DEF FormParser, ParserIs
    <3>2. Goes(f[1], <<f[2]>>)
      BY <2>0, <3>1, StepDcs
    <3> QED  BY <2>0, <2>1, <3>2, FormGoes
  <2>2. CASE i = 2
    <3>1. ParserIs("DCS", <<"q">>, FALSE) /\ Head(Source) = "ST"
      BY <2>0, <2>2 DEF FormParser, ParserIs
    <3>2. Gives(f)
      BY <1>7, <3>1, StepDcsQueued
    <3>3. i + 1 = Len(f)
      BY <2>0, <2>2
    <3> QED  BY <2>0, <3>2, <3>3, FormEnds
  <2> QED  BY <1>7, <2>0, <2>1, <2>2
<1>8. CASE f = <<"ESC", "7">> /\ i # 0
  <2>0. Len(f) = 2 /\ f[1] = "ESC" /\ f[2] = "7" /\ f # HalvesCode /\ i = 1
    BY <1>8 DEF HalvesCode
  <2>1. ParserIs("ESC", <<>>, FALSE) /\ Head(Source) = "7"
    BY <2>0 DEF FormParser, ParserIs
  <2>2. Gives(f)
    BY <1>8, <2>1, StepEsc
  <2>3. i + 1 = Len(f)
    BY <2>0
  <2> QED  BY <2>0, <2>2, <2>3, FormEnds
<1> QED  BY <1>1, <1>2, <1>3, <1>4, <1>5, <1>6, <1>7, <1>8 DEF Forms

LEMMA NextOfTail ==
    ASSUME NEW t \in Tails, NEW i \in 0..(Len(t) - 1), TailParser(t, i), Head(Source) = t[i + 1], Decode
    PROVE  Goes(t[1], TailBuf(t, i + 1))
<1>1. CASE i = 0
  <2>1. ParserIs(Normal, pbuf, FALSE)
    BY <1>1 DEF TailParser, ParserIs
  <2>2. t[1] \in Introducers /\ Head(Source) = t[1]
    BY <1>1 DEF Tails, Introducers
  <2>3. Goes(t[1], <<>>)
    BY <2>1, <2>2, StepIntroducer
  <2>4. TailBuf(t, i + 1) = <<>>
    BY <1>1 DEF TailBuf
  <2> QED  BY <2>3, <2>4
<1>2. CASE i = 1
  <2>1. ParserIs(t[1], <<>>, FALSE) /\ Head(Source) = t[2]
    BY <1>2 DEF TailParser, TailBuf, ParserIs
  <2>2. TailBuf(t, i + 1) = <<t[2]>>
    BY <1>2 DEF TailBuf
  <2>3. CASE t[1] = "ESC" /\ t[2] = "("
    BY <2>1, <2>2, <2>3, StepEsc
  <2>4. CASE t[1] = "CSI" /\ t[2] \in {"3", "?"}
    BY <2>1, <2>2, <2>4, StepCsi
  <2>5. CASE t[1] = "DCS" /\ t[2] \in {"1s", "2s", "q", "ESC"}
    BY <2>1, <2>2, <2>5, StepDcs
  <2>6. \/ t[1] = "ESC" /\ t[2] = "("
        \/ t[1] = "CSI" /\ t[2] \in {"3", "?"}
        \/ t[1] = "DCS" /\ t[2] \in {"1s", "2s", "q", "ESC"}
    BY DEF Tails
  <2> QED  BY <2>3, <2>4, <2>5, <2>6
<1>3. CASE i = 2
  <2>1. t[1] = "DCS" /\ t[2] \in {"1s", "2s", "q"} /\ t[3] = "ESC"
    BY <1>3 DEF Tails
  <2>2. ParserIs("DCS", <<t[2]>>, FALSE) /\ Head(Source) = "ESC"
    BY <1>3, <2>1 DEF TailParser, TailBuf, ParserIs
  <2>3. TailBuf(t, i + 1) = <<t[2], "ESC">>
    BY <1>3, <2>1 DEF TailBuf
  <2> QED  BY <2>1, <2>2, <2>3, StepDcsEsc
<1>4. i \in {0, 1, 2}
  BY DEF Tails
<1> QED  BY <1>1, <1>2, <1>3, <1>4
-----------------------------------------------------------------------------
(* How many bytes a sequence of characters has.                            *)
WideChars == {"CSI", "DCS", "ST"}
Width(x) == IF x \in WideChars THEN 2 ELSE 1

LEMMA BytesType ==
    ASSUME NEW S, NEW s \in Seq(S)
    PROVE  IsFiniteSet(Wide(s)) /\ Bytes(s) \in Nat /\ Bytes(s) >= Len(s)
<1>1. Len(s) \in Nat /\ DOMAIN s = 1..Len(s)
  OBVIOUS
<1>2. IsFiniteSet(1..Len(s))
  BY <1>1, FS_Interval
<1>3. Wide(s) \subseteq 1..Len(s)
  BY <1>1 DEF Wide
<1>4. IsFiniteSet(Wide(s))
  BY <1>2, <1>3, FS_Subset
<1>5. Cardinality(Wide(s)) \in Nat
  BY <1>4, FS_CardinalityType
<1> QED  BY <1>1, <1>4, <1>5 DEF Bytes

LEMMA BytesOfNone ==
    Bytes(<<>>) = 0
<1>1. Wide(<<>>) = {} /\ Len(<<>>) = 0
  BY DEF Wide
<1>2. Cardinality({}) = 0
  BY FS_EmptySet
<1>3. Bytes(<<>>) = 0 + 0
  BY <1>1, <1>2, Zenon DEF Bytes
<1> QED  BY <1>3

LEMMA BytesAppend ==
    ASSUME NEW S, NEW s \in Seq(S), NEW x \in S
    PROVE  Bytes(Append(s, x)) = Bytes(s) + Width(x)
<1> DEFINE t == Append(s, x)
           n == Len(s) + 1
<1>1. /\ t \in Seq(S) /\ Len(t) = n /\ t[n] = x /\ DOMAIN t = 1..n /\ DOMAIN s = 1..Len(s)
      /\ \A i \in 1..Len(s) : t[i] = s[i]
  OBVIOUS
<1>2. Len(s) \in Nat
  OBVIOUS
<1>3. IsFiniteSet(Wide(s)) /\ Cardinality(Wide(s)) \in Nat
  BY BytesType, FS_CardinalityType
<1> HIDE DEF t
<1>4. CASE x \in WideChars
  <2>1. Wide(t) = Wide(s) \cup {n} /\ n \notin Wide(s)
    BY <1>1, <1>2, <1>4 DEF Wide, WideChars
  <2>2. Cardinality(Wide(t)) = Cardinality(Wide(s)) + 1
    BY <1>3, <2>1, FS_AddElement
  <2> QED  BY <1>1, <1>2, <1>3, <1>4, <2>2 DEF Bytes, Width, t
<1>5. CASE x \notin WideChars
  <2>1. Wide(t) = Wide(s)
    BY <1>1, <1>2, <1>5 DEF Wide, WideChars
  <2> QED  BY <1>1, <1>2, <1>3, <1>5, <2>1 DEF Bytes, Width, t
<1> QED  BY <1>4, <1>5

LEMMA AppendConcat ==
    ASSUME NEW S, NEW s \in Seq(S), NEW t \in Seq(S), NEW x \in S
    PROVE  s \o Append(t, x) = Append(s \o t, x)
<1> DEFINE a == Append(t, x)
           l == s \o a
           b == s \o t
           r == Append(b, x)
<1>1. a \in Seq(S) /\ Len(a) = Len(t) + 1 /\ a[Len(t) + 1] = x /\ \A i \in 1..Len(t) : a[i] = t[i]
  OBVIOUS
<1>2. /\ b \in Seq(S) /\ Len(b) = Len(s) + Len(t)
      /\ \A i \in 1..Len(s) : b[i] = s[i]
      /\ \A i \in 1..Len(t) : b[Len(s) + i] = t[i]
  OBVIOUS
<1>a. Len(s) \in Nat /\ Len(t) \in Nat
  OBVIOUS
<1> HIDE DEF a, b
<1>3. /\ l \in Seq(S) /\ Len(l) = Len(s) + Len(a)
      /\ \A i \in 1..Len(s) : l[i] = s[i]
      /\ \A i \in 1..Len(a) : l[Len(s) + i] = a[i]
  BY <1>1
<1>4. r \in Seq(S) /\ Len(r) = Len(b) + 1 /\ r[Len(b) + 1] = x /\ \A i \in 1..Len(b) : r[i] = b[i]
  BY <1>2
<1>6. Len(l) = Len(r) /\ Len(l) = Len(s) + Len(t) + 1
  <2>1. Len(l) = Len(s) + Len(a) /\ Len(a) = Len(t) + 1 /\ Len(r) = Len(b) + 1 /\ Len(b) = Len(s) + Len(t)
    BY <1>1, <1>2, <1>3, <1>4
  <2> HIDE DEF l, r
  <2> QED  BY <2>1, <1>a
<1> HIDE DEF l, r
<1>5. ASSUME NEW i \in 1..Len(l) PROVE l[i] = r[i]
  <2>1. CASE i <= Len(s)
    <3>1. i \in 1..Len(s) /\ i \in 1..Len(b)
      BY <1>2, <1>a, <2>1
    <3> QED  BY <3>1, <1>2, <1>3, <1>4
  <2>2. CASE i > Len(s) /\ i <= Len(s) + Len(t)
    <3> DEFINE k == i - Len(s)
    <3>1. k \in 1..Len(t) /\ k \in 1..Len(a) /\ i \in 1..Len(b) /\ Len(s) + k = i
      BY <1>1, <1>2, <1>a, <2>2
    <3> HIDE DEF k
    <3>2. l[Len(s) + k] = a[k] /\ a[k] = t[k] /\ b[Len(s) + k] = t[k] /\ r[i] = b[i]
      BY <3>1, <1>1, <1>2, <1>3, <1>4
    <3> QED  BY <3>1, <3>2
  <2>3. CASE i = Len(s) + Len(t) + 1
    <3>1. Len(t) + 1 \in 1..Len(a) /\ i = Len(s) + (Len(t) + 1) /\ i = Len(b) + 1
      BY <1>1, <1>2, <1>a, <2>3
    <3>2. l[Len(s) + (Len(t) + 1)] = a[Len(t) + 1]
      BY <3>1, <1>3
    <3> QED  BY <3>1, <3>2, <1>1, <1>4
  <2>4. i <= Len(s) \/ (i > Len(s) /\ i <= Len(s) + Len(t)) \/ i = Len(s) + Len(t) + 1
    BY <1>6, <1>a
  <2> QED  BY <2>1, <2>2, <2>3, <2>4
<1>7. l = r
  BY <1>3, <1>4, <1>5, <1>6, SameSequence
<1> QED  BY <1>7 DEF l, r, a, b

LEMMA AppendThird ==
    ASSUME NEW x, NEW y, NEW z
    PROVE  Append(<<x, y>>, z) = <<x, y, z>>
<1> DEFINE S == {x, y, z}
           s == Append(<<x, y>>, z)
<1>1. /\ <<x, y>> \in Seq(S) /\ Len(<<x, y>>) = 2 /\ <<x, y>>[1] = x /\ <<x, y>>[2] = y /\ z \in S
      /\ <<x, y, z>> \in Seq(S) /\ Len(<<x, y, z>>) = 3
      /\ <<x, y, z>>[1] = x /\ <<x, y, z>>[2] = y /\ <<x, y, z>>[3] = z
  OBVIOUS
<1>2. ASSUME NEW u \in Seq(S), NEW e \in S
      PROVE  /\ Append(u, e) \in Seq(S) /\ Len(Append(u, e)) = Len(u) + 1
             /\ Append(u, e)[Len(u) + 1] = e
             /\ \A i \in 1..Len(u) : Append(u, e)[i] = u[i]
  OBVIOUS
<1> HIDE DEF S
<1>3. /\ s \in Seq(S) /\ Len(s) = Len(<<x, y>>) + 1
      /\ s[Len(<<x, y>>) + 1] = z
      /\ \A i \in 1..Len(<<x, y>>) : s[i] = <<x, y>>[i]
  BY <1>1, <1>2, Zenon
<1> HIDE DEF s
<1>4. Len(s) = 3 /\ s[3] = z /\ s[1] = x /\ s[2] = y
  BY <1>1, <1>3
<1>5. \A i \in 1..Len(s) : s[i] = <<x, y, z>>[i]
  <2>1. \A i \in 1..Len(s) : i = 1 \/ i = 2 \/ i = 3
    BY <1>4
  <2> QED  BY <2>1, <1>1, <1>4, Zenon
<1>6. s = <<x, y, z>>
  BY <1>1, <1>3, <1>4, <1>5, SameSequence
<1> QED  BY <1>6 DEF s

(* The bytes of a sequence that goes on with up to three characters.       *)
LEMMA BytesConcat ==
    ASSUME NEW S, NEW s \in Seq(S), NEW x \in S, NEW y \in S, NEW z \in S
    PROVE  /\ Bytes(s \o <<>>) = Bytes(s)
           /\ Bytes(s \o <<x>>) = Bytes(s) + Width(x)
           /\ Bytes(s \o <<x, y>>) = Bytes(s) + Width(x) + Width(y)
           /\ Bytes(s \o <<x, y, z>>) = Bytes(s) + Width(x) + Width(y) + Width(z)
<1> DEFINE a == Append(s, x)
           b == Append(a, y)
           c == Append(b, z)
<1>1. <<>> \in Seq(S) /\ <<x>> \in Seq(S) /\ <<x, y>> \in Seq(S) /\ s \o <<>> = s
  OBVIOUS
<1>2. a \in Seq(S)
  OBVIOUS
<1>3. b \in Seq(S)
  BY <1>2
<1>4. Append(<<>>, x) = <<x>> /\ Append(<<x>>, y) = <<x, y>> /\ Append(<<x, y>>, z) = <<x, y, z>>
  BY ShortConcat, AppendThird
<1>5. s \o <<x>> = a
  BY <1>1, <1>4, AppendConcat
<1> HIDE DEF a
<1>6. s \o <<x, y>> = b
  BY <1>1, <1>4, <1>5, AppendConcat
<1> HIDE DEF b
<1>7. s \o <<x, y, z>> = c
  BY <1>1, <1>4, <1>6, AppendConcat
<1>8. Bytes(a) = Bytes(s) + Width(x)
  BY BytesAppend DEF a
<1>9. Bytes(b) = Bytes(a) + Width(y)
  BY <1>2, BytesAppend DEF b
<1>10. Bytes(c) = Bytes(b) + Width(z)
  BY <1>3, BytesAppend
<1> HIDE DEF c
<1>11. Bytes(s \o <<>>) = Bytes(s) /\ Bytes(s \o <<x>>) = Bytes(a)
       /\ Bytes(s \o <<x, y>>) = Bytes(b) /\ Bytes(s \o <<x, y, z>>) = Bytes(c)
  BY <1>1, <1>5, <1>6, <1>7
<1> QED  BY <1>8, <1>9, <1>10, <1>11
-----------------------------------------------------------------------------
(* What is known of a code, and of what it is in the buffer.               *)
TextCodes == {<<"a">>, HalvesCode, CharsetCode, ColorCode, BsCode, DcsBody("q"), SevenCode}

Queued(c) == IF Spoken(c) = <<"u">> THEN HalvesCode ELSE Spoken(c)

LEMMA CodeLength ==
    ASSUME NEW c \in Codes
    PROVE  Len(c) \in 1..5 /\ (Len(c) = 1 => c = <<"a">>)
<1>1. Len(<<"a">>) = 1 /\ Len(HalvesCode) = 2 /\ Len(CharsetCode) = 3 /\ Len(ColorCode) = 4
      /\ Len(BsCode) = 4 /\ Len(SevenCode) = 4
  BY DEF HalvesCode, CharsetCode, ColorCode, BsCode, SevenCode
<1>2. \A x : Len(ModeCode(x)) = 4 /\ Len(DcsBody(x)) = 5
  BY DEF ModeCode, DcsBody
<1> QED  BY <1>1, <1>2, CodesAre

(* A code that ends with one of these has it nowhere else.                 *)
Enders == {"h", "\\", "ST"}
LEMMA EndersEnd ==
    ASSUME NEW c \in Codes, NEW k \in 1..Len(c), c[k] \in Enders
    PROVE  k = Len(c)
<1>1. CASE c \in {<<"a">>, HalvesCode, CharsetCode, ColorCode, BsCode, SevenCode}
  BY <1>1 DEF HalvesCode, CharsetCode, ColorCode, BsCode, SevenCode, Enders
<1>2. ASSUME NEW x \in {"h", "l"}, c = ModeCode(x) PROVE k = Len(c)
  BY <1>2 DEF ModeCode, Enders
<1>3. ASSUME NEW x \in {"1s", "2s", "q"}, c = DcsBody(x) PROVE k = Len(c)
  BY <1>3 DEF DcsBody, Enders
<1> QED  BY <1>1, <1>2, <1>3, CodesAre

LEMMA CodeChars ==
    ASSUME NEW c \in Codes
    PROVE  c \in Seq(Characters)
<1>1. ASSUME NEW k \in 1..Len(c) PROVE c[k] \in Characters
  <2>1. DOMAIN c = 1..Len(c)
    BY DEF Codes, Begin, End
  <2>2. c[k] \in ToSet(c)
    BY <2>1 DEF ToSet
  <2> QED  BY <2>2, Zenon DEF Characters
<1>2. c = [k \in 1..Len(c) |-> c[k]] /\ Len(c) \in Nat
  BY DEF Codes, Begin, End
<1>3. [k \in 1..Len(c) |-> c[k]] \in Seq(Characters)
  BY <1>1, <1>2
<1> QED  BY <1>2, <1>3

LEMMA SomeCharacters ==
    {"a", "u1", "u2", "u", "BS", "ESC", "(", "B", "CSI", "3", "m", "DCS", "q", "ST", "7", "?",
     "1s", "2s"} \subseteq Characters
<1>1. ASSUME NEW c \in Codes, NEW k \in 1..Len(c) PROVE c[k] \in Characters
  BY CodeChars
<1>2. <<"a">> \in Codes /\ HalvesCode \in Codes /\ CharsetCode \in Codes /\ ColorCode \in Codes
      /\ BsCode \in Codes
      /\ SevenCode \in Codes /\ DcsBody("q") \in Codes /\ DcsBody("1s") \in Codes /\ DcsBody("2s") \in Codes
      /\ ModeCode("h") \in Codes
  BY CodesAre
<1> DEFINE Good(c) == \A k \in 1..Len(c) : c[k] \in Characters
<1>3. Good(<<"a">>) /\ Good(HalvesCode) /\ Good(CharsetCode) /\ Good(ColorCode) /\ Good(BsCode)
      /\ Good(SevenCode) /\ Good(DcsBody("q")) /\ Good(DcsBody("1s")) /\ Good(DcsBody("2s"))
      /\ Good(ModeCode("h"))
  <2> HIDE DEF Good
  <2>1. \A c \in Codes : Good(c)
    BY <1>1 DEF Good
  <2> QED  BY <1>2, <2>1
<1>4. "a" \in Characters
  BY <1>3
<1>5. {"u1", "u2"} \subseteq Characters
  BY <1>3 DEF HalvesCode
<1>6. {"ESC", "(", "B"} \subseteq Characters
  BY <1>3 DEF CharsetCode
<1>7. {"3", "m"} \subseteq Characters
  BY <1>3 DEF ColorCode
<1>8. "BS" \in Characters
  BY <1>3 DEF BsCode
<1>9. "7" \in Characters
  BY <1>3 DEF SevenCode
<1>10. ASSUME NEW x, Good(DcsBody(x)) PROVE x \in Characters
  BY <1>10 DEF DcsBody
<1>11. "?" \in Characters
  BY <1>3 DEF ModeCode
<1>12. {"u", "CSI", "DCS", "ST"} \subseteq Characters
  <2> DEFINE A == UNION {ToSet(c) : c \in Codes}
  <2>1. Characters = A \cup {"u", "CSI", "DCS", "ST"}
    BY DEF Characters
  <2> HIDE DEF A
  <2> QED  BY <2>1
<1>13. {"q", "1s", "2s"} \subseteq Characters
  <2> HIDE DEF Good
  <2> QED  BY <1>3, <1>10
<1> QED  BY <1>4, <1>5, <1>6, <1>7, <1>8, <1>9, <1>11, <1>12, <1>13

LEMMA QueuedIs ==
    /\ Queued(<<"a">>) = <<"a">>
    /\ Queued(HalvesCode) = HalvesCode
    /\ Queued(CharsetCode) = CharsetCode
    /\ Queued(ColorCode) = <<"CSI", "3", "m">>
    /\ Queued(BsCode) = <<"CSI", "m">>
    /\ Queued(DcsBody("q")) = <<"DCS", "q", "ST">>
    /\ Queued(SevenCode) = <<"ESC", "7">>
<1>1. <<"a">> # <<"u">> /\ <<"ESC", "(", "B">> # <<"u">> /\ <<"CSI", "3", "m">> # <<"u">>
      /\ <<"CSI", "m">> # <<"u">> /\ <<"DCS", "q", "ST">> # <<"u">> /\ <<"ESC", "7">> # <<"u">>
  OBVIOUS
<1> QED  BY <1>1, SpokenIs, Zenon DEF Queued, CharsetCode

LEMMA BytesOne ==
    ASSUME NEW s \in Seq(Characters), NEW x \in Characters
    PROVE  Bytes(s \o <<x>>) = Bytes(s) + Width(x)
<1>1. /\ Bytes(s \o <<>>) = Bytes(s)
      /\ Bytes(s \o <<x>>) = Bytes(s) + Width(x)
      /\ Bytes(s \o <<x, x>>) = Bytes(s) + Width(x) + Width(x)
      /\ Bytes(s \o <<x, x, x>>) = Bytes(s) + Width(x) + Width(x) + Width(x)
  BY BytesConcat
<1> QED  BY <1>1, Zenon

LEMMA BytesTwo ==
    ASSUME NEW s \in Seq(Characters), NEW x \in Characters, NEW y \in Characters
    PROVE  Bytes(s \o <<x, y>>) = Bytes(s) + Width(x) + Width(y)
<1>1. /\ Bytes(s \o <<>>) = Bytes(s)
      /\ Bytes(s \o <<x>>) = Bytes(s) + Width(x)
      /\ Bytes(s \o <<x, y>>) = Bytes(s) + Width(x) + Width(y)
      /\ Bytes(s \o <<x, y, y>>) = Bytes(s) + Width(x) + Width(y) + Width(y)
  BY BytesConcat
<1> QED  BY <1>1, Zenon

LEMMA BytesThree ==
    ASSUME NEW s \in Seq(Characters), NEW x \in Characters, NEW y \in Characters, NEW z \in Characters
    PROVE  Bytes(s \o <<x, y, z>>) = Bytes(s) + Width(x) + Width(y) + Width(z)
<1>1. /\ Bytes(s \o <<>>) = Bytes(s)
      /\ Bytes(s \o <<x>>) = Bytes(s) + Width(x)
      /\ Bytes(s \o <<x, y>>) = Bytes(s) + Width(x) + Width(y)
      /\ Bytes(s \o <<x, y, z>>) = Bytes(s) + Width(x) + Width(y) + Width(z)
  BY BytesConcat
<1> QED  BY <1>1, Zenon

LEMMA QueuedFits ==
    ASSUME NEW c \in TextCodes
    PROVE  /\ Queued(c) \in Forms
           /\ Said(Queued(c)) = Spoken(c)
           /\ \A s \in Seq(Characters) : Bytes(s \o Queued(c)) <= Bytes(s) + Len(c)
<1>a. HalvesCode = <<"u1", "u2">> /\ CharsetCode = <<"ESC", "(", "B">>
  BY DEF HalvesCode, CharsetCode
<1>b. \A s \in Seq(Characters) : Bytes(s) \in Nat
  BY BytesType
<1>c. Width("a") = 1 /\ Width("u1") = 1 /\ Width("u2") = 1 /\ Width("ESC") = 1 /\ Width("(") = 1
      /\ Width("B") = 1 /\ Width("3") = 1 /\ Width("m") = 1 /\ Width("q") = 1 /\ Width("7") = 1
      /\ Width("CSI") = 2 /\ Width("DCS") = 2 /\ Width("ST") = 2
  BY DEF Width, WideChars
<1>e. /\ "a" \in Characters /\ "u1" \in Characters /\ "u2" \in Characters /\ "ESC" \in Characters
      /\ "(" \in Characters /\ "B" \in Characters /\ "3" \in Characters /\ "m" \in Characters
      /\ "q" \in Characters /\ "7" \in Characters /\ "CSI" \in Characters /\ "DCS" \in Characters
      /\ "ST" \in Characters
  BY SomeCharacters
<1>1. CASE c = <<"a">>
  <2>1. Queued(c) = <<"a">> /\ Said(<<"a">>) = <<"a">> /\ Len(c) = 1 /\ Spoken(c) = <<"a">>
    BY <1>1, <1>a, QueuedIs, SpokenIs DEF Said
  <2>2. ASSUME NEW s \in Seq(Characters) PROVE Bytes(s \o <<"a">>) = Bytes(s) + 1
    <3>1. Bytes(s \o <<"a">>) = Bytes(s) + Width("a")
      BY BytesOne, <1>e, Zenon
    <3> QED  BY <3>1, <1>c
  <2> QED  BY <2>1, <2>2, <1>b DEF Forms
<1>2. CASE c = HalvesCode
  <2>1. Queued(c) = <<"u1", "u2">> /\ Said(HalvesCode) = <<"u">> /\ Len(c) = 2 /\ Spoken(c) = <<"u">>
    BY <1>2, <1>a, QueuedIs, SpokenIs DEF Said
  <2>2. ASSUME NEW s \in Seq(Characters) PROVE Bytes(s \o <<"u1", "u2">>) = Bytes(s) + 1 + 1
    <3>1. Bytes(s \o <<"u1", "u2">>) = Bytes(s) + Width("u1") + Width("u2")
      BY BytesTwo, <1>e, Zenon
    <3> QED  BY <3>1, <1>c
  <2> QED  BY <2>1, <2>2, <1>a, <1>b DEF Forms
<1>3. CASE c = CharsetCode
  <2>1. Queued(c) = CharsetCode /\ Said(CharsetCode) = CharsetCode /\ Len(c) = 3 /\ Spoken(c) = CharsetCode
    BY <1>3, <1>a, QueuedIs, SpokenIs DEF Said
  <2>2. ASSUME NEW s \in Seq(Characters) PROVE Bytes(s \o <<"ESC", "(", "B">>) = Bytes(s) + 1 + 1 + 1
    <3>1. Bytes(s \o <<"ESC", "(", "B">>) = Bytes(s) + Width("ESC") + Width("(") + Width("B")
      BY BytesThree, <1>e
    <3> QED  BY <3>1, <1>c
  <2> QED  BY <2>1, <2>2, <1>a, <1>b DEF Forms
<1>4. CASE c = ColorCode
  <2>1. Queued(c) = <<"CSI", "3", "m">> /\ Said(<<"CSI", "3", "m">>) = <<"CSI", "3", "m">> /\ Len(c) = 4
        /\ Spoken(c) = <<"CSI", "3", "m">>
    BY <1>4, <1>a, QueuedIs, SpokenIs DEF Said, ColorCode
  <2>2. ASSUME NEW s \in Seq(Characters) PROVE Bytes(s \o <<"CSI", "3", "m">>) = Bytes(s) + 2 + 1 + 1
    <3>1. Bytes(s \o <<"CSI", "3", "m">>) = Bytes(s) + Width("CSI") + Width("3") + Width("m")
      BY BytesThree, <1>e
    <3> QED  BY <3>1, <1>c
  <2> QED  BY <2>1, <2>2, <1>b DEF Forms
<1>5. CASE c = BsCode
  <2>1. Queued(c) = <<"CSI", "m">> /\ Said(<<"CSI", "m">>) = <<"CSI", "m">> /\ Len(c) = 4
        /\ Spoken(c) = <<"CSI", "m">>
    BY <1>5, <1>a, QueuedIs, SpokenIs DEF Said, BsCode
  <2>2. ASSUME NEW s \in Seq(Characters) PROVE Bytes(s \o <<"CSI", "m">>) = Bytes(s) + 2 + 1
    <3>1. Bytes(s \o <<"CSI", "m">>) = Bytes(s) + Width("CSI") + Width("m")
      BY BytesTwo, <1>e, Zenon
    <3> QED  BY <3>1, <1>c
  <2> QED  BY <2>1, <2>2, <1>b DEF Forms
<1>6. CASE c = DcsBody("q")
  <2>1. Queued(c) = <<"DCS", "q", "ST">> /\ Said(<<"DCS", "q", "ST">>) = <<"DCS", "q", "ST">> /\ Len(c) = 5
        /\ Spoken(c) = <<"DCS", "q", "ST">>
    BY <1>6, <1>a, QueuedIs, SpokenIs DEF Said, DcsBody
  <2>2. ASSUME NEW s \in Seq(Characters) PROVE Bytes(s \o <<"DCS", "q", "ST">>) = Bytes(s) + 2 + 1 + 2
    <3>1. Bytes(s \o <<"DCS", "q", "ST">>) = Bytes(s) + Width("DCS") + Width("q") + Width("ST")
      BY BytesThree, <1>e
    <3> QED  BY <3>1, <1>c
  <2> QED  BY <2>1, <2>2, <1>b DEF Forms
<1>7. CASE c = SevenCode
  <2>1. Queued(c) = <<"ESC", "7">> /\ Said(<<"ESC", "7">>) = <<"ESC", "7">> /\ Len(c) = 4
        /\ Spoken(c) = <<"ESC", "7">>
    BY <1>7, <1>a, QueuedIs, SpokenIs DEF Said, SevenCode
  <2>2. ASSUME NEW s \in Seq(Characters) PROVE Bytes(s \o <<"ESC", "7">>) = Bytes(s) + 1 + 1
    <3>1. Bytes(s \o <<"ESC", "7">>) = Bytes(s) + Width("ESC") + Width("7")
      BY BytesTwo, <1>e, Zenon
    <3> QED  BY <3>1, <1>c
  <2> QED  BY <2>1, <2>2, <1>b DEF Forms
<1> QED  BY <1>1, <1>2, <1>3, <1>4, <1>5, <1>6, <1>7 DEF TextCodes

(* What has been read of a code, as the pending buffer keeps it when the   *)
(* update is given up.                                                     *)
PartOf(c, j) == IF BufAt(c, j) = <<>> THEN <<>> ELSE <<StateAt(c, j)>> \o BufAt(c, j)

PartGood(c, j, t) ==
    /\ PartOf(c, j) = t /\ t \in Tails /\ t[1] = StateAt(c, j) /\ TailBuf(t, Len(t)) = BufAt(c, j)
    /\ ~HalfAt(c, j)
    /\ \A s \in Seq(Characters) : Bytes(s \o t) <= Bytes(s) + j

LEMMA PartOfTwo ==
    ASSUME NEW c, NEW j \in Nat, NEW x \in Characters, NEW y \in Characters, StateAt(c, j) = x,
           BufAt(c, j) = <<y>>,
           ~HalfAt(c, j), <<x, y>> \in Tails, Width(x) + Width(y) <= j
    PROVE  PartGood(c, j, <<x, y>>)
<1>1. PartOf(c, j) = <<x, y>>
  <2>1. <<y>> # <<>>
    OBVIOUS
  <2>2. <<x>> \o <<y>> = <<x, y>>
    BY ShortConcat, Zenon
  <2> QED  BY <2>1, <2>2, Zenon DEF PartOf
<1>2. TailBuf(<<x, y>>, Len(<<x, y>>)) = <<y>>
  <2>1. Len(<<x, y>>) = 2 /\ <<x, y>>[2] = y
    OBVIOUS
  <2> QED  BY <2>1 DEF TailBuf
<1>3. ASSUME NEW s \in Seq(Characters) PROVE Bytes(s \o <<x, y>>) <= Bytes(s) + j
  <2>1. Bytes(s \o <<x, y>>) = Bytes(s) + Width(x) + Width(y)
    BY BytesTwo
  <2>2. Bytes(s) \in Nat /\ Width(x) \in Nat /\ Width(y) \in Nat
    BY BytesType DEF Width
  <2> QED  BY <2>1, <2>2
<1>4. <<x, y>>[1] = x
  OBVIOUS
<1> QED  BY <1>1, <1>2, <1>3, <1>4, Zenon DEF PartGood

LEMMA PartOfThree ==
    ASSUME NEW c, NEW j \in Nat, NEW x \in Characters, NEW y \in Characters, NEW z \in Characters,
           StateAt(c, j) = x, BufAt(c, j) = <<y, z>>,
           ~HalfAt(c, j), <<x, y, z>> \in Tails, Width(x) + Width(y) + Width(z) <= j
    PROVE  PartGood(c, j, <<x, y, z>>)
<1>1. PartOf(c, j) = <<x, y, z>>
  <2>1. <<x>> \o <<y, z>> = <<x, y, z>>
    <3>1. <<x>> \in Seq(Characters) /\ <<y>> \in Seq(Characters)
      OBVIOUS
    <3>2. <<x>> \o Append(<<y>>, z) = Append(<<x>> \o <<y>>, z)
      BY <3>1, AppendConcat
    <3>3. Append(<<y>>, z) = <<y, z>> /\ <<x>> \o <<y>> = <<x, y>>
      BY ShortConcat, Zenon
    <3> QED  BY <3>2, <3>3, AppendThird, Zenon
  <2>2. <<y, z>> # <<>>
    OBVIOUS
  <2> QED  BY <2>1, <2>2, Zenon DEF PartOf
<1>2. TailBuf(<<x, y, z>>, Len(<<x, y, z>>)) = <<y, z>>
  <2>1. Len(<<x, y, z>>) = 3 /\ <<x, y, z>>[2] = y /\ <<x, y, z>>[3] = z
    OBVIOUS
  <2> QED  BY <2>1 DEF TailBuf
<1>3. ASSUME NEW s \in Seq(Characters) PROVE Bytes(s \o <<x, y, z>>) <= Bytes(s) + j
  <2> DEFINE b == Bytes(s)
             v == Width(x)
             w == Width(y)
             k == Width(z)
  <2>1. Bytes(s \o <<x, y, z>>) = b + v + w + k
    BY BytesThree
  <2>2. b \in Nat /\ v \in Nat /\ w \in Nat /\ k \in Nat /\ v + w + k <= j
    BY BytesType DEF Width
  <2> HIDE DEF b, v, w, k
  <2>3. b + v + w + k <= b + j
    BY <2>2
  <2> QED  BY <2>1, <2>3 DEF b
<1>4. <<x, y, z>>[1] = x
  OBVIOUS
<1> QED  BY <1>1, <1>2, <1>3, <1>4, Zenon DEF PartGood

LEMMA PartIs ==
    ASSUME NEW c \in Codes, NEW j \in 0..(Len(c) - 1), BufAt(c, j) # <<>>
    PROVE  PartGood(c, j, PartOf(c, j))
<1> SUFFICES ASSUME TRUE PROVE \E t : PartGood(c, j, t)
  BY Zenon DEF PartGood
<1>w. Width("ESC") = 1 /\ Width("(") = 1 /\ Width("3") = 1 /\ Width("?") = 1 /\ Width("q") = 1
      /\ Width("1s") = 1 /\ Width("2s") = 1 /\ Width("CSI") = 2 /\ Width("DCS") = 2
  BY DEF Width, WideChars
<1>c. {"ESC", "(", "3", "?", "q", "1s", "2s", "CSI", "DCS"} \subseteq Characters
  BY SomeCharacters
<1>t. /\ <<"ESC", "(">> \in Tails /\ <<"CSI", "3">> \in Tails /\ <<"CSI", "?">> \in Tails
      /\ \A x \in {"1s", "2s", "q", "ESC"} : <<"DCS", x>> \in Tails
      /\ \A x \in {"1s", "2s", "q"} : <<"DCS", x, "ESC">> \in Tails
  BY DEF Tails
<1>j. j \in Nat /\ 2 <= j /\ ~HalfAt(c, j) /\ c[1] = "ESC"
  BY DEF BufAt, HalfAt
<1>1. CASE c = CharsetCode
  <2>1. j = 2 /\ c[1] = "ESC" /\ c[2] = "("
    BY <1>1, <1>j DEF CharsetCode
  <2>2. StateAt(c, j) = "ESC" /\ BufAt(c, j) = <<"(">>
    BY <2>1 DEF StateAt, BufAt
  <2>3. PartGood(c, j, <<"ESC", "(">>)
    BY <2>1, <2>2, <1>w, <1>c, <1>t, <1>j, PartOfTwo
  <2> QED  BY <2>3
<1>2. CASE c = ColorCode
  <2>1. j \in {2, 3} /\ c[1] = "ESC" /\ c[2] = "[" /\ c[3] = "3"
    BY <1>2, <1>j DEF ColorCode
  <2>2. j = 3 /\ StateAt(c, j) = "CSI" /\ BufAt(c, j) = <<"3">>
    BY <2>1 DEF StateAt, BufAt
  <2>3. PartGood(c, j, <<"CSI", "3">>)
    BY <2>1, <2>2, <1>w, <1>c, <1>t, <1>j, PartOfTwo
  <2> QED  BY <2>3
<1>3. CASE c = BsCode
  <2>1. BufAt(c, j) = <<>>
    BY <1>3, <1>j DEF BufAt, BsCode
  <2> QED  BY <2>1
<1>4. ASSUME NEW x \in {"h", "l"}, c = ModeCode(x) PROVE \E t : PartGood(c, j, t)
  <2>1. j \in {2, 3} /\ c[1] = "ESC" /\ c[2] = "[" /\ c[3] = "?"
    BY <1>4, <1>j DEF ModeCode
  <2>2. j = 3 /\ StateAt(c, j) = "CSI" /\ BufAt(c, j) = <<"?">>
    BY <2>1 DEF StateAt, BufAt
  <2>3. PartGood(c, j, <<"CSI", "?">>)
    BY <2>1, <2>2, <1>w, <1>c, <1>t, <1>j, PartOfTwo
  <2> QED  BY <2>3
<1>5. ASSUME NEW x \in {"1s", "2s", "q"}, c = DcsBody(x) PROVE \E t : PartGood(c, j, t)
  <2>1. j \in {2, 3, 4} /\ c[1] = "ESC" /\ c[2] = "P" /\ c[3] = x /\ c[4] = "ESC"
    BY <1>5, <1>j DEF DcsBody
  <2>2. StateAt(c, j) = "DCS" /\ j # 2
    BY <2>1, <1>j DEF StateAt, BufAt
  <2>a. x \in Characters /\ Width(x) = 1
    BY <1>w, <1>c
  <2>3. CASE j = 3
    <3>1. BufAt(c, j) = <<x>>
      BY <2>1, <2>3 DEF BufAt
    <3>3. <<"DCS", x>> \in Tails
      BY <1>t, Zenon
    <3>4. "DCS" \in Characters /\ Width("DCS") + Width(x) <= j
      BY <2>a, <2>3, <1>w, <1>c
    <3>2. PartGood(c, j, <<"DCS", x>>)
      BY <2>a, <2>2, <3>1, <3>3, <3>4, <1>j, PartOfTwo
    <3> QED  BY <3>2
  <2>4. CASE j = 4
    <3>1. BufAt(c, j) = <<x, "ESC">>
      BY <2>1, <2>4 DEF BufAt
    <3>3. <<"DCS", x, "ESC">> \in Tails
      BY <1>t, Zenon
    <3>4. "DCS" \in Characters /\ "ESC" \in Characters /\ Width("DCS") + Width(x) + Width("ESC") <= j
      BY <2>a, <2>4, <1>w, <1>c
    <3>2. PartGood(c, j, <<"DCS", x, "ESC">>)
      BY <2>a, <2>2, <3>1, <3>3, <3>4, <1>j, PartOfThree
    <3> QED  BY <3>2
  <2> QED  BY <2>1, <2>2, <2>3, <2>4
<1>6. CASE c = SevenCode
  <2>1. j \in {2, 3} /\ c[1] = "ESC" /\ c[2] = "P" /\ c[3] = "ESC"
    BY <1>6, <1>j DEF SevenCode
  <2>2. j = 3 /\ StateAt(c, j) = "DCS" /\ BufAt(c, j) = <<"ESC">>
    BY <2>1, <1>j DEF StateAt, BufAt
  <2>3. PartGood(c, j, <<"DCS", "ESC">>)
    BY <2>1, <2>2, <1>w, <1>c, <1>t, <1>j, PartOfTwo
  <2> QED  BY <2>3
<1>7. c \notin {<<"a">>, HalvesCode}
  BY <1>j DEF HalvesCode
<1> QED  BY <1>1, <1>2, <1>3, <1>4, <1>5, <1>6, <1>7, CodesAre

(* Only at the beginning of a code is the parser in its first state, and   *)
(* inside of no character.                                                 *)
LEMMA NormalBegins ==
    ASSUME NEW c \in Codes, NEW j \in 0..(Len(c) - 1), StateAt(c, j) = Normal, ~HalfAt(c, j)
    PROVE  j = 0
<1>1. CASE c[1] = "ESC"
  BY <1>1 DEF StateAt, Normal
<1>2. CASE c[1] # "ESC"
  <2>1. c \in {<<"a">>, HalvesCode}
    BY <1>2, CodesAre DEF ModeCode, DcsBody, CharsetCode, ColorCode, BsCode, SevenCode
  <2>2. CASE c = <<"a">>
    BY <2>2
  <2>3. CASE c = HalvesCode
    BY <2>3 DEF HalvesCode, HalfAt
  <2> QED  BY <2>1, <2>2, <2>3
<1> QED  BY <1>1, <1>2

LEMMA MeaningFacts ==
    ASSUME NEW c \in Codes
    PROVE  /\ Meaning(c) \in Seq(Seq(Characters))
           /\ c \in Begin \cup End => Len(Meaning(c)) = 0
           /\ c \in TextCodes /\ c # BsCode => Len(Meaning(c)) = 1 /\ Meaning(c)[1] = Spoken(c)
           /\ c = BsCode => Len(Meaning(c)) = 2 /\ Meaning(c)[1] = <<"BS">> /\ Meaning(c)[2] = Spoken(c)
<1>c. {"a", "u", "BS", "ESC", "(", "B", "CSI", "3", "m", "DCS", "q", "ST", "7"} \subseteq Characters
  BY SomeCharacters
<1>1. CASE c \in Begin \cup End
  <2>1. Meaning(c) = <<>>
    BY <1>1, MeaningIs
  <2>2. c # BsCode /\ c \notin TextCodes
    BY <1>1, SpokenIs DEF TextCodes
  <2> QED  BY <1>1, <2>1, <2>2
<1>2. ASSUME NEW m \in Seq(Characters), Meaning(c) = <<m>>, Spoken(c) = m
      PROVE  Meaning(c) \in Seq(Seq(Characters)) /\ Len(Meaning(c)) = 1 /\ Meaning(c)[1] = Spoken(c)
  BY <1>2
<1>3. CASE c \in TextCodes /\ c # BsCode
  <2>1. \E m \in Seq(Characters) : Meaning(c) = <<m>> /\ Spoken(c) = m
    <3>1. CASE c = <<"a">>
      <4>1. <<"a">> \in Seq(Characters)
        BY <1>c
      <4> QED  BY <3>1, <4>1, MeaningIs, SpokenIs, Zenon
    <3>2. CASE c = HalvesCode
      <4>1. <<"u">> \in Seq(Characters)
        BY <1>c
      <4> QED  BY <3>2, <4>1, MeaningIs, SpokenIs, Zenon
    <3>3. CASE c = CharsetCode
      <4>1. <<"ESC", "(", "B">> \in Seq(Characters)
        BY <1>c
      <4> QED  BY <3>3, <4>1, MeaningIs, SpokenIs, Zenon
    <3>4. CASE c = ColorCode
      <4>1. <<"CSI", "3", "m">> \in Seq(Characters)
        BY <1>c
      <4> QED  BY <3>4, <4>1, MeaningIs, SpokenIs, Zenon
    <3>5. CASE c = DcsBody("q")
      <4>1. <<"DCS", "q", "ST">> \in Seq(Characters)
        BY <1>c
      <4> QED  BY <3>5, <4>1, MeaningIs, SpokenIs, Zenon
    <3>6. CASE c = SevenCode
      <4>1. <<"ESC", "7">> \in Seq(Characters)
        BY <1>c
      <4> QED  BY <3>6, <4>1, MeaningIs, SpokenIs, Zenon
    <3> QED  BY <1>3, <3>1, <3>2, <3>3, <3>4, <3>5, <3>6 DEF TextCodes
  <2>2. c \notin Begin \cup End
    BY <1>3, SpokenIs DEF TextCodes
  <2> QED  BY <1>2, <1>3, <2>1, <2>2
<1>4. CASE c = BsCode
  <2>1. Meaning(c) = << <<"BS">>, <<"CSI", "m">> >> /\ Spoken(c) = <<"CSI", "m">>
    BY <1>4, MeaningIs, SpokenIs
  <2>2. <<"BS">> \in Seq(Characters) /\ <<"CSI", "m">> \in Seq(Characters)
    BY <1>c
  <2>3. c \notin Begin \cup End
    BY <1>4, SpokenIs
  <2> QED  BY <1>4, <2>1, <2>2, <2>3
<1> QED  BY <1>1, <1>3, <1>4, CodesAre DEF TextCodes
-----------------------------------------------------------------------------
(* What every step of the parser keeps, also when it does not know where a *)
(* code begins.                                                            *)
States == Introducers \cup {Normal}
Phases == {"idle", "start", "queue", "queueing", "pending", "draining", "read"}

Typed ==
    /\ program \in Programs
    /\ unread \in Seq(Characters) /\ rbuf \in Seq(Characters) /\ pbuf \in Seq(Characters)
    /\ pending \in Seq(Characters) /\ drain \in Seq(Characters)
    /\ Len(rbuf) <= ReadBuf
    /\ state \in States /\ saved \in States
    /\ u1 \in BOOLEAN /\ active \in BOOLEAN /\ late \in BOOLEAN
    /\ due \in BOOLEAN /\ timer \in BOOLEAN /\ spoiled \in BOOLEAN
    /\ phase \in Phases
    /\ done \in Seq(Seq(Characters))

(* An update begins only with the last character of a code.                *)
Kept(c) ==
    /\ pending' \in Seq(Characters) /\ done' \in Seq(Seq(Characters))
    /\ active' \in BOOLEAN /\ late' \in BOOLEAN /\ spoiled' \in BOOLEAN
    /\ spoiled => spoiled'
    /\ ~Queueing => pending' = pending
    /\ active' => active \/ (c \in Enders /\ state' = Normal /\ pbuf' = <<>>)
KeptParser == state' \in States /\ pbuf' \in Seq(Characters)

LEMMA AppendIn ==
    ASSUME NEW S, NEW s \in Seq(S), NEW x \in S
    PROVE  Append(s, x) \in Seq(S)
OBVIOUS

LEMMA HandleKeeps ==
    ASSUME Typed, NEW code \in Seq(Characters), Handle(code), Same, NEW c
    PROVE  Kept(c)
<1>1. <<"u1", "u2">> \in Seq(Characters)
  BY SomeCharacters
<1>2. pending' \in Seq(Characters)
  <2>1. CASE ~Queueing
    BY <2>1 DEF Handle, Typed
  <2>2. CASE Queueing
    <3> DEFINE f == IF code = <<"u">> THEN <<"u1", "u2">> ELSE code
    <3>1. f \in Seq(Characters)
      BY <1>1
    <3>2. pending' = pending \o f
      BY <2>2 DEF Handle
    <3> HIDE DEF f
    <3> QED  BY <3>1, <3>2 DEF Typed
  <2> QED  BY <2>1, <2>2
<1>3. done' \in Seq(Seq(Characters))
  <2>1. done' = done \/ done' = Append(done, code)
    BY DEF Handle
  <2>2. done \in Seq(Seq(Characters))
    BY DEF Typed
  <2>3. Append(done, code) \in Seq(Seq(Characters))
    BY <2>2, AppendIn
  <2> QED  BY <2>1, <2>2, <2>3
<1>4. ~Queueing => pending' = pending
  BY DEF Handle
<1> QED  BY <1>2, <1>3, <1>4 DEF Kept, Same, Typed

LEMMA NothingKeeps ==
    ASSUME Typed, Nothing, NEW c
    PROVE  Kept(c)
BY DEF Typed, Nothing, Kept

LEMMA SetStateKeeps ==
    ASSUME NEW s \in States, SetState(s)
    PROVE  KeptParser
<1>1. <<>> \in Seq(Characters)
  OBVIOUS
<1> QED  BY <1>1 DEF SetState, KeptParser

LEMMA NormalKeeps ==
    ASSUME Typed, NEW c \in Characters, NormalChar(c)
    PROVE  Kept(c) /\ KeptParser
<1>1. CASE c \in Introducers
  BY <1>1, NothingKeeps, SetStateKeeps DEF NormalChar, States
<1>2. CASE c \notin Introducers
  <2>1. <<c>> \in Seq(Characters) /\ Handle(<<c>>) /\ Same /\ UNCHANGED <<state, pbuf>>
    BY <1>2 DEF NormalChar
  <2>2. Kept(c)
    BY <2>1, HandleKeeps
  <2> QED  BY <2>1, <2>2 DEF KeptParser, Typed
<1> QED  BY <1>1, <1>2

LEMMA EscKeeps ==
    ASSUME Typed, NEW c \in Characters, NEW buf \in Seq(Characters), EscChar(c, buf)
    PROVE  Kept(c) /\ KeptParser
<1>0. "ESC" \in Characters /\ Normal \in States /\ {"CSI", "DCS", "ESC"} \subseteq States
  BY SomeCharacters DEF States, Introducers
<1>1. CASE buf # <<>> /\ Handle(<<"ESC", Last(buf), c>>) /\ Same /\ SetState(Normal)
  <2>1. Last(buf) \in Characters
    BY <1>1 DEF Last
  <2>2. <<"ESC", Last(buf), c>> \in Seq(Characters)
    BY <1>0, <2>1
  <2> QED  BY <1>0, <1>1, <2>2, HandleKeeps, SetStateKeeps
<1>2. CASE SetState("CSI") /\ Nothing
  BY <1>0, <1>2, NothingKeeps, SetStateKeeps
<1>3. CASE SetState("DCS") /\ Nothing
  BY <1>0, <1>3, NothingKeeps, SetStateKeeps
<1>4. CASE state' = "ESC" /\ pbuf' = <<c>> /\ Nothing
  <2>1. <<c>> \in Seq(Characters)
    OBVIOUS
  <2> QED  BY <1>0, <1>4, <2>1, NothingKeeps DEF KeptParser
<1>5. CASE Handle(<<"ESC", c>>) /\ Same /\ SetState(Normal)
  <2>1. <<"ESC", c>> \in Seq(Characters)
    BY <1>0
  <2> QED  BY <1>0, <1>5, <2>1, HandleKeeps, SetStateKeeps
<1> QED  BY <1>1, <1>2, <1>3, <1>4, <1>5, Zenon DEF EscChar

(* The last element of what is put together.                               *)
LEMMA LastOfConcat ==
    ASSUME NEW S, NEW s \in Seq(S), NEW x \in S
    PROVE  s \o <<x>> \in Seq(S) /\ Len(s \o <<x>>) = Len(s) + 1 /\ (s \o <<x>>)[Len(s) + 1] = x
<1> DEFINE t == <<x>>
<1>1. t \in Seq(S) /\ Len(t) = 1 /\ t[1] = x /\ Len(s) \in Nat
  OBVIOUS
<1>a. t \in Seq(S)
  OBVIOUS
<1> HIDE DEF t
<1>2. s \o t \in Seq(S) /\ Len(s \o t) = Len(s) + Len(t) /\ \A i \in 1..Len(t) : (s \o t)[Len(s) + i] = t[i]
  BY <1>a
<1>3. Len(s \o t) = Len(s) + 1 /\ (s \o t)[Len(s) + 1] = t[1]
  BY <1>1, <1>2
<1> QED  BY <1>1, <1>2, <1>3 DEF t

LEMMA CsiKeeps ==
    ASSUME Typed, NEW c \in Characters, state = "CSI", CsiChar(c)
    PROVE  Kept(c) /\ KeptParser
<1>0. Normal \in States /\ state \in States /\ pbuf \in Seq(Characters) /\ "CSI" \in Characters
      /\ "BS" \in Characters
  BY SomeCharacters DEF States, Typed
<1>1. CASE Accumulate(c) /\ Nothing
  <2>1. Append(pbuf, c) \in Seq(Characters)
    BY <1>0
  <2> QED  BY <1>0, <1>1, <2>1, NothingKeeps DEF Accumulate, KeptParser
<1>2. CASE CsiCode(<<"CSI">> \o pbuf \o <<c>>) /\ SetState(Normal)
  <2> DEFINE head == <<"CSI">> \o pbuf
             code == head \o <<c>>
  <2>1. head \in Seq(Characters) /\ Len(head) = Len(pbuf) + 1
    BY <1>0
  <2> HIDE DEF head
  <2>2. code \in Seq(Characters) /\ Len(code) = Len(head) + 1 /\ code[Len(head) + 1] = c
    BY <2>1, LastOfConcat
  <2>a. CsiCode(code) /\ SetState(Normal)
    BY <1>2 DEF head
  <2> HIDE DEF code
  <2>3. CASE code = <<"CSI", "?", "h">>
    <3>1. BeginUpdate
      BY <2>a, <2>3 DEF CsiCode
    <3>2. Len(head) \in Nat /\ Len(<<"CSI", "?", "h">>) = 3 /\ <<"CSI", "?", "h">>[3] = "h"
      BY <2>1
    <3>3. Len(head) + 1 = 3
      BY <2>2, <2>3, <3>2
    <3>4. c \in Enders
      BY <2>2, <2>3, <3>2, <3>3 DEF Enders
    <3>5. state' = Normal /\ pbuf' = <<>>
      BY <2>a DEF SetState
    <3>6. Kept(c)
      BY <3>1, <3>4, <3>5 DEF BeginUpdate, Kept, Typed
    <3> QED  BY <1>0, <2>a, <3>6, SetStateKeeps
  <2>4. CASE code # <<"CSI", "?", "h">> /\ code = <<"CSI", "?", "l">>
    <3>1. EndUpdate
      BY <2>a, <2>4 DEF CsiCode
    <3>2. Kept(c)
      BY <3>1 DEF EndUpdate, Kept, Typed
    <3> QED  BY <1>0, <2>a, <3>2, SetStateKeeps
  <2>5. CASE code # <<"CSI", "?", "h">> /\ code # <<"CSI", "?", "l">>
    <3>1. Handle(code) /\ Same
      BY <2>a, <2>5 DEF CsiCode
    <3> QED  BY <1>0, <2>a, <2>2, <3>1, HandleKeeps, SetStateKeeps
  <2> QED  BY <2>3, <2>4, <2>5
<1>3. CASE /\ c = "BS"
           /\ done' = Append(done, <<c>>)
           /\ spoiled' = (spoiled \/ (Queueing /\ pending # <<>>))
           /\ UNCHANGED <<state, pbuf, active, late, pending>>
  <2>1. Append(done, <<c>>) \in Seq(Seq(Characters))
    <3>1. <<c>> \in Seq(Characters) /\ done \in Seq(Seq(Characters))
      BY DEF Typed
    <3> QED  BY <3>1
  <2> QED  BY <1>3, <2>1 DEF Kept, KeptParser, Typed
<1>4. CASE SetState(Normal) /\ Nothing
  BY <1>0, <1>4, NothingKeeps, SetStateKeeps
<1> QED  BY <1>1, <1>2, <1>3, <1>4, Zenon DEF CsiChar

LEMMA DcsCodeKeeps ==
    ASSUME Typed, NEW c \in Enders, NEW body \in Seq(Characters), DcsCode(body), SetState(Normal)
    PROVE  Kept(c) /\ KeptParser
<1>0. Normal \in States /\ "DCS" \in Characters /\ "ST" \in Characters /\ state' = Normal /\ pbuf' = <<>>
  BY SomeCharacters DEF States, SetState
<1>1. KeptParser
  BY <1>0, SetStateKeeps
<1>2. CASE BeginUpdate
  BY <1>0, <1>1, <1>2 DEF BeginUpdate, Kept, Typed
<1>3. CASE EndUpdate
  BY <1>1, <1>3 DEF EndUpdate, Kept, Typed
<1>4. CASE Handle(<<"DCS">> \o body \o <<"ST">>) /\ Same
  <2> DEFINE head == <<"DCS">> \o body
             code == head \o <<"ST">>
  <2>1. head \in Seq(Characters)
    BY <1>0
  <2> HIDE DEF head
  <2>2. code \in Seq(Characters)
    BY <1>0, <2>1, LastOfConcat
  <2>a. Handle(code) /\ Same
    BY <1>4 DEF head
  <2> HIDE DEF code
  <2> QED  BY <1>1, <2>2, <2>a, HandleKeeps
<1> QED  BY <1>2, <1>3, <1>4 DEF DcsCode

LEMMA DcsKeeps ==
    ASSUME Typed, NEW c \in Characters, state = "DCS", DcsChar(c)
    PROVE  Kept(c) /\ KeptParser
<1>0. state \in States /\ pbuf \in Seq(Characters) /\ <<>> \in Seq(Characters)
  BY DEF Typed
<1>1. CASE c = "ST" /\ DcsCode(pbuf) /\ SetState(Normal)
  BY <1>0, <1>1, DcsCodeKeeps DEF Enders
<1>2. CASE Nothing /\ UNCHANGED <<state, pbuf>>
  BY <1>0, <1>2, NothingKeeps DEF KeptParser
<1>3. CASE Accumulate(c) /\ Nothing
  <2>1. Append(pbuf, c) \in Seq(Characters)
    BY <1>0
  <2> QED  BY <1>0, <1>3, <2>1, NothingKeeps DEF Accumulate, KeptParser
<1>4. CASE pbuf # <<>> /\ c = "\\" /\ DcsCode(Front(pbuf)) /\ SetState(Normal)
  <2>1. Front(pbuf) \in Seq(Characters)
    BY <1>0, <1>4 DEF Front
  <2> QED  BY <1>4, <2>1, DcsCodeKeeps DEF Enders
<1>5. CASE EscChar(c, <<>>)
  BY <1>0, <1>5, EscKeeps
<1> QED  BY <1>1, <1>2, <1>3, <1>4, <1>5, Zenon DEF DcsChar

LEMMA CharKeeps ==
    ASSUME Typed, NEW c \in Characters, Char(c)
    PROVE  Kept(c) /\ KeptParser
BY NormalKeeps, EscKeeps, CsiKeeps, DcsKeeps DEF Char, Typed

(* One step of decode_loop().                                              *)
Moves ==
    \/ Consume /\ (active' => active \/ (Head(Source) \in Enders /\ Becomes(Normal, <<>>, FALSE)))
    \/ UNCHANGED <<rbuf, drain>> /\ (active' => active)

LEMMA DecodeKeeps ==
    ASSUME Typed, Source # <<>>, Decode
    PROVE  /\ Moves /\ KeptParser /\ u1' \in BOOLEAN
           /\ rbuf' \in Seq(Characters) /\ Len(rbuf') <= ReadBuf /\ drain' \in Seq(Characters)
           /\ pending' \in Seq(Characters) /\ done' \in Seq(Seq(Characters))
           /\ active' \in BOOLEAN /\ late' \in BOOLEAN /\ spoiled' \in BOOLEAN
           /\ spoiled => spoiled'
           /\ ~Queueing => pending' = pending
<1> DEFINE c == Head(Source)
<1>0. Source \in Seq(Characters) /\ c \in Characters /\ "u" \in Characters
  BY SomeCharacters DEF Source, Typed
<1>1. Consume => rbuf' \in Seq(Characters) /\ Len(rbuf') <= ReadBuf /\ drain' \in Seq(Characters)
  <2>1. CASE phase = "draining"
    <3>1. drain \in Seq(Characters) /\ drain # <<>> /\ rbuf \in Seq(Characters) /\ Len(rbuf) <= ReadBuf
      BY <2>1 DEF Source, Typed
    <3>2. Tail(drain) \in Seq(Characters)
      BY <3>1
    <3> QED  BY <2>1, <3>1, <3>2 DEF Consume
  <2>2. CASE phase # "draining"
    <3>1. rbuf \in Seq(Characters) /\ rbuf # <<>> /\ Len(rbuf) \in Nat
          /\ drain \in Seq(Characters) /\ Len(rbuf) <= ReadBuf
      BY <2>2 DEF Source, Typed
    <3>2. Tail(rbuf) \in Seq(Characters) /\ Len(Tail(rbuf)) = Len(rbuf) - 1
      BY <3>1
    <3>3. Len(rbuf) - 1 <= ReadBuf
      BY <3>1, ReadBufAssumption
    <3> QED  BY <2>2, <3>1, <3>2, <3>3 DEF Consume
  <2> QED  BY <2>1, <2>2
<1>2. UNCHANGED <<rbuf, drain>> => rbuf' \in Seq(Characters) /\ Len(rbuf') <= ReadBuf /\ drain' \in Seq(Characters)
  BY DEF Typed
<1>3. CASE u1 /\ c = "u2" /\ Consume /\ u1' = FALSE /\ Char("u")
  <2>1. Kept("u") /\ KeptParser
    BY <1>0, <1>3, CharKeeps
  <2>2. Moves
    BY <1>3, <2>1 DEF Moves, Kept, Enders
  <2> QED  BY <1>1, <1>3, <2>1, <2>2 DEF Kept
<1>4. CASE Nothing /\ UNCHANGED <<state, pbuf>> /\ u1' \in BOOLEAN /\ (Consume \/ UNCHANGED <<rbuf, drain>>)
  <2>1. Kept("u") /\ KeptParser
    BY <1>4, NothingKeeps DEF KeptParser, Typed
  <2>2. Moves
    BY <1>4 DEF Moves, Nothing
  <2> QED  BY <1>1, <1>2, <1>4, <2>1, <2>2 DEF Kept
<1>5. CASE ~u1 /\ Consume /\ UNCHANGED u1 /\ Char(c)
  <2>1. Kept(c) /\ KeptParser
    BY <1>0, <1>5, CharKeeps
  <2>2. Moves
    BY <1>5, <2>1 DEF Moves, Kept, Becomes
  <2> QED  BY <1>1, <1>5, <2>1, <2>2 DEF Kept, Typed
<1> QED  BY <1>3, <1>4, <1>5 DEF Decode
-----------------------------------------------------------------------------
(* The invariant.                                                          *)

(* Where the codes of the program begin in what it sends, and what they    *)
(* mean in all that is expected.                                           *)
Whole(c, s) == Cut(c, s, FlattenSeq(s)) /\ c[Len(s)] = Len(FlattenSeq(s))
Flat == FlattenSeq(program)
Meanings == [k \in DOMAIN program |-> Meaning(program[k])]
Offs == CHOOSE c : Whole(c, program)
Marks == CHOOSE c : Whole(c, Meanings)

Code(n) == program[n + 1]
Size(n) == Len(Code(n))
Off(n) == Offs[n]
Mark(n) == Marks[n]
Total == Len(Flat)

(* The parser has read the program up to the j-th character of a code.     *)
At(n, j) ==
    /\ n \in 0..Len(program) /\ j \in Nat
    /\ n = Len(program) => j = 0
    /\ n < Len(program) => j < Size(n)

Rest(r, u, p) ==
    /\ p + Len(r) + Len(u) = Total
    /\ \A k \in 1..Len(r) : r[k] = Flat[p + k]
    /\ \A k \in 1..Len(u) : u[k] = Flat[p + Len(r) + k]

ReadPart(n, j) == At(n, j) /\ Rest(rbuf, unread, Off(n) + j)

(* The parser knows where it is in a code, except while it runs through    *)
(* the pending buffer, and from a loss to the next update.                 *)
SyncPart(n, j) == phase # "draining" /\ (active \/ ~spoiled) => Parser(Code(n), j)

(* What was queued has no more bytes than what was read for it.            *)
Room == 2 * ReadBuf + 3
ToCome == IF phase = "queueing" THEN Len(rbuf) ELSE 0
BoundPart(j) ==
    /\ Bytes(pending) <= Room
    /\ phase # "draining" /\ active => Bytes(pending) + j + ToCome <= Room

PhasePart ==
    /\ phase \in {"queue", "queueing"} => active /\ rbuf # <<>>
    /\ phase = "read" => ~active /\ pending = <<>> /\ rbuf # <<>>
    /\ phase = "pending" => ~active /\ pending # <<>>
    /\ phase = "idle" => active \/ pending = <<>>

(* The pending buffer has the codes of q, then t.                          *)
Buffer(b, q, d, t) ==
    /\ q \in Seq(Forms) /\ t \in Tails \cup {<<>>}
    /\ Cut(d, q, b)
    /\ Len(b) = d[Len(q)] + Len(t)
    /\ \A k \in 1..Len(t) : b[d[Len(q)] + k] = t[k]
BufferPart(q, d, t) == Buffer(pending, q, d, t)

(* After an update its last part is that of the code that is being read.   *)
Flushed == (~active /\ pending # <<>>) \/ phase = "draining"
FlushPart(n, j, t) ==
    /\ phase # "draining" /\ active => t = <<>>
    /\ Flushed => t = PartOf(Code(n), j) /\ (t = <<>> => j = 0)

(* The parser has executed m codes of the buffer, and i characters more.   *)
DrainPart(q, d, t, m, i) ==
    /\ m \in 0..Len(q) /\ i \in Nat
    /\ phase # "draining" => m = 0 /\ i = 0
    /\ phase = "draining" =>
         /\ d[m] + i + Len(drain) = Len(pending)
         /\ \A k \in 1..Len(drain) : drain[k] = pending[d[m] + i + k]
         /\ m < Len(q) => i < Len(q[m + 1]) /\ FormParser(q[m + 1], i)
         /\ m = Len(q) => i <= Len(t) /\ TailParser(t, i)
         /\ t = <<>> /\ state = Normal => pbuf = <<>>

(* What is executed, then what the buffer still has, is what is expected   *)
(* of what was read.                                                       *)
Half(c, j) == IF c = BsCode /\ j > 2 THEN 1 ELSE 0
ToldUpTo(a, q, m, x, e) ==
    /\ Len(a) + (Len(q) - m) = x
    /\ \A k \in 1..Len(a) : a[k] = e[k]
    /\ \A k \in 1..(Len(q) - m) : Said(q[m + k]) = e[Len(a) + k]
Meant(n, j) == Mark(n) + Half(Code(n), j)
Told(q, m, n, j) == ToldUpTo(done, q, m, Meant(n, j), Expected)

Good(n, j, q, d, t, m, i) ==
    BufferPart(q, d, t) /\ FlushPart(n, j, t) /\ DrainPart(q, d, t, m, i) /\ Told(q, m, n, j)
KeptPart(n, j) == spoiled \/ \E q, d, t, m, i : Good(n, j, q, d, t, m, i)

Placed(n, j) == ReadPart(n, j) /\ SyncPart(n, j) /\ BoundPart(j) /\ KeptPart(n, j)
IInv == Typed /\ PhasePart /\ \E n, j : Placed(n, j)
-----------------------------------------------------------------------------
LEMMA ProgramFacts ==
    ASSUME program \in Programs
    PROVE  /\ program \in Seq(Codes) /\ Len(program) \in Nat
           /\ Flat \in Seq(Characters) /\ Len(Flat) \in Nat /\ Whole(Offs, program)
           /\ Len(Meanings) = Len(program) /\ \A k \in 1..Len(program) : Meanings[k] = Meaning(program[k])
           /\ Expected \in Seq(Seq(Characters)) /\ Whole(Marks, Meanings) /\ Expected = FlattenSeq(Meanings)
<1>1. program \in Seq(Codes) /\ Len(program) \in Nat /\ DOMAIN program = 1..Len(program)
  BY ProgramsAssumption
<1>2. program \in Seq(Seq(Characters))
  <2>1. \A k \in 1..Len(program) : program[k] \in Seq(Characters)
    BY <1>1, CodeChars
  <2>2. program = [k \in 1..Len(program) |-> program[k]]
    BY <1>1
  <2>3. [k \in 1..Len(program) |-> program[k]] \in Seq(Seq(Characters))
    BY <1>1, <2>1
  <2> QED  BY <2>2, <2>3
<1>3. Flat \in Seq(Characters) /\ Whole(Offs, program)
  <2>1. FlattenSeq(program) \in Seq(Characters) /\ \E c : Whole(c, program)
    BY <1>2, FlatCut DEF Whole
  <2> QED  BY <2>1, Zenon DEF Flat, Offs
<1>4. /\ Meanings = [k \in 1..Len(program) |-> Meaning(program[k])]
      /\ \A k \in 1..Len(program) : Meaning(program[k]) \in Seq(Seq(Characters))
  BY <1>1, MeaningFacts DEF Meanings
<1>5. Meanings \in Seq(Seq(Seq(Characters))) /\ Len(Meanings) = Len(program)
      /\ \A k \in 1..Len(program) : Meanings[k] = Meaning(program[k])
  BY <1>1, <1>4
<1>6. Expected = FlattenSeq(Meanings)
  BY DEF Expected, Meanings
<1>7. Expected \in Seq(Seq(Characters)) /\ Whole(Marks, Meanings)
  <2>1. FlattenSeq(Meanings) \in Seq(Seq(Characters)) /\ \E c : Whole(c, Meanings)
    BY <1>5, FlatCut DEF Whole
  <2> QED  BY <2>1, <1>6, Zenon DEF Marks
<1>8. Len(Flat) \in Nat
  BY <1>3
<1> QED  BY <1>1, <1>3, <1>5, <1>6, <1>7, <1>8

LEMMA SameProgram ==
    ASSUME program' = program
    PROVE  /\ Flat' = Flat /\ Total' = Total /\ Expected' = Expected
           /\ \A n : Code(n)' = Code(n) /\ Size(n)' = Size(n) /\ Off(n)' = Off(n) /\ Mark(n)' = Mark(n)
BY DEF Flat, Total, Offs, Marks, Meanings, Expected, Code, Size, Off, Mark

(* The codes and their places.                                             *)
LEMMA PlaceBounds ==
    ASSUME program \in Programs, NEW n, NEW j, At(n, j)
    PROVE  /\ n \in Nat /\ j \in 0..4 /\ Off(n) \in Nat /\ Total \in Nat
           /\ n < Len(program) =>
                /\ Code(n) \in Codes /\ Size(n) \in 1..5 /\ j \in 0..(Size(n) - 1)
                /\ n + 1 \in 0..Len(program) /\ Off(n + 1) = Off(n) + Size(n)
                /\ \A i \in 1..Size(n) : Flat[Off(n) + i] = Code(n)[i]
           /\ n = Len(program) => Off(n) = Total
<1>1. n \in 0..Len(program) /\ Len(program) \in Nat /\ j \in Nat
  BY ProgramFacts DEF At
<1>2. Off(n) \in Nat /\ Total \in Nat
  <2>1. Offs \in [0..Len(program) -> Nat]
    BY ProgramFacts DEF Whole, Cut
  <2> QED  BY <1>1, <2>1, ProgramFacts DEF Off, Total
<1>3. Cut(Offs, program, Flat) /\ Offs[Len(program)] = Total
  BY ProgramFacts DEF Whole, Flat, Total
<1>4. n = Len(program) => Off(n) = Total
  BY <1>3 DEF Off
<1>5. CASE n < Len(program)
  <2>1. n + 1 \in 1..Len(program) /\ (n + 1) - 1 = n /\ n + 1 \in 0..Len(program)
    BY <1>1, <1>5
  <2>2. Code(n) \in Codes
    BY <2>1, ProgramFacts DEF Code
  <2>3. Size(n) \in 1..5
    BY <2>2, CodeLength DEF Size
  <2>4. j < Size(n)
    BY <1>5 DEF At
  <2>5. j \in 0..4 /\ j \in 0..(Size(n) - 1)
    BY <1>1, <2>3, <2>4
  <2>6. Offs[n + 1] = Offs[(n + 1) - 1] + Len(program[n + 1])
    BY <1>3, <2>1 DEF Cut
  <2>7. \A i \in 1..Len(program[n + 1]) : Flat[Offs[(n + 1) - 1] + i] = program[n + 1][i]
    BY <1>3, <2>1 DEF Cut
  <2>8. Off(n + 1) = Off(n) + Size(n)
    BY <2>1, <2>6, Zenon DEF Off, Size, Code
  <2>9. \A i \in 1..Size(n) : Flat[Off(n) + i] = Code(n)[i]
    BY <2>1, <2>7, Zenon DEF Off, Size, Code
  <2> QED  BY <1>1, <1>2, <1>5, <2>1, <2>2, <2>3, <2>5, <2>8, <2>9
<1>6. CASE n = Len(program)
  <2>1. j = 0
    BY <1>6 DEF At
  <2> QED  BY <1>1, <1>2, <1>4, <1>6, <2>1
<1>7. n < Len(program) \/ n = Len(program)
  BY <1>1
<1> QED  BY <1>5, <1>6, <1>7

(* The next character of the program.                                      *)
NextN(n, j) == IF j + 1 = Size(n) THEN n + 1 ELSE n
NextJ(n, j) == IF j + 1 = Size(n) THEN 0 ELSE j + 1
More(n, j) == Off(n) + j < Total

LEMMA NextPlace ==
    ASSUME program \in Programs, NEW n, NEW j, At(n, j), More(n, j)
    PROVE  /\ n < Len(program)
           /\ Flat[Off(n) + j + 1] = Code(n)[j + 1]
           /\ At(NextN(n, j), NextJ(n, j)) /\ Off(NextN(n, j)) + NextJ(n, j) = Off(n) + j + 1
<1>1. n \in 0..Len(program) /\ n \in Nat /\ j \in Nat /\ Len(program) \in Nat /\ Total \in Nat /\ Off(n) \in Nat
  BY ProgramFacts, PlaceBounds DEF At
<1>2. n < Len(program)
  <2>1. CASE n = Len(program)
    <3>1. j = 0 /\ Off(n) = Total
      BY <2>1, PlaceBounds DEF At
    <3>2. Off(n) + j < Total
      BY DEF More
    <3> QED  BY <3>1, <3>2, <1>1
  <2> QED  BY <1>1, <2>1
<1>3. /\ Size(n) \in 1..5 /\ j \in 0..(Size(n) - 1) /\ n + 1 \in 0..Len(program)
      /\ Off(n + 1) = Off(n) + Size(n)
  BY <1>2, PlaceBounds
<1>4. Flat[Off(n) + j + 1] = Code(n)[j + 1]
  <2>1. j + 1 \in 1..Size(n) /\ Off(n) + (j + 1) = Off(n) + j + 1
    <3>1. j + 1 \in 1..Size(n)
      BY <1>3
    <3>2. Off(n) + (j + 1) = Off(n) + j + 1
      BY <1>1
    <3> QED  BY <3>1, <3>2
  <2>2. \A i \in 1..Size(n) : Flat[Off(n) + i] = Code(n)[i]
    BY <1>2, PlaceBounds
  <2>3. Flat[Off(n) + (j + 1)] = Code(n)[j + 1]
    BY <2>1, <2>2, Zenon
  <2> QED  BY <2>1, <2>3, Zenon
<1>5. CASE j + 1 = Size(n)
  <2>1. NextN(n, j) = n + 1 /\ NextJ(n, j) = 0
    BY <1>5 DEF NextN, NextJ
  <2>2. n + 1 < Len(program) => 0 < Size(n + 1)
    <3>1. ASSUME n + 1 < Len(program) PROVE Size(n + 1) \in 1..5
      <4>1. (n + 1) + 1 \in 1..Len(program)
        BY <1>1, <1>3, <3>1
      <4>2. Code(n + 1) \in Codes
        BY <4>1, ProgramFacts DEF Code
      <4> QED  BY <4>2, CodeLength DEF Size
    <3> QED  BY <3>1
  <2>3. At(n + 1, 0)
    BY <1>1, <1>3, <2>2 DEF At
  <2>4. Off(n + 1) + 0 = Off(n) + j + 1
    BY <1>1, <1>3, <1>5
  <2> QED  BY <1>2, <1>4, <2>1, <2>3, <2>4
<1>6. CASE j + 1 # Size(n)
  <2>1. NextN(n, j) = n /\ NextJ(n, j) = j + 1
    BY <1>6 DEF NextN, NextJ
  <2>2. At(n, j + 1)
    BY <1>1, <1>2, <1>3, <1>6 DEF At
  <2>3. Off(n) + (j + 1) = Off(n) + j + 1
    BY <1>1
  <2> QED  BY <1>2, <1>4, <2>1, <2>2, <2>3
<1> QED  BY <1>5, <1>6

(* The read buffer and what has not been read, when a character is taken   *)
(* and when more is read.                                                  *)
LEMMA RestTail ==
    ASSUME program \in Programs, NEW r \in Seq(Characters), NEW u \in Seq(Characters), NEW p \in Nat,
           Rest(r, u, p), r # <<>>
    PROVE  p < Total /\ Head(r) = Flat[p + 1] /\ Rest(Tail(r), u, p + 1)
<1>1. Len(r) \in Nat /\ Len(r) > 0 /\ Len(u) \in Nat /\ Total \in Nat
  BY ProgramFacts DEF Total
<1>2. /\ Head(r) = r[1] /\ Len(Tail(r)) = Len(r) - 1
      /\ \A k \in 1..(Len(r) - 1) : Tail(r)[k] = r[k + 1]
  OBVIOUS
<1>3. p < Total /\ Head(r) = Flat[p + 1]
  BY <1>1, <1>2 DEF Rest
<1>4. (p + 1) + Len(Tail(r)) + Len(u) = Total
  <2> DEFINE v == Len(r)
             w == Len(u)
  <2>1. v \in Nat /\ w \in Nat /\ Len(Tail(r)) = v - 1 /\ p + v + w = Total
    BY <1>1, <1>2 DEF Rest
  <2> HIDE DEF v, w
  <2>2. (p + 1) + (v - 1) + w = p + v + w
    BY <2>1
  <2> QED  BY <2>1, <2>2, Zenon DEF w
<1>5. ASSUME NEW k \in 1..Len(Tail(r)) PROVE Tail(r)[k] = Flat[(p + 1) + k]
  <2>1. k \in 1..(Len(r) - 1) /\ k + 1 \in 1..Len(r) /\ p + (k + 1) = (p + 1) + k
    BY <1>1, <1>2
  <2>2. r[k + 1] = Flat[p + (k + 1)]
    BY <2>1 DEF Rest
  <2> QED  BY <1>2, <2>1, <2>2
<1>6. ASSUME NEW k \in 1..Len(u) PROVE u[k] = Flat[(p + 1) + Len(Tail(r)) + k]
  <2>1. (p + 1) + Len(Tail(r)) + k = p + Len(r) + k
    BY <1>1, <1>2
  <2> QED  BY <2>1 DEF Rest
<1> QED  BY <1>3, <1>4, <1>5, <1>6 DEF Rest

LEMMA RestMoves ==
    ASSUME program \in Programs, NEW r \in Seq(Characters), NEW u \in Seq(Characters), NEW p \in Nat,
           Rest(r, u, p), NEW n \in 1..Len(u)
    PROVE  /\ r \o SubSeq(u, 1, n) \in Seq(Characters) /\ SubSeq(u, n + 1, Len(u)) \in Seq(Characters)
           /\ Len(r \o SubSeq(u, 1, n)) = Len(r) + n
           /\ Rest(r \o SubSeq(u, 1, n), SubSeq(u, n + 1, Len(u)), p)
<1> DEFINE a == SubSeq(u, 1, n)
           b == SubSeq(u, n + 1, Len(u))
           s == r \o a
<1>1. Len(r) \in Nat /\ Len(u) \in Nat /\ Total \in Nat /\ n \in Nat
  BY ProgramFacts DEF Total
<1>2. a \in Seq(Characters) /\ Len(a) = n /\ \A k \in 1..n : a[k] = u[k]
  BY <1>1
<1>a. a \in Seq(Characters)
  BY <1>1
<1>3. b \in Seq(Characters) /\ Len(b) = Len(u) - n /\ \A k \in 1..(Len(u) - n) : b[k] = u[n + k]
  BY <1>1
<1> HIDE DEF a, b
<1>4. /\ s \in Seq(Characters) /\ Len(s) = Len(r) + Len(a)
      /\ \A k \in 1..Len(r) : s[k] = r[k]
      /\ \A k \in 1..Len(a) : s[Len(r) + k] = a[k]
  BY <1>a
<1> HIDE DEF s
<1>5. p + Len(s) + Len(b) = Total
  <2>1. Len(s) = Len(r) + n /\ Len(b) = Len(u) - n /\ p + Len(r) + Len(u) = Total
    BY <1>2, <1>3, <1>4 DEF Rest
  <2> DEFINE v == Len(r)
             w == Len(u)
  <2>2. v \in Nat /\ w \in Nat
    BY <1>1
  <2> HIDE DEF v, w
  <2>3. p + (v + n) + (w - n) = p + v + w
    BY <1>1, <2>2
  <2> QED  BY <2>1, <2>3, Zenon DEF v, w
<1>6. ASSUME NEW k \in 1..Len(s) PROVE s[k] = Flat[p + k]
  <2>1. CASE k <= Len(r)
    <3>1. k \in 1..Len(r)
      BY <1>1, <2>1
    <3> QED  BY <3>1, <1>4 DEF Rest
  <2>2. CASE k > Len(r)
    <3> DEFINE l == k - Len(r)
    <3>1. l \in 1..n /\ l \in 1..Len(a) /\ l \in 1..Len(u) /\ Len(r) + l = k /\ p + Len(r) + l = p + k
      BY <1>1, <1>2, <1>4, <2>2
    <3> HIDE DEF l
    <3>2. s[Len(r) + l] = a[l] /\ a[l] = u[l] /\ u[l] = Flat[p + Len(r) + l]
      BY <3>1, <1>2, <1>4 DEF Rest
    <3> QED  BY <3>1, <3>2
  <2> QED  BY <1>1, <2>1, <2>2
<1>7. ASSUME NEW k \in 1..Len(b) PROVE b[k] = Flat[p + Len(s) + k]
  <2>1. k \in 1..(Len(u) - n) /\ n + k \in 1..Len(u) /\ p + Len(r) + (n + k) = p + Len(s) + k
    <3> DEFINE v == Len(r)
               w == Len(u)
    <3>1. v \in Nat /\ w \in Nat /\ k \in 1..(w - n) /\ Len(s) = v + n
      BY <1>1, <1>2, <1>3, <1>4
    <3> HIDE DEF v, w
    <3>2. n + k \in 1..w /\ p + v + (n + k) = p + (v + n) + k
      BY <3>1, <1>1
    <3> QED  BY <3>1, <3>2, Zenon DEF v, w
  <2>2. u[n + k] = Flat[p + Len(r) + (n + k)]
    BY <2>1 DEF Rest
  <2> QED  BY <1>3, <2>1, <2>2
<1>8. Len(s) = Len(r) + n
  BY <1>2, <1>4
<1> QED  BY <1>3, <1>4, <1>5, <1>6, <1>7, <1>8 DEF Rest, s, a, b
-----------------------------------------------------------------------------
(* The pending buffer and its codes.                                       *)
LEMMA FormsAre ==
    /\ \A f \in Forms : f \in Seq(Characters) /\ Len(f) \in 1..3
    /\ \A t \in Tails : t \in Seq(Characters) /\ Len(t) \in 2..3
<1>c. {"a", "u1", "u2", "ESC", "(", "B", "CSI", "3", "m", "DCS", "q", "ST", "7", "?", "1s", "2s"} \subseteq Characters
  BY SomeCharacters
<1>1. ASSUME NEW f \in Forms PROVE f \in Seq(Characters) /\ Len(f) \in 1..3
  <2>1. CASE f = <<"a">>
    BY <2>1, <1>c
  <2>5. CASE f = HalvesCode
    BY <2>5, <1>c DEF HalvesCode
  <2>6. CASE f = <<"CSI", "m">>
    BY <2>6, <1>c
  <2>7. CASE f = <<"ESC", "7">>
    BY <2>7, <1>c
  <2>2. CASE f = CharsetCode
    BY <2>2, <1>c DEF CharsetCode
  <2>3. CASE f = <<"CSI", "3", "m">>
    BY <2>3, <1>c
  <2>4. CASE f = <<"DCS", "q", "ST">>
    BY <2>4, <1>c
  <2> QED  BY <2>1, <2>2, <2>3, <2>4, <2>5, <2>6, <2>7 DEF Forms
<1>2. ASSUME NEW t \in Tails PROVE t \in Seq(Characters) /\ Len(t) \in 2..3
  <2>1. CASE t \in {<<"ESC", "(">>, <<"CSI", "3">>, <<"CSI", "?">>}
    <3>1. CASE t = <<"ESC", "(">>
      BY <3>1, <1>c
    <3>2. CASE t = <<"CSI", "3">>
      BY <3>2, <1>c
    <3>3. CASE t = <<"CSI", "?">>
      BY <3>3, <1>c
    <3> QED  BY <2>1, <3>1, <3>2, <3>3
  <2>2. ASSUME NEW x \in {"1s", "2s", "q", "ESC"}, t = <<"DCS", x>> PROVE t \in Seq(Characters) /\ Len(t) \in 2..3
    BY <2>2, <1>c
  <2>3. ASSUME NEW x \in {"1s", "2s", "q"}, t = <<"DCS", x, "ESC">> PROVE t \in Seq(Characters) /\ Len(t) \in 2..3
    BY <2>3, <1>c
  <2> QED  BY <2>1, <2>2, <2>3, Zenon DEF Tails
<1> QED  BY <1>1, <1>2

LEMMA ConcatParts ==
    ASSUME NEW S, NEW s \in Seq(S), NEW t \in Seq(S)
    PROVE  /\ s \o t \in Seq(S) /\ Len(s \o t) = Len(s) + Len(t)
           /\ \A i \in 1..Len(s) : (s \o t)[i] = s[i]
           /\ \A i \in 1..Len(t) : (s \o t)[Len(s) + i] = t[i]
OBVIOUS

LEMMA AppendParts ==
    ASSUME NEW S, NEW s \in Seq(S), NEW x \in S
    PROVE  /\ Append(s, x) \in Seq(S) /\ Len(Append(s, x)) = Len(s) + 1
           /\ \A i \in 1..Len(s) : Append(s, x)[i] = s[i]
           /\ Append(s, x)[Len(s) + 1] = x
OBVIOUS

LEMMA BufferFacts ==
    ASSUME NEW b \in Seq(Characters), NEW q, NEW d, NEW t, Buffer(b, q, d, t)
    PROVE  /\ Len(q) \in Nat /\ Len(t) \in Nat /\ d[Len(q)] \in Nat
           /\ \A m \in 0..Len(q) : d[m] \in Nat /\ d[m] <= Len(b)
           /\ \A m \in 0..Len(q) : m < Len(q) =>
                /\ q[m + 1] \in Forms /\ d[m + 1] = d[m] + Len(q[m + 1]) /\ m + 1 \in 0..Len(q)
                /\ \A i \in 1..Len(q[m + 1]) : b[d[m] + i] = q[m + 1][i]
<1>1. Len(q) \in Nat /\ q \in Seq(Forms) /\ Cut(d, q, b)
  BY DEF Buffer
<1>2. Len(t) \in Nat
  <2>1. t \in Tails \cup {<<>>}
    BY DEF Buffer
  <2> QED  BY <2>1, FormsAre
<1>3. \A m \in 0..Len(q) : d[m] \in Nat /\ d[m] <= Len(b)
  BY <1>1 DEF Cut
<1>4. ASSUME NEW m \in 0..Len(q), m < Len(q)
      PROVE  /\ q[m + 1] \in Forms /\ d[m + 1] = d[m] + Len(q[m + 1]) /\ m + 1 \in 0..Len(q)
             /\ \A i \in 1..Len(q[m + 1]) : b[d[m] + i] = q[m + 1][i]
  <2>1. m + 1 \in 1..Len(q) /\ m + 1 \in 0..Len(q) /\ (m + 1) - 1 = m
    BY <1>1, <1>4
  <2>2. q[m + 1] \in Forms
    BY <1>1, <2>1
  <2>3. d[m + 1] = d[(m + 1) - 1] + Len(q[m + 1])
    BY <1>1, <2>1, Zenon DEF Cut
  <2>4. \A i \in 1..Len(q[m + 1]) : b[d[(m + 1) - 1] + i] = q[m + 1][i]
    BY <1>1, <2>1, Zenon DEF Cut
  <2> QED  BY <2>1, <2>2, <2>3, <2>4
<1>5. d[Len(q)] \in Nat
  BY <1>1, <1>3
<1> QED  BY <1>1, <1>2, <1>3, <1>4, <1>5

LEMMA BufferCode ==
    ASSUME NEW b \in Seq(Characters), NEW q, NEW d, NEW t, Buffer(b, q, d, t),
           NEW m \in 0..Len(q), m < Len(q)
    PROVE  /\ q[m + 1] \in Forms /\ d[m + 1] = d[m] + Len(q[m + 1]) /\ m + 1 \in 0..Len(q)
           /\ d[m] \in Nat /\ d[m + 1] <= Len(b)
           /\ \A i \in 1..Len(q[m + 1]) : b[d[m] + i] = q[m + 1][i]
BY BufferFacts

LEMMA NoBuffer ==
    \E d : Buffer(<<>>, <<>>, d, <<>>)
<1> DEFINE d == [k \in 0..0 |-> 0]
<1>1. Len(<<>>) = 0 /\ <<>> \in Seq(Forms)
  OBVIOUS
<1>2. d[0] = 0 /\ d \in [0..0 -> Nat] /\ \A k \in 0..0 : d[k] = 0
  OBVIOUS
<1> HIDE DEF d
<1>3. 1..0 = {} /\ 0 + 0 = 0 /\ 0..0 = {0} /\ 0 <= 0
  OBVIOUS
<1>4. Cut(d, <<>>, <<>>)
  <2>1. \A k \in 0..0 : d[k] <= 0
    BY <1>2
  <2>2. \A k \in 1..0 : FALSE
    OBVIOUS
  <2> QED  BY <1>1, <1>2, <2>1, <2>2, Zenon DEF Cut
<1>5. Buffer(<<>>, <<>>, d, <<>>)
  <2>1. Len(<<>>) = d[Len(<<>>)] + Len(<<>>)
    BY <1>1, <1>2
  <2>2. \A k \in 1..Len(<<>>) : FALSE
    BY <1>1
  <2> QED  BY <1>1, <1>4, <2>1, <2>2, Zenon DEF Buffer
<1> QED  BY <1>5

LEMMA EmptyBuffer ==
    ASSUME NEW b \in Seq(Characters), NEW q, NEW d, NEW t, Buffer(b, q, d, t)
    PROVE  b = <<>> => Len(q) = 0 /\ t = <<>>
<1>0. SUFFICES ASSUME Len(b) = 0 PROVE Len(q) = 0 /\ t = <<>>
  <2>1. Len(<<>>) = 0
    OBVIOUS
  <2> QED  BY <2>1
<1>1. Len(q) \in Nat /\ Len(t) \in Nat /\ d[Len(q)] \in Nat
  BY BufferFacts
<1>2. 0 = d[Len(q)] + Len(t)
  BY <1>0 DEF Buffer
<1>3. d[Len(q)] = 0 /\ Len(t) = 0
  <2> DEFINE v == d[Len(q)]
             w == Len(t)
  <2>1. v \in Nat /\ w \in Nat /\ 0 = v + w
    BY <1>1, <1>2
  <2> HIDE DEF v, w
  <2>2. v = 0 /\ w = 0
    BY <2>1
  <2> QED  BY <2>2 DEF v, w
<1>4. t = <<>>
  <2>1. t \in Tails \cup {<<>>}
    BY DEF Buffer
  <2>2. \A x \in Tails : Len(x) # 0
    <3>1. \A x \in Tails : Len(x) \in 2..3
      BY FormsAre
    <3>2. 0 \notin 2..3
      OBVIOUS
    <3> QED  BY <3>1, <3>2, Zenon
  <2> QED  BY <1>3, <2>1, <2>2, Zenon
<1>5. Len(q) = 0
  <2> SUFFICES ASSUME Len(q) # 0 PROVE FALSE
    OBVIOUS
  <2> DEFINE m == Len(q) - 1
  <2>1. m \in 0..Len(q) /\ m < Len(q) /\ m + 1 = Len(q)
    BY <1>1
  <2> HIDE DEF m
  <2>2. q[m + 1] \in Forms /\ d[m + 1] = d[m] + Len(q[m + 1]) /\ d[m] \in Nat
    BY <2>1, BufferCode
  <2>3. Len(q[m + 1]) \in 1..3
    BY <2>2, FormsAre
  <2>4. d[m + 1] = 0
    BY <1>3, <2>1
  <2> DEFINE v == d[m]
             w == Len(q[m + 1])
  <2>5. v \in Nat /\ w \in 1..3 /\ 0 = v + w
    BY <2>2, <2>3, <2>4
  <2> HIDE DEF v, w
  <2> QED  BY <2>5
<1> QED  BY <1>4, <1>5

(* A code that is queued.                                                  *)
LEMMA BufferGrows ==
    ASSUME NEW b \in Seq(Characters), NEW q, NEW d, Buffer(b, q, d, <<>>), NEW f \in Forms
    PROVE  \E e : Buffer(b \o f, Append(q, f), e, <<>>)
<1> DEFINE p == Append(q, f)
           g == b \o f
           N == Len(q)
           B == Len(b)
           L == Len(f)
           e == [k \in 0..(N + 1) |-> IF k = N + 1 THEN B + L ELSE d[k]]
<1>0. Len(<<>>) = 0
  OBVIOUS
<1>1. N \in Nat /\ B \in Nat /\ L \in 1..3 /\ L \in Nat /\ f \in Seq(Characters) /\ q \in Seq(Forms)
  <2>1. f \in Seq(Characters) /\ L \in 1..3
    BY FormsAre
  <2> QED  BY <2>1, BufferFacts DEF Buffer
<1>2. /\ p \in Seq(Forms) /\ Len(p) = N + 1 /\ \A i \in 1..N : p[i] = q[i]
      /\ p[N + 1] = f
  BY <1>1, AppendParts
<1>3. /\ Len(g) = B + L /\ \A i \in 1..B : g[i] = b[i]
      /\ \A i \in 1..L : g[B + i] = f[i]
  BY <1>1, ConcatParts
<1>4. Cut(d, q, b) /\ d[N] = B
  <2>1. B = d[N] + 0 /\ d[N] \in Nat
    BY <1>0, BufferFacts DEF Buffer
  <2> QED  BY <2>1 DEF Buffer
<1>5. \A k \in 0..N : d[k] \in Nat /\ d[k] <= B
  BY BufferFacts
<1>6. /\ d[0] = 0
      /\ \A k \in 1..N : d[k] = d[k - 1] + Len(q[k])
      /\ \A k \in 1..N : \A i \in 1..Len(q[k]) : b[d[k - 1] + i] = q[k][i]
  BY <1>4 DEF Cut
<1> HIDE DEF p, g, N, B, L
<1>7. e \in [0..(N + 1) -> Nat] /\ e[N + 1] = B + L /\ \A k \in 0..N : e[k] = d[k]
  BY <1>1, <1>5
<1> HIDE DEF e
<1>8. e[0] = 0
  BY <1>1, <1>6, <1>7
<1>9. ASSUME NEW k \in 1..(N + 1)
      PROVE  e[k] = e[k - 1] + Len(p[k]) /\ \A i \in 1..Len(p[k]) : g[e[k - 1] + i] = p[k][i]
  <2>1. CASE k = N + 1
    <3>1. k - 1 \in 0..N /\ k - 1 = N
      BY <1>1, <2>1
    <3>2. e[k - 1] = B
      BY <3>1, <1>4, <1>7 DEF N
    <3>3. Len(p[k]) = L /\ p[k] = f
      BY <1>2, <2>1 DEF L
    <3>4. e[k] = B + L
      BY <1>7, <2>1
    <3> QED  BY <3>2, <3>3, <3>4, <1>3
  <2>2. CASE k # N + 1
    <3>1. k \in 1..N /\ k \in 0..N /\ k - 1 \in 0..N
      BY <1>1, <2>2
    <3>2. e[k] = d[k] /\ e[k - 1] = d[k - 1] /\ p[k] = q[k] /\ d[k] = d[k - 1] + Len(q[k])
      BY <3>1, <1>2, <1>6, <1>7
    <3>3. d[k - 1] \in Nat /\ d[k] <= B
      BY <3>1, <1>5
    <3>4. q[k] \in Forms
      BY <3>1, <1>1 DEF N
    <3>5. ASSUME NEW i \in 1..Len(q[k]) PROVE g[d[k - 1] + i] = q[k][i]
      <4> DEFINE v == d[k - 1]
                 w == Len(q[k])
      <4>1. v \in Nat /\ w \in 1..3 /\ v + w <= B /\ i \in 1..w
        BY <3>2, <3>3, <3>4, FormsAre
      <4> HIDE DEF v, w
      <4>2. v + i \in 1..B
        BY <1>1, <4>1
      <4>3. b[v + i] = q[k][i]
        BY <3>1, <1>6 DEF v
      <4>4. g[v + i] = q[k][i]
        BY <1>3, <4>2, <4>3
      <4> QED  BY <4>4 DEF v
    <3> QED  BY <3>2, <3>5
  <2> QED  BY <2>1, <2>2
<1>10. \A k \in 0..(N + 1) : e[k] <= B + L
  <2> SUFFICES ASSUME NEW k \in 0..(N + 1) PROVE e[k] <= B + L
    OBVIOUS
  <2>1. CASE k = N + 1
    BY <1>1, <1>7, <2>1
  <2>2. CASE k # N + 1
    <3>1. k \in 0..N
      BY <1>1, <2>2
    <3>2. e[k] = d[k] /\ d[k] \in Nat /\ d[k] <= B
      BY <3>1, <1>5, <1>7
    <3> QED  BY <1>1, <3>2
  <2> QED  BY <2>1, <2>2
<1>11. Cut(e, p, g)
  BY <1>2, <1>3, <1>7, <1>8, <1>9, <1>10, Zenon DEF Cut
<1>12. Buffer(g, p, e, <<>>)
  <2>1. Len(g) = e[Len(p)] + Len(<<>>)
    <3>1. B + L = (B + L) + 0
      BY <1>1
    <3> QED  BY <1>0, <1>2, <1>3, <1>7, <3>1, Zenon
  <2>2. \A k \in 1..Len(<<>>) : FALSE
    BY <1>0
  <2> QED  BY <1>2, <1>11, <2>1, <2>2, Zenon DEF Buffer
<1> QED  BY <1>12, Zenon DEF g, p

(* What is added when the update is given up.                              *)
LEMMA BufferEnds ==
    ASSUME NEW b \in Seq(Characters), NEW q, NEW d, Buffer(b, q, d, <<>>), NEW t \in Tails \cup {<<>>}
    PROVE  Buffer(b \o t, q, d, t)
<1> DEFINE g == b \o t
           B == Len(b)
           L == Len(t)
<1>0. Len(<<>>) = 0 /\ <<>> \in Seq(Characters)
  OBVIOUS
<1>1. B \in Nat /\ t \in Seq(Characters) /\ L \in Nat /\ q \in Seq(Forms) /\ Len(q) \in Nat
  <2>1. t \in Seq(Characters)
    BY <1>0, FormsAre
  <2> QED  BY <2>1, BufferFacts DEF Buffer
<1>3. /\ Len(g) = B + L /\ \A i \in 1..B : g[i] = b[i]
      /\ \A i \in 1..L : g[B + i] = t[i]
  BY <1>1, ConcatParts
<1>4. Cut(d, q, b) /\ d[Len(q)] = B
  <2>1. B = d[Len(q)] + 0 /\ d[Len(q)] \in Nat
    BY <1>0, BufferFacts DEF Buffer
  <2> QED  BY <2>1 DEF Buffer
<1>5. \A k \in 0..Len(q) : d[k] \in Nat /\ d[k] <= B
  BY BufferFacts
<1> HIDE DEF g, B, L
<1>6. \A k \in 0..Len(q) : d[k] <= B + L
  BY <1>1, <1>5
<1>7. ASSUME NEW k \in 1..Len(q), NEW i \in 1..Len(q[k]) PROVE g[d[k - 1] + i] = q[k][i]
  <2>1. k - 1 \in 0..Len(q) /\ k \in 0..Len(q) /\ q[k] \in Forms
    BY <1>1
  <2>2. d[k] = d[k - 1] + Len(q[k]) /\ b[d[k - 1] + i] = q[k][i]
    BY <1>4 DEF Cut
  <2> DEFINE v == d[k - 1]
             w == Len(q[k])
  <2>3. v \in Nat /\ w \in 1..3 /\ v + w <= B /\ i \in 1..w
    BY <2>1, <2>2, <1>5, FormsAre
  <2> HIDE DEF v, w
  <2>4. v + i \in 1..B
    BY <1>1, <2>3
  <2>5. g[v + i] = b[v + i]
    BY <1>3, <2>4
  <2> QED  BY <2>2, <2>5 DEF v
<1>8. Cut(d, q, g)
  BY <1>3, <1>4, <1>6, <1>7, Zenon DEF Cut
<1>9. Buffer(g, q, d, t)
  BY <1>1, <1>3, <1>4, <1>8, Zenon DEF Buffer, L
<1> QED  BY <1>9 DEF g

(* What is executed and what the buffer still has.                         *)
LEMMA ToldQueue ==
    ASSUME NEW S, NEW a \in Seq(S), NEW q \in Seq(Forms), NEW m \in 0..Len(q), NEW x, NEW e,
           ToldUpTo(a, q, m, x, e), NEW f \in Forms, Said(f) = e[x + 1]
    PROVE  ToldUpTo(a, Append(q, f), m, x + 1, e)
<1> DEFINE A == Len(a)
           Q == Len(q)
           p == Append(q, f)
<1>1. A \in Nat /\ Q \in Nat /\ m \in 0..Q
  OBVIOUS
<1>2. Len(p) = Q + 1 /\ p[Q + 1] = f /\ \A i \in 1..Q : p[i] = q[i]
  BY AppendParts
<1>3. A + (Q - m) = x /\ \A k \in 1..A : a[k] = e[k]
  BY DEF ToldUpTo
<1>4. \A k \in 1..(Q - m) : Said(q[m + k]) = e[A + k]
  BY DEF ToldUpTo
<1> HIDE DEF A, Q, p
<1>5. A + ((Q + 1) - m) = x + 1
  BY <1>1, <1>3
<1>6. ASSUME NEW k \in 1..((Q + 1) - m) PROVE Said(p[m + k]) = e[A + k]
  <2>1. CASE k = (Q + 1) - m
    <3>1. m + k = Q + 1 /\ A + k = x + 1
      BY <1>1, <1>3, <2>1
    <3> QED  BY <1>2, <3>1
  <2>2. CASE k # (Q + 1) - m
    <3>1. k \in 1..(Q - m) /\ m + k \in 1..Q
      BY <1>1, <2>2
    <3> QED  BY <1>2, <1>4, <3>1
  <2> QED  BY <2>1, <2>2
<1> QED  BY <1>2, <1>3, <1>5, <1>6, Zenon DEF ToldUpTo, A, p

LEMMA ToldSay ==
    ASSUME NEW S, NEW a \in Seq(S), NEW q \in Seq(Forms), NEW x, NEW e,
           ToldUpTo(a, q, Len(q), x, e), NEW w \in S, w = e[x + 1]
    PROVE  ToldUpTo(Append(a, w), q, Len(q), x + 1, e)
<1> DEFINE A == Len(a)
           Q == Len(q)
           b == Append(a, w)
<1>1. A \in Nat /\ Q \in Nat
  OBVIOUS
<1>2. Len(b) = A + 1 /\ b[A + 1] = w /\ \A i \in 1..A : b[i] = a[i]
  BY AppendParts
<1>3. A + (Q - Q) = x /\ \A k \in 1..A : a[k] = e[k]
  BY DEF ToldUpTo
<1> HIDE DEF A, Q, b
<1>4. (A + 1) + (Q - Q) = x + 1 /\ A + 1 = x + 1
  BY <1>1, <1>3
<1>5. ASSUME NEW k \in 1..(A + 1) PROVE b[k] = e[k]
  <2>1. k = A + 1 \/ k \in 1..A
    BY <1>1
  <2> QED  BY <1>2, <1>3, <1>4, <2>1
<1>6. ASSUME NEW k \in 1..(Q - Q) PROVE FALSE
  BY <1>1
<1> QED  BY <1>2, <1>4, <1>5, <1>6, Zenon DEF ToldUpTo, Q, b

LEMMA ToldRun ==
    ASSUME NEW S, NEW a \in Seq(S), NEW q \in Seq(Forms), NEW m \in 0..Len(q), m < Len(q), NEW x, NEW e,
           ToldUpTo(a, q, m, x, e), Said(q[m + 1]) \in S
    PROVE  ToldUpTo(Append(a, Said(q[m + 1])), q, m + 1, x, e)
<1> DEFINE A == Len(a)
           Q == Len(q)
           w == Said(q[m + 1])
           b == Append(a, w)
<1>1. A \in Nat /\ Q \in Nat /\ m \in 0..Q /\ m < Q
  OBVIOUS
<1>2. Len(b) = A + 1 /\ b[A + 1] = w /\ \A i \in 1..A : b[i] = a[i]
  BY AppendParts
<1>3. A + (Q - m) = x /\ \A k \in 1..A : a[k] = e[k]
  BY DEF ToldUpTo
<1>4. \A k \in 1..(Q - m) : Said(q[m + k]) = e[A + k]
  BY DEF ToldUpTo
<1> HIDE DEF A, Q, b
<1>5. (A + 1) + (Q - (m + 1)) = x
  BY <1>1, <1>3
<1>6. w = e[A + 1]
  <2>1. 1 \in 1..(Q - m)
    BY <1>1
  <2> QED  BY <1>4, <2>1
<1>7. ASSUME NEW k \in 1..(A + 1) PROVE b[k] = e[k]
  <2>1. k = A + 1 \/ k \in 1..A
    BY <1>1
  <2> QED  BY <1>2, <1>3, <1>6, <2>1
<1>8. ASSUME NEW k \in 1..(Q - (m + 1)) PROVE Said(q[(m + 1) + k]) = e[(A + 1) + k]
  <2>1. 1 + k \in 1..(Q - m) /\ m + (1 + k) = (m + 1) + k /\ A + (1 + k) = (A + 1) + k
    BY <1>1
  <2>2. Said(q[m + (1 + k)]) = e[A + (1 + k)]
    BY <1>4, <2>1
  <2> QED  BY <2>1, <2>2
<1> QED  BY <1>2, <1>5, <1>7, <1>8, Zenon DEF ToldUpTo, Q, b

LEMMA ToldRan ==
    ASSUME NEW S, NEW a \in Seq(S), NEW q \in Seq(Forms), NEW x, NEW e, ToldUpTo(a, q, Len(q), x, e)
    PROVE  ToldUpTo(a, <<>>, 0, x, e)
<1> DEFINE A == Len(a)
           Q == Len(q)
<1>1. A \in Nat /\ Q \in Nat /\ Len(<<>>) = 0
  OBVIOUS
<1>2. A + (Q - Q) = x /\ \A k \in 1..A : a[k] = e[k]
  BY DEF ToldUpTo
<1> HIDE DEF A, Q
<1>3. A + (0 - 0) = x
  BY <1>1, <1>2
<1>4. ASSUME NEW k \in 1..(0 - 0) PROVE FALSE
  OBVIOUS
<1> QED  BY <1>1, <1>2, <1>3, <1>4, Zenon DEF ToldUpTo, A

(* What the codes mean, in what is expected.                               *)
LEMMA MarkFacts ==
    ASSUME program \in Programs, NEW n \in 0..Len(program)
    PROVE  /\ Mark(n) \in Nat /\ Mark(n) <= Len(Expected)
           /\ n < Len(program) =>
                /\ Mark(n + 1) = Mark(n) + Len(Meaning(Code(n)))
                /\ Mark(n + 1) <= Len(Expected)
                /\ \A i \in 1..Len(Meaning(Code(n))) : Expected[Mark(n) + i] = Meaning(Code(n))[i]
<1>1. Len(program) \in Nat /\ Len(Meanings) = Len(program)
      /\ \A k \in 1..Len(program) : Meanings[k] = Meaning(program[k])
  BY ProgramFacts
<1>2. Cut(Marks, Meanings, Expected)
  <2>1. Whole(Marks, Meanings) /\ Expected = FlattenSeq(Meanings)
    BY ProgramFacts
  <2> QED  BY <2>1, Zenon DEF Whole
<1>3. \A k \in 0..Len(program) : Marks[k] \in Nat /\ Marks[k] <= Len(Expected)
  BY <1>1, <1>2 DEF Cut
<1>4. Mark(n) \in Nat /\ Mark(n) <= Len(Expected)
  BY <1>3, Zenon DEF Mark
<1>5. ASSUME n < Len(program)
      PROVE  /\ Mark(n + 1) = Mark(n) + Len(Meaning(Code(n)))
             /\ Mark(n + 1) <= Len(Expected)
             /\ \A i \in 1..Len(Meaning(Code(n))) : Expected[Mark(n) + i] = Meaning(Code(n))[i]
  <2>1. n + 1 \in 1..Len(program) /\ n + 1 \in 0..Len(program) /\ (n + 1) - 1 = n
    BY <1>1, <1>5
  <2>2. Meanings[n + 1] = Meaning(Code(n))
    BY <1>1, <2>1, Zenon DEF Code
  <2>3. Marks[n + 1] = Marks[(n + 1) - 1] + Len(Meanings[n + 1])
    BY <1>1, <1>2, <2>1, Zenon DEF Cut
  <2>4. \A i \in 1..Len(Meanings[n + 1]) : Expected[Marks[(n + 1) - 1] + i] = Meanings[n + 1][i]
    BY <1>1, <1>2, <2>1, Zenon DEF Cut
  <2>5. Mark(n + 1) <= Len(Expected)
    BY <1>3, <2>1, Zenon DEF Mark
  <2> QED  BY <2>1, <2>2, <2>3, <2>4, <2>5, Zenon DEF Mark
<1> QED  BY <1>4, <1>5

LEMMA MeantBounds ==
    ASSUME program \in Programs, NEW n, NEW j, At(n, j)
    PROVE  Meant(n, j) \in Nat /\ Meant(n, j) <= Len(Expected)
<1>1. n \in 0..Len(program) /\ Len(program) \in Nat /\ j \in Nat /\ Len(Expected) \in Nat
  BY ProgramFacts DEF At
<1>2. Mark(n) \in Nat /\ Mark(n) <= Len(Expected)
  BY <1>1, MarkFacts
<1>3. CASE Half(Code(n), j) = 0
  BY <1>1, <1>2, <1>3 DEF Meant
<1>4. CASE Code(n) = BsCode /\ j > 2
  <2>1. n < Len(program)
    BY <1>1, <1>4 DEF At
  <2>2. Mark(n + 1) = Mark(n) + Len(Meaning(Code(n))) /\ Mark(n + 1) <= Len(Expected)
    BY <1>1, <2>1, MarkFacts
  <2>3. Len(Meaning(Code(n))) = 2
    BY <1>4, CodesAre, MeaningFacts
  <2>4. Half(Code(n), j) = 1
    BY <1>4 DEF Half
  <2> DEFINE v == Len(Expected)
  <2>5. v \in Nat /\ Mark(n) + 2 <= v
    BY <1>1, <2>2, <2>3
  <2> HIDE DEF v
  <2>6. Mark(n) + 1 \in Nat /\ Mark(n) + 1 <= v
    BY <1>2, <2>5
  <2> QED  BY <2>4, <2>6, Zenon DEF Meant, v
<1> QED  BY <1>3, <1>4 DEF Half

Speaks(c, j) == c \in TextCodes /\ j + 1 = Len(c)
Beeps(c, j) == c = BsCode /\ j = 2
NextMeant(n, j) == Meant(NextN(n, j), NextJ(n, j))

LEMMA MeantMoves ==
    ASSUME program \in Programs, NEW n, NEW j, At(n, j), More(n, j)
    PROVE  /\ Speaks(Code(n), j) =>
                NextMeant(n, j) = Meant(n, j) + 1 /\ Expected[Meant(n, j) + 1] = Spoken(Code(n))
           /\ Beeps(Code(n), j) =>
                NextMeant(n, j) = Meant(n, j) + 1 /\ Expected[Meant(n, j) + 1] = <<"BS">>
           /\ ~Speaks(Code(n), j) /\ ~Beeps(Code(n), j) => NextMeant(n, j) = Meant(n, j)
<1> DEFINE c == Code(n)
           x == Mark(n)
           M == Meaning(c)
           L == Len(M)
<1>1. n < Len(program) /\ n \in 0..Len(program)
  BY NextPlace DEF At
<1>2. c \in Codes /\ Size(n) = Len(c) /\ Size(n) \in 1..5 /\ j \in 0..(Size(n) - 1)
  BY <1>1, PlaceBounds DEF Size
<1>3. /\ x \in Nat /\ Mark(n + 1) = x + L
      /\ \A i \in 1..L : Expected[x + i] = M[i]
  BY <1>1, MarkFacts
<1>4. /\ c \in Begin \cup End => L = 0
      /\ c \in TextCodes /\ c # BsCode => L = 1 /\ M[1] = Spoken(c)
      /\ c = BsCode => L = 2 /\ M[1] = <<"BS">> /\ M[2] = Spoken(c)
      /\ c = BsCode => Size(n) = 4
  <2>1. Len(BsCode) = 4
    BY DEF BsCode
  <2>2. c = BsCode => Size(n) = 4
    BY <1>2, <2>1
  <2>3. c \in Codes
    BY <1>2
  <2> HIDE DEF c
  <2> QED  BY <2>2, <2>3, MeaningFacts
<1>5. c \in Begin \cup End \/ c \in TextCodes
  BY <1>2, CodesAre DEF TextCodes
<1>6. BsCode \in TextCodes /\ (c \in TextCodes => c \notin Begin \cup End)
  BY SpokenIs DEF TextCodes
<1>7. Half(Code(n + 1), 0) = 0
  BY DEF Half
<1>8. Meant(n, j) = x + Half(c, j)
  BY DEF Meant
<1>9. NextMeant(n, j) = IF j + 1 = Size(n) THEN Mark(n + 1) + 0 ELSE x + Half(c, j + 1)
  BY <1>7 DEF NextMeant, Meant, NextN, NextJ
<1> HIDE DEF c, x, M, L
<1>10. CASE j + 1 = Size(n) /\ c \in Begin \cup End
  <2>1. c # BsCode /\ c \notin TextCodes
    BY <1>6, <1>10
  <2>2. Half(c, j) = 0 /\ ~Speaks(c, j) /\ ~Beeps(c, j)
    BY <2>1 DEF Half, Speaks, Beeps
  <2>3. NextMeant(n, j) = Meant(n, j)
    BY <1>3, <1>4, <1>8, <1>9, <1>10, <2>2
  <2> QED  BY <2>2, <2>3 DEF c
<1>11. CASE j + 1 = Size(n) /\ c \in TextCodes /\ c # BsCode
  <2>1. Half(c, j) = 0 /\ ~Beeps(c, j)
    BY <1>11 DEF Half, Beeps
  <2>2. L = 1 /\ M[1] = Spoken(c)
    BY <1>4, <1>11
  <2>3. Expected[x + 1] = Spoken(c)
    BY <1>3, <2>2
  <2>4. Meant(n, j) = x /\ NextMeant(n, j) = x + 1
    BY <1>3, <1>8, <1>9, <1>11, <2>1, <2>2
  <2>5. Speaks(c, j)
    BY <1>2, <1>11 DEF Speaks
  <2> QED  BY <2>1, <2>3, <2>4, <2>5 DEF c
<1>12. CASE j + 1 = Size(n) /\ c = BsCode
  <2>1. j = 3
    <3>1. Size(n) = 4 /\ j + 1 = Size(n) /\ j \in 0..(Size(n) - 1)
      BY <1>2, <1>4, <1>12
    <3> QED  BY <3>1
  <2>2. Half(c, j) = 1 /\ ~Beeps(c, j) /\ Speaks(c, j)
    <3>1. j + 1 = Len(c)
      BY <1>2, <1>12
    <3>2. j > 2 /\ j # 2
      BY <2>1
    <3> QED  BY <1>6, <1>12, <3>1, <3>2 DEF Half, Beeps, Speaks
  <2>3. L = 2 /\ M[2] = Spoken(c)
    BY <1>4, <1>12
  <2>4. Expected[x + 2] = Spoken(c)
    BY <1>3, <2>3
  <2>5. Meant(n, j) = x + 1 /\ NextMeant(n, j) = x + 2 /\ (x + 1) + 1 = x + 2
    BY <1>3, <1>8, <1>9, <1>12, <2>2, <2>3
  <2> QED  BY <2>2, <2>4, <2>5 DEF c
<1>13. CASE j + 1 # Size(n)
  <2>1. ~Speaks(c, j)
    BY <1>2, <1>13 DEF Speaks
  <2>2. CASE Beeps(c, j)
    <3>1. Half(c, j) = 0 /\ Half(c, j + 1) = 1
      BY <2>2 DEF Half, Beeps
    <3>2. L = 2 /\ M[1] = <<"BS">>
      BY <1>4, <2>2 DEF Beeps
    <3>3. Expected[x + 1] = <<"BS">>
      BY <1>3, <3>2
    <3>4. Meant(n, j) = x /\ NextMeant(n, j) = x + 1
      BY <1>3, <1>8, <1>9, <1>13, <3>1
    <3> QED  BY <2>1, <2>2, <3>3, <3>4 DEF c
  <2>3. CASE ~Beeps(c, j)
    <3>1. ASSUME c = BsCode PROVE j \in {0, 1}
      <4>1. Size(n) = 4 /\ j + 1 # Size(n) /\ j \in 0..(Size(n) - 1) /\ j # 2
        BY <1>2, <1>4, <1>13, <2>3, <3>1 DEF Beeps
      <4> QED  BY <4>1
    <3>2. Half(c, j) = 0 /\ Half(c, j + 1) = 0
      BY <3>1 DEF Half
    <3>3. NextMeant(n, j) = Meant(n, j)
      BY <1>3, <1>8, <1>9, <1>13, <3>2
    <3> QED  BY <2>1, <2>3, <3>3 DEF c
  <2> QED  BY <2>2, <2>3
<1> QED  BY <1>5, <1>10, <1>11, <1>12, <1>13
-----------------------------------------------------------------------------
(* The parts of the invariant after a step.                                *)
NextFlush(n, j, t) ==
    /\ phase' # "draining" /\ active' => t = <<>>
    /\ (~active' /\ pending' # <<>>) \/ phase' = "draining" =>
         t = PartOf(Code(n), j) /\ (t = <<>> => j = 0)
NextGood(n, j, q, d, t, m, i) ==
    /\ Buffer(pending', q, d, t) /\ NextFlush(n, j, t) /\ DrainPart(q, d, t, m, i)'
    /\ ToldUpTo(done', q, m, Meant(n, j), Expected)
NextSync(n, j) == phase' # "draining" /\ (active' \/ ~spoiled') => NextParser(Code(n), j)
NextPlaced(n, j) ==
    /\ At(n, j) /\ Rest(rbuf', unread', Off(n) + j)
    /\ NextSync(n, j)
    /\ BoundPart(j)'
    /\ spoiled' \/ \E q, d, t, m, i : NextGood(n, j, q, d, t, m, i)

LEMMA PlacedNext ==
    ASSUME program' = program, NEW n, NEW j, NextPlaced(n, j)
    PROVE  Placed(n, j)'
<1>0. /\ Flat' = Flat /\ Total' = Total /\ Expected' = Expected
      /\ Code(n)' = Code(n) /\ Size(n)' = Size(n) /\ Off(n)' = Off(n) /\ Mark(n)' = Mark(n)
  BY SameProgram
<1>1. At(n, j)'
  BY <1>0 DEF NextPlaced, At
<1>2. Rest(rbuf, unread, Off(n) + j)'
  <2>1. Rest(rbuf', unread', Off(n) + j)
    BY DEF NextPlaced
  <2> QED  BY <1>0, <2>1, Zenon DEF Rest
<1>3. SyncPart(n, j)'
  BY <1>0, Zenon DEF NextPlaced, NextSync, NextParser, SyncPart, Parser, ParserIs, Becomes
<1>4. KeptPart(n, j)'
  <2>1. ASSUME NEW q, NEW d, NEW t, NEW m, NEW i, NextGood(n, j, q, d, t, m, i) PROVE Good(n, j, q, d, t, m, i)'
    <3>1. BufferPart(q, d, t)'
      BY <2>1, Zenon DEF NextGood, BufferPart, Buffer
    <3>2. FlushPart(n, j, t)'
      BY <1>0, <2>1, Zenon DEF NextGood, NextFlush, FlushPart, Flushed
    <3>3. Told(q, m, n, j)'
      <4>1. Meant(n, j)' = Meant(n, j)
        BY <1>0, Zenon DEF Meant, Half
      <4> QED  BY <1>0, <2>1, <4>1, Zenon DEF NextGood, Told, ToldUpTo
    <3> QED  BY <2>1, <3>1, <3>2, <3>3, Zenon DEF NextGood, Good
  <2>2. CASE spoiled'
    BY <2>2, Zenon DEF KeptPart
  <2>3. CASE \E q, d, t, m, i : NextGood(n, j, q, d, t, m, i)
    BY <2>1, <2>3, Zenon DEF KeptPart
  <2> QED  BY <2>2, <2>3 DEF NextPlaced
<1> QED  BY <1>1, <1>2, <1>3, <1>4, Zenon DEF Placed, ReadPart, NextPlaced

(* A part of a code that is queued when the update is given up.            *)
LEMMA PartFacts ==
    ASSUME program \in Programs, NEW n, NEW j, At(n, j)
    PROVE  /\ PartOf(Code(n), j) \in Tails \cup {<<>>}
           /\ \A s \in Seq(Characters) : Bytes(s \o PartOf(Code(n), j)) <= Bytes(s) + j
           /\ PartOf(Code(n), j) = <<>> =>
                /\ BufAt(Code(n), j) = <<>>
                /\ StateAt(Code(n), j) = Normal /\ ~HalfAt(Code(n), j) => j = 0
           /\ PartOf(Code(n), j) # <<>> => PartGood(Code(n), j, PartOf(Code(n), j))
           /\ j = 0 => StateAt(Code(n), j) = Normal /\ BufAt(Code(n), j) = <<>> /\ ~HalfAt(Code(n), j)
<1> DEFINE c == Code(n)
           t == PartOf(c, j)
<1>1. n \in 0..Len(program) /\ Len(program) \in Nat /\ j \in Nat
  BY ProgramFacts DEF At
<1>2. j = 0 => StateAt(c, j) = Normal /\ BufAt(c, j) = <<>> /\ ~HalfAt(c, j)
  BY DEF StateAt, BufAt, HalfAt
<1>3. n < Len(program) => c \in Codes /\ j \in 0..(Len(c) - 1)
  BY PlaceBounds DEF Size
<1>4. n = Len(program) => j = 0
  BY DEF At
<1>5. \A s \in Seq(Characters) : Bytes(s) \in Nat /\ s \o <<>> = s
  BY BytesType
<1>6. <<>> \notin Tails
  <2>1. \A x \in Tails : Len(x) \in 2..3
    BY FormsAre
  <2>2. Len(<<>>) = 0 /\ 0 \notin 2..3
    OBVIOUS
  <2> QED  BY <2>1, <2>2, Zenon
<1> HIDE DEF c
<1>7. CASE BufAt(c, j) = <<>>
  <2>1. t = <<>>
    BY <1>7 DEF PartOf
  <2>2. StateAt(c, j) = Normal /\ ~HalfAt(c, j) => j = 0
    BY <1>1, <1>3, <1>4, NormalBegins
  <2>3. \A s \in Seq(Characters) : Bytes(s \o t) <= Bytes(s) + j
    BY <1>1, <1>5, <2>1
  <2> QED  BY <1>2, <1>7, <2>1, <2>2, <2>3 DEF c
<1>8. CASE BufAt(c, j) # <<>>
  <2>1. c \in Codes /\ j \in 0..(Len(c) - 1)
    BY <1>1, <1>2, <1>3, <1>4, <1>8
  <2>2. PartGood(c, j, t)
    BY <1>8, <2>1, PartIs
  <2>3. t \in Tails /\ \A s \in Seq(Characters) : Bytes(s \o t) <= Bytes(s) + j
    BY <2>2, Zenon DEF PartGood
  <2>4. t # <<>>
    BY <1>6, <2>3, Zenon
  <2> QED  BY <1>2, <2>2, <2>3, <2>4, Zenon DEF c
<1> QED  BY <1>7, <1>8
-----------------------------------------------------------------------------
(* Every step keeps the invariant.                                         *)
LEMMA GotoFacts ==
    ASSUME NEW p, Goto(p), active' \in BOOLEAN, timer \in BOOLEAN
    PROVE  /\ phase' \in {p, "idle"} /\ timer' \in BOOLEAN
           /\ phase' = "idle" => active' \/ pending' = <<>> \/ p = "idle"
           /\ phase' # "idle" => rbuf' # <<>> \/ (~active' /\ pending' # <<>>) \/ p = "idle"
<1>1. CASE rbuf' # <<>> \/ (~active' /\ pending' # <<>>)
  <2>1. phase' = p /\ timer' = timer
    BY <1>1, Zenon DEF Goto
  <2> QED  BY <1>1, <2>1
<1>2. CASE ~(rbuf' # <<>> \/ (~active' /\ pending' # <<>>))
  <2>1. phase' = "idle" /\ timer' = active'
    BY <1>2, Zenon DEF Goto, SetTimer
  <2> QED  BY <1>2, <2>1
<1> QED  BY <1>1, <1>2

(* The steps around the parser do not change what it has read, and what    *)
(* was executed.                                                           *)
LEMMA StillPlaced ==
    ASSUME NEW n, NEW j, Placed(n, j), BoundPart(j)', phase # "draining", phase' # "draining",
           UNCHANGED <<program, unread, rbuf, parser, active, pending, drain, done, spoiled>>
    PROVE  Placed(n, j)'
<1>0. /\ program' = program /\ unread' = unread /\ rbuf' = rbuf /\ state' = state /\ pbuf' = pbuf /\ u1' = u1
      /\ active' = active /\ pending' = pending /\ drain' = drain /\ done' = done /\ spoiled' = spoiled
  BY DEF parser
<1>1. At(n, j) /\ Rest(rbuf', unread', Off(n) + j)
  BY <1>0 DEF Placed, ReadPart
<1>2. NextSync(n, j)
  BY <1>0 DEF Placed, SyncPart, NextSync, Parser, NextParser, ParserIs, Becomes
<1>3. ASSUME NEW q, NEW d, NEW t, NEW m, NEW i, Good(n, j, q, d, t, m, i) PROVE NextGood(n, j, q, d, t, m, i)
  <2>1. Buffer(pending', q, d, t)
    BY <1>0, <1>3 DEF Good, BufferPart
  <2>2. NextFlush(n, j, t)
    BY <1>0, <1>3 DEF Good, FlushPart, Flushed, NextFlush
  <2>3. DrainPart(q, d, t, m, i)'
    BY <1>3, Zenon DEF Good, DrainPart
  <2>4. ToldUpTo(done', q, m, Meant(n, j), Expected)
    BY <1>0, <1>3 DEF Good, Told
  <2> QED  BY <2>1, <2>2, <2>3, <2>4 DEF NextGood
<1>4. spoiled' \/ \E q, d, t, m, i : NextGood(n, j, q, d, t, m, i)
  BY <1>0, <1>3 DEF Placed, KeptPart
<1> QED  BY <1>0, <1>1, <1>2, <1>4, PlacedNext, Zenon DEF NextPlaced

LEMMA BoundStays ==
    ASSUME NEW j, BoundPart(j), pending' = pending, active' = active, phase # "draining",
           phase # "queueing", phase' \notin {"draining", "queueing"}
    PROVE  BoundPart(j)'
<1>1. ToCome' = 0 /\ ToCome = 0
  BY DEF ToCome
<1> QED  BY <1>1 DEF BoundPart, Room, Bytes, Wide

LEMMA TimePassesKeeps ==
    ASSUME IInv, TimePasses
    PROVE  IInv'
<1>1. Typed'
  BY DEF IInv, Typed, TimePasses, parser
<1>2. PhasePart'
  BY DEF IInv, PhasePart, TimePasses
<1>3. ASSUME NEW n, NEW j, Placed(n, j) PROVE Placed(n, j)'
  <2>1. /\ phase = "idle" /\ phase' = phase /\ pending' = pending /\ active' = active
        /\ UNCHANGED <<program, unread, rbuf, parser, active, pending, drain, done, spoiled>>
    BY DEF TimePasses
  <2>2. BoundPart(j)'
    BY <1>3, <2>1, BoundStays DEF Placed
  <2> QED  BY <1>3, <2>1, <2>2, StillPlaced
<1> QED  BY <1>1, <1>2, <1>3, Zenon DEF IInv

LEMMA DoParseKeeps ==
    ASSUME IInv, DoParse
    PROVE  IInv'
<1>1. Typed'
  BY DEF IInv, Typed, DoParse, parser, States, Phases
<1>2. PhasePart'
  BY DEF IInv, PhasePart, DoParse
<1>3. ASSUME NEW n, NEW j, Placed(n, j) PROVE Placed(n, j)'
  <2>1. /\ phase = "idle" /\ phase' \in {"start", "idle"} /\ pending' = pending /\ active' = active
        /\ UNCHANGED <<program, unread, rbuf, parser, active, pending, drain, done, spoiled>>
    BY DEF DoParse
  <2>2. BoundPart(j)'
    BY <1>3, <2>1, BoundStays DEF Placed
  <2> QED  BY <1>3, <2>1, <2>2, StillPlaced
<1> QED  BY <1>1, <1>2, <1>3, Zenon DEF IInv

LEMMA ReadKeeps ==
    ASSUME IInv, NEW k \in 1..ReadBuf, Read(k)
    PROVE  IInv'
<1>0. Typed /\ PhasePart /\ phase = "idle"
  BY DEF IInv, Read
<1>a. /\ program' = program /\ state' = state /\ pbuf' = pbuf /\ u1' = u1 /\ phase' = phase
      /\ active' = active /\ pending' = pending /\ drain' = drain /\ done' = done /\ spoiled' = spoiled
  BY DEF Read, parser
<1>b. /\ rbuf \in Seq(Characters) /\ unread \in Seq(Characters) /\ program \in Programs /\ k \in 1..Len(unread)
      /\ Len(rbuf) + k <= ReadBuf
      /\ rbuf' = rbuf \o SubSeq(unread, 1, k) /\ unread' = SubSeq(unread, k + 1, Len(unread))
  BY <1>0, ReadBufAssumption DEF Typed, Read
<1>1. ASSUME NEW n, NEW j, Placed(n, j)
      PROVE  /\ rbuf' \in Seq(Characters) /\ unread' \in Seq(Characters) /\ Len(rbuf') <= ReadBuf
             /\ Placed(n, j)'
  <2>1. At(n, j) /\ Rest(rbuf, unread, Off(n) + j)
    BY <1>1 DEF Placed, ReadPart
  <2>2. Off(n) + j \in Nat
    <3>1. Off(n) \in Nat /\ j \in Nat
      BY <1>b, <2>1, PlaceBounds DEF At
    <3> QED  BY <3>1
  <2>3. /\ rbuf' \in Seq(Characters) /\ unread' \in Seq(Characters) /\ Len(rbuf') = Len(rbuf) + k
        /\ Rest(rbuf', unread', Off(n) + j)
    BY <1>b, <2>1, <2>2, RestMoves
  <2>4. NextSync(n, j)
    BY <1>1, <1>a, Zenon DEF Placed, SyncPart, NextSync, Parser, NextParser, ParserIs, Becomes
  <2>5. BoundPart(j)'
    BY <1>0, <1>1, <1>a, BoundStays DEF Placed
  <2>6. ASSUME NEW q, NEW d, NEW t, NEW m, NEW i, Good(n, j, q, d, t, m, i) PROVE NextGood(n, j, q, d, t, m, i)
    <3>1. Buffer(pending', q, d, t)
      BY <1>a, <2>6 DEF Good, BufferPart
    <3>2. NextFlush(n, j, t)
      BY <1>a, <2>6, Zenon DEF Good, FlushPart, Flushed, NextFlush
    <3>3. DrainPart(q, d, t, m, i)'
      <4>1. m \in 0..Len(q) /\ i \in Nat /\ m = 0 /\ i = 0
        BY <1>0, <2>6 DEF Good, DrainPart
      <4> QED  BY <1>0, <1>a, <4>1 DEF DrainPart
    <3>4. ToldUpTo(done', q, m, Meant(n, j), Expected)
      BY <1>a, <2>6 DEF Good, Told
    <3> QED  BY <3>1, <3>2, <3>3, <3>4 DEF NextGood
  <2>7. spoiled' \/ \E q, d, t, m, i : NextGood(n, j, q, d, t, m, i)
    BY <1>1, <1>a, <2>6, Zenon DEF Placed, KeptPart
  <2>8. NextPlaced(n, j)
    BY <2>1, <2>3, <2>4, <2>5, <2>7, Zenon DEF NextPlaced
  <2> QED  BY <1>a, <1>b, <2>3, <2>8, PlacedNext
<1>2. \E n, j : Placed(n, j)
  BY DEF IInv
<1>3. Typed'
  <2>1. rbuf' \in Seq(Characters) /\ unread' \in Seq(Characters) /\ Len(rbuf') <= ReadBuf
    BY <1>1, <1>2
  <2> QED  BY <1>0, <2>1 DEF Typed, Read, parser
<1>4. PhasePart'
  BY <1>0, <1>a DEF PhasePart
<1> QED  BY <1>1, <1>2, <1>3, <1>4, Zenon DEF IInv

(* An update is given up.                                                  *)
LEMMA GiveUpKeeps ==
    ASSUME Typed, NEW n, NEW j, Placed(n, j), active, phase \in {"start", "queue"}, GiveUp,
           phase' \in {"start", "idle"},
           UNCHANGED <<program, unread, rbuf, parser, drain, done>>
    PROVE  pending' \in Seq(Characters) /\ spoiled' \in BOOLEAN /\ Placed(n, j)'
<1> DEFINE c == Code(n)
           t == PartOf(c, j)
<1>0. /\ program' = program /\ unread' = unread /\ rbuf' = rbuf /\ state' = state /\ pbuf' = pbuf /\ u1' = u1
      /\ drain' = drain /\ done' = done /\ active' = FALSE /\ program \in Programs
      /\ pending \in Seq(Characters)
      /\ phase # "draining" /\ phase' # "draining" /\ phase # "queueing"
  BY DEF parser, GiveUp, Typed
<1>1. At(n, j) /\ Rest(rbuf', unread', Off(n) + j)
  BY <1>0 DEF Placed, ReadPart
<1>2. Parser(c, j)
  BY <1>0 DEF Placed, SyncPart
<1>3. Partial = t
  BY <1>2, Zenon DEF Partial, PartOf, Parser, ParserIs
<1>4. /\ t \in Tails \cup {<<>>} /\ \A s \in Seq(Characters) : Bytes(s \o t) <= Bytes(s) + j
      /\ t = <<>> => BufAt(c, j) = <<>> /\ (StateAt(c, j) = Normal /\ ~HalfAt(c, j) => j = 0)
  BY <1>0, <1>1, PartFacts
<1>5. NextSync(n, j)
  BY <1>0, <1>2, Zenon DEF NextSync, Parser, NextParser, ParserIs, Becomes
<1> HIDE DEF c, t
<1>6. pending' = pending \o t /\ pending' \in Seq(Characters)
  <2>1. t \in Seq(Characters)
    <3>1. <<>> \in Seq(Characters)
      OBVIOUS
    <3> QED  BY <1>4, <3>1, FormsAre
  <2>2. pending' = pending \o t
    BY <1>3 DEF GiveUp
  <2> QED  BY <1>0, <2>1, <2>2, ConcatParts
<1>7. BoundPart(j)'
  <2>1. Bytes(pending) + j <= Room /\ Bytes(pending) \in Nat /\ j \in Nat /\ Room \in Nat
    <3>1. Bytes(pending) + j + 0 <= Room
      BY <1>0 DEF Placed, BoundPart, ToCome
    <3>2. Bytes(pending) \in Nat /\ j \in Nat /\ Room \in Nat
      BY <1>0, <1>1, BytesType, ReadBufAssumption DEF At, Room
    <3> QED  BY <3>1, <3>2
  <2>2. Bytes(pending') <= Bytes(pending) + j /\ Bytes(pending') \in Nat
    BY <1>0, <1>4, <1>6, BytesType
  <2>3. Bytes(pending') <= Room
    BY <2>1, <2>2
  <2>4. Bytes(pending)' = Bytes(pending') /\ Room' = Room
    BY DEF Bytes, Wide, Room
  <2> QED  BY <1>0, <2>3, <2>4, Zenon DEF BoundPart
<1>8. ASSUME ~spoiled', NEW q, NEW d, NEW t0, NEW m, NEW i, Good(n, j, q, d, t0, m, i)
      PROVE  NextGood(n, j, q, d, t, m, i)
  <2>1. t0 = <<>> /\ m \in 0..Len(q) /\ i \in Nat /\ m = 0 /\ i = 0
    BY <1>0, <1>8 DEF Good, FlushPart, DrainPart
  <2>2. Buffer(pending', q, d, t)
    <3>1. Buffer(pending, q, d, <<>>)
      BY <1>8, <2>1 DEF Good, BufferPart
    <3> QED  BY <1>0, <1>4, <1>6, <3>1, BufferEnds
  <2>3. NextFlush(n, j, t)
    <3>1. ASSUME pending' # <<>>, t = <<>> PROVE j = 0
      <4>1. ~Misses
        BY <1>8 DEF GiveUp
      <4>2. ~((pbuf = <<>> /\ state # Normal) \/ u1)
        BY <3>1, <4>1 DEF Misses
      <4>3. BufAt(c, j) = <<>>
        BY <1>4, <3>1
      <4>4. state = Normal /\ ~u1
        BY <1>2, <4>2, <4>3 DEF Parser, ParserIs
      <4> QED  BY <1>2, <1>4, <3>1, <4>4 DEF Parser, ParserIs
    <3> QED  BY <1>0, <3>1 DEF NextFlush, c, t
  <2>4. DrainPart(q, d, t, m, i)'
    BY <1>0, <2>1 DEF DrainPart
  <2>5. ToldUpTo(done', q, m, Meant(n, j), Expected)
    BY <1>0, <1>8 DEF Good, Told
  <2> QED  BY <2>2, <2>3, <2>4, <2>5 DEF NextGood
<1>9. spoiled \in BOOLEAN /\ (spoiled => spoiled') /\ spoiled' \in BOOLEAN
  BY DEF GiveUp, Typed
<1>10. spoiled' \/ \E q, d, t1, m, i : NextGood(n, j, q, d, t1, m, i)
  BY <1>8, <1>9, Zenon DEF Placed, KeptPart
<1>11. NextPlaced(n, j)
  BY <1>1, <1>5, <1>7, <1>10, Zenon DEF NextPlaced
<1> QED  BY <1>0, <1>6, <1>9, <1>11, PlacedNext

LEMMA StartKeeps ==
    ASSUME IInv, Start
    PROVE  IInv'
<1>0. Typed /\ PhasePart /\ phase = "start"
  BY DEF IInv, Start
<1>a. /\ program' = program /\ unread' = unread /\ state' = state /\ pbuf' = pbuf /\ u1' = u1 /\ late' = late
      /\ saved' = saved /\ drain' = drain /\ due' = due /\ done' = done /\ rbuf' = rbuf
      /\ UNCHANGED <<program, unread, rbuf, parser, drain, done>>
  BY DEF Start, parser
<1>b. active \in BOOLEAN /\ timer \in BOOLEAN /\ pending \in Seq(Characters) /\ spoiled \in BOOLEAN
  BY <1>0 DEF Typed
<1>1. CASE active /\ late
  <2>1. GiveUp /\ Goto("start")
    BY <1>1 DEF Start
  <2>2. active' = FALSE
    BY <2>1 DEF GiveUp
  <2>3. phase' \in {"start", "idle"} /\ timer' \in BOOLEAN /\ (phase' = "idle" => pending' = <<>>)
    <3>1. active' \in BOOLEAN /\ "start" # "idle"
      BY <2>2
    <3>2. /\ phase' \in {"start", "idle"} /\ timer' \in BOOLEAN
          /\ phase' = "idle" => active' \/ pending' = <<>> \/ "start" = "idle"
      BY <1>b, <2>1, <3>1, GotoFacts, Zenon
    <3> QED  BY <2>2, <3>1, <3>2
  <2>4. ASSUME NEW n, NEW j, Placed(n, j)
        PROVE  pending' \in Seq(Characters) /\ spoiled' \in BOOLEAN /\ Placed(n, j)'
    BY <1>0, <1>1, <1>a, <2>1, <2>3, <2>4, GiveUpKeeps
  <2>5. PhasePart'
    BY <2>3 DEF PhasePart
  <2>6. pending' \in Seq(Characters) /\ spoiled' \in BOOLEAN /\ \E n, j : Placed(n, j)'
    BY <2>4 DEF IInv
  <2>7. Typed'
    BY <1>0, <1>a, <2>2, <2>3, <2>6 DEF Typed, Phases
  <2> QED  BY <2>5, <2>6, <2>7, Zenon DEF IInv
<1>2. CASE ~(active /\ late)
  <2> DEFINE p == IF active THEN "queue" ELSE IF pending # <<>> THEN "pending" ELSE "read"
  <2>1. active' = active /\ pending' = pending /\ spoiled' = spoiled /\ Goto(p)
    BY <1>2 DEF Start
  <2>2. p # "idle" /\ p \in {"queue", "pending", "read"}
    OBVIOUS
  <2>3. (p = "queue" => active) /\ (p = "pending" => ~active /\ pending # <<>>) /\ (p = "read" => ~active /\ pending = <<>>)
    OBVIOUS
  <2> HIDE DEF p
  <2>4. /\ phase' \in {p, "idle"} /\ timer' \in BOOLEAN /\ (phase' = "idle" => active' \/ pending' = <<>>)
        /\ phase' # "idle" => rbuf' # <<>> \/ (~active' /\ pending' # <<>>)
    BY <1>b, <2>1, <2>2, GotoFacts
  <2>5. PhasePart'
    BY <2>1, <2>2, <2>3, <2>4 DEF PhasePart
  <2>6. Typed'
    BY <1>0, <1>a, <2>1, <2>2, <2>4 DEF Typed, Phases
  <2>7. ASSUME NEW n, NEW j, Placed(n, j) PROVE Placed(n, j)'
    <3>1. phase' \notin {"draining", "queueing"}
      BY <2>2, <2>4
    <3>2. BoundPart(j)'
      BY <1>0, <2>1, <2>7, <3>1, BoundStays DEF Placed
    <3>3. UNCHANGED <<program, unread, rbuf, parser, active, pending, drain, done, spoiled>>
      BY <1>a, <2>1
    <3> QED  BY <1>0, <2>7, <3>1, <3>2, <3>3, StillPlaced
  <2> QED  BY <2>5, <2>6, <2>7, Zenon DEF IInv
<1> QED  BY <1>1, <1>2

LEMMA QueueKeeps ==
    ASSUME IInv, Queue
    PROVE  IInv'
<1>0. Typed /\ PhasePart /\ phase = "queue" /\ active /\ rbuf # <<>>
  BY DEF IInv, Queue, PhasePart
<1>a. /\ program' = program /\ unread' = unread /\ state' = state /\ pbuf' = pbuf /\ u1' = u1 /\ late' = late
      /\ drain' = drain /\ due' = due /\ done' = done /\ rbuf' = rbuf
      /\ UNCHANGED <<program, unread, rbuf, parser, drain, done>>
  BY DEF Queue, parser
<1>b. active \in BOOLEAN /\ timer \in BOOLEAN /\ pending \in Seq(Characters) /\ spoiled \in BOOLEAN
      /\ saved \in States /\ state \in States /\ program \in Programs
      /\ rbuf \in Seq(Characters) /\ Len(rbuf) <= ReadBuf
  BY <1>0 DEF Typed
<1>1. CASE TooBig
  <2>1. GiveUp /\ Goto("start") /\ saved' = saved
    BY <1>1 DEF Queue
  <2>2. active' = FALSE
    BY <2>1 DEF GiveUp
  <2>3. phase' \in {"start", "idle"} /\ timer' \in BOOLEAN /\ (phase' = "idle" => pending' = <<>>)
    <3>1. active' \in BOOLEAN /\ "start" # "idle"
      BY <2>2
    <3>2. /\ phase' \in {"start", "idle"} /\ timer' \in BOOLEAN
          /\ phase' = "idle" => active' \/ pending' = <<>> \/ "start" = "idle"
      BY <1>b, <2>1, <3>1, GotoFacts, Zenon
    <3> QED  BY <2>2, <3>1, <3>2
  <2>4. ASSUME NEW n, NEW j, Placed(n, j)
        PROVE  pending' \in Seq(Characters) /\ spoiled' \in BOOLEAN /\ Placed(n, j)'
    BY <1>0, <1>a, <2>1, <2>3, <2>4, GiveUpKeeps
  <2>5. PhasePart'
    BY <2>3 DEF PhasePart
  <2>6. pending' \in Seq(Characters) /\ spoiled' \in BOOLEAN /\ \E n, j : Placed(n, j)'
    BY <2>4 DEF IInv
  <2>7. Typed'
    BY <1>0, <1>a, <2>1, <2>2, <2>3, <2>6 DEF Typed, Phases
  <2> QED  BY <2>5, <2>6, <2>7, Zenon DEF IInv
<1>2. CASE ~TooBig
  <2>1. active' = active /\ pending' = pending /\ spoiled' = spoiled /\ timer' = timer /\ phase' = "queueing"
        /\ saved' = IF pending = <<>> THEN state ELSE saved
    BY <1>2 DEF Queue
  <2>2. PhasePart'
    BY <1>0, <1>a, <2>1 DEF PhasePart
  <2>3. Typed'
    BY <1>0, <1>a, <1>b, <2>1 DEF Typed, Phases
  <2>4. ASSUME NEW n, NEW j, Placed(n, j) PROVE Placed(n, j)'
    <3>1. BoundPart(j)'
      <4> DEFINE l == Len(rbuf)
      <4>1. l \in Nat /\ l <= ReadBuf /\ ReadBuf \in Nat
        BY <1>b, ReadBufAssumption
      <4> HIDE DEF l
      <4>2. j \in 0..4
        BY <1>b, <2>4, PlaceBounds DEF Placed, ReadPart
      <4>3. Bytes(pending) \in Nat /\ ~(Bytes(pending) >= ReadBuf)
        BY <1>2, <1>b, BytesType DEF TooBig
      <4>4. Bytes(pending) <= Room /\ Bytes(pending) + j + l <= Room
        BY <4>1, <4>2, <4>3 DEF Room
      <4>5. ToCome' = l /\ Bytes(pending)' = Bytes(pending) /\ Room' = Room
        BY <1>a, <2>1 DEF ToCome, l, Bytes, Wide, Room
      <4> QED  BY <4>4, <4>5, Zenon DEF BoundPart
    <3>2. UNCHANGED <<program, unread, rbuf, parser, active, pending, drain, done, spoiled>>
      BY <1>a, <2>1
    <3> QED  BY <1>0, <2>1, <2>4, <3>1, <3>2, StillPlaced
  <2> QED  BY <2>2, <2>3, <2>4, Zenon DEF IInv
<1> QED  BY <1>1, <1>2

(* The buffer begins to be parsed.                                         *)
LEMMA ParsePendingKeeps ==
    ASSUME IInv, ParsePending
    PROVE  IInv'
<1>0. Typed /\ PhasePart /\ phase = "pending" /\ ~active /\ pending # <<>>
  BY DEF IInv, ParsePending, PhasePart
<1>a. /\ program' = program /\ unread' = unread /\ rbuf' = rbuf /\ state' = saved
      /\ pbuf' = pbuf /\ u1' = u1 /\ late' = late
      /\ active' = active /\ pending' = pending /\ drain' = pending /\ due' = due
      /\ timer' = timer /\ done' = done
      /\ saved' = Normal /\ spoiled' = (spoiled \/ saved # Normal) /\ phase' = "draining"
  BY DEF ParsePending
<1>1. Typed'
  BY <1>0, <1>a DEF Typed, States, Phases
<1>2. PhasePart'
  BY <1>a DEF PhasePart
<1>3. ASSUME NEW n, NEW j, Placed(n, j) PROVE Placed(n, j)'
  <2>1. At(n, j) /\ Rest(rbuf', unread', Off(n) + j)
    BY <1>3, <1>a DEF Placed, ReadPart
  <2>2. BoundPart(j)'
    <3>1. Bytes(pending)' = Bytes(pending) /\ Room' = Room
      BY <1>a DEF Bytes, Wide, Room
    <3> QED  BY <1>3, <1>a, <3>1, Zenon DEF Placed, BoundPart
  <2>3. ASSUME ~spoiled', NEW q, NEW d, NEW t, NEW m, NEW i, Good(n, j, q, d, t, m, i)
        PROVE  NextGood(n, j, q, d, t, m, i)
    <3>0. saved = Normal /\ ~spoiled
      BY <1>0, <1>a, <2>3 DEF Typed
    <3>1. /\ ParserIs(StateAt(Code(n), j), BufAt(Code(n), j), HalfAt(Code(n), j))
          /\ t = PartOf(Code(n), j) /\ (t = <<>> => j = 0) /\ m \in 0..Len(q) /\ m = 0 /\ i = 0
      BY <1>0, <1>3, <2>3, <3>0 DEF Placed, SyncPart, Parser, Good, FlushPart, Flushed, DrainPart
    <3>2. ~u1 /\ (t = <<>> => pbuf = <<>>)
      <4>1. program \in Programs
        BY <1>0 DEF Typed
      <4>2. t # <<>> => PartGood(Code(n), j, t)
        BY <2>1, <3>1, <4>1, PartFacts
      <4>3. t # <<>> => ~HalfAt(Code(n), j)
        BY <4>2 DEF PartGood
      <4>4. t = <<>> => ~HalfAt(Code(n), j) /\ BufAt(Code(n), j) = <<>>
        BY <2>1, <3>1, <4>1, PartFacts
      <4> QED  BY <3>1, <4>3, <4>4 DEF ParserIs
    <3>3. Buffer(pending', q, d, t) /\ NextFlush(n, j, t) /\ ToldUpTo(done', q, m, Meant(n, j), Expected)
      BY <1>a, <2>3, <3>1 DEF Good, BufferPart, Told, NextFlush
    <3>4. DrainPart(q, d, t, m, i)'
      <4>1. Buffer(pending, q, d, t) /\ pending \in Seq(Characters)
        BY <1>0, <2>3 DEF Good, BufferPart, Typed
      <4>2. Len(q) \in Nat /\ Len(t) \in Nat
        BY <4>1, BufferFacts
      <4>3. d[m] = 0
        BY <3>1, <4>1 DEF Buffer, Cut
      <4>4. Len(pending) \in Nat
        BY <4>1
      <4>5. d[m] + i + Len(drain') = Len(pending') /\ \A k \in 1..Len(drain') : drain'[k] = pending'[d[m] + i + k]
        BY <1>a, <3>1, <4>3, <4>4
      <4>6. m < Len(q) => i < Len(q[m + 1])
        <5> SUFFICES ASSUME m < Len(q) PROVE i < Len(q[m + 1])
          OBVIOUS
        <5>1. q[m + 1] \in Forms
          BY <3>1, <4>1, BufferCode
        <5>2. Len(q[m + 1]) \in 1..3
          BY <5>1, FormsAre
        <5> QED  BY <3>1, <5>2
      <4>7. FormParser(q[m + 1], i)' /\ TailParser(t, i)'
        BY <1>a, <3>0, <3>1, <3>2 DEF FormParser, TailParser
      <4>8. i <= Len(t) /\ i \in Nat
        BY <3>1, <4>2
      <4>9. t = <<>> /\ state' = Normal => pbuf' = <<>>
        BY <1>a, <3>2
      <4> QED  BY <1>a, <3>1, <4>5, <4>6, <4>7, <4>8, <4>9, Zenon DEF DrainPart
    <3> QED  BY <3>3, <3>4 DEF NextGood
  <2>4. spoiled' \/ \E q, d, t, m, i : NextGood(n, j, q, d, t, m, i)
    <3>1. spoiled \in BOOLEAN /\ (spoiled => spoiled')
      BY <1>0, <1>a DEF Typed
    <3> QED  BY <1>3, <2>3, <3>1, Zenon DEF Placed, KeptPart
  <2>5. NextSync(n, j)
    BY <1>a DEF NextSync
  <2>6. NextPlaced(n, j)
    BY <2>1, <2>2, <2>4, <2>5, Zenon DEF NextPlaced
  <2> QED  BY <1>a, <2>6, PlacedNext
<1> QED  BY <1>1, <1>2, <1>3, Zenon DEF IInv

(* The buffer has been parsed: the parser is where it was in the code.     *)
LEMMA RanThrough ==
    ASSUME NEW b \in Seq(Characters), NEW q, NEW d, NEW t, Buffer(b, q, d, t), NEW m \in 0..Len(q),
           NEW i \in Nat,
           d[m] + i + 0 = Len(b), m < Len(q) => i < Len(q[m + 1])
    PROVE  m = Len(q) /\ i = Len(t)
<1>1. Len(q) \in Nat /\ Len(t) \in Nat /\ Len(b) \in Nat /\ d[Len(q)] \in Nat
  BY BufferFacts
<1>2. Len(b) = d[Len(q)] + Len(t)
  BY DEF Buffer
<1>3. ASSUME m < Len(q) PROVE FALSE
  <2> DEFINE v == d[m]
             w == Len(q[m + 1])
             B == Len(b)
  <2>1. q[m + 1] \in Forms /\ d[m + 1] = v + w /\ v \in Nat /\ d[m + 1] <= B
    BY <1>3, BufferCode
  <2>2. w \in 1..3 /\ B \in Nat /\ i < w /\ v + i + 0 = B
    BY <1>1, <1>3, <2>1, FormsAre
  <2> HIDE DEF v, w, B
  <2> QED  BY <2>1, <2>2
<1>4. m = Len(q)
  BY <1>1, <1>3
<1>5. i = Len(t)
  <2> DEFINE v == d[m]
             w == Len(t)
             B == Len(b)
  <2>1. v \in Nat /\ w \in Nat /\ B \in Nat /\ B = v + w /\ v + i + 0 = B
    BY <1>1, <1>2, <1>4
  <2> HIDE DEF v, w, B
  <2>2. i = w
    BY <2>1
  <2> QED  BY <2>2 DEF w
<1> QED  BY <1>4, <1>5

LEMMA ParsedPendingKeeps ==
    ASSUME IInv, ParsedPending
    PROVE  IInv'
<1>0. Typed /\ PhasePart /\ phase = "draining" /\ drain = <<>>
  BY DEF IInv, ParsedPending
<1>a. /\ program' = program /\ unread' = unread /\ rbuf' = rbuf /\ state' = state
      /\ pbuf' = pbuf /\ u1' = u1 /\ late' = late
      /\ saved' = saved /\ drain' = drain /\ due' = due /\ done' = done /\ spoiled' = spoiled
      /\ pending' = <<>> /\ active' = FALSE /\ Goto("start")
  BY DEF ParsedPending, parser
<1>b. /\ phase' \in {"start", "idle"} /\ timer' \in BOOLEAN
  <2>1. active' \in BOOLEAN /\ timer \in BOOLEAN
    BY <1>0, <1>a DEF Typed
  <2> QED  BY <1>a, <2>1, GotoFacts, Zenon
<1>1. Typed'
  <2>1. <<>> \in Seq(Characters)
    OBVIOUS
  <2> QED  BY <1>0, <1>a, <1>b, <2>1 DEF Typed, Phases
<1>2. PhasePart'
  BY <1>a, <1>b DEF PhasePart
<1>3. ASSUME NEW n, NEW j, Placed(n, j) PROVE Placed(n, j)'
  <2>1. At(n, j) /\ Rest(rbuf', unread', Off(n) + j)
    BY <1>3, <1>a DEF Placed, ReadPart
  <2>2. BoundPart(j)'
    <3>1. Bytes(pending)' = Bytes(<<>>)
      BY <1>a DEF Bytes, Wide
    <3>2. Room' \in Nat
      BY ReadBufAssumption DEF Room
    <3>3. Bytes(pending)' <= Room'
      BY <3>1, <3>2, BytesOfNone
    <3> QED  BY <1>a, <3>3, Zenon DEF BoundPart
  <2>3. ASSUME ~spoiled, NEW q, NEW d, NEW t, NEW m, NEW i, Good(n, j, q, d, t, m, i)
        PROVE  NextParser(Code(n), j) /\ ToldUpTo(done', <<>>, 0, Meant(n, j), Expected)
    <3>1. /\ Buffer(pending, q, d, t) /\ pending \in Seq(Characters)
          /\ t = PartOf(Code(n), j) /\ (t = <<>> => j = 0) /\ m \in 0..Len(q) /\ i \in Nat
      BY <1>0, <2>3 DEF Typed, Good, BufferPart, FlushPart, Flushed, DrainPart
    <3>2. d[m] + i + 0 = Len(pending) /\ (m < Len(q) => i < Len(q[m + 1]))
      <4>1. Len(drain) = 0
        BY <1>0
      <4>2. d[m] + i + Len(drain) = Len(pending) /\ (m < Len(q) => i < Len(q[m + 1]))
        BY <1>0, <2>3, Zenon DEF Good, DrainPart
      <4> QED  BY <4>1, <4>2, Zenon
    <3>3. m = Len(q) /\ i = Len(t)
      BY <3>1, <3>2, RanThrough
    <3>4. TailParser(t, i) /\ (t = <<>> /\ state = Normal => pbuf = <<>>)
      BY <1>0, <2>3, <3>3, Zenon DEF Good, DrainPart
    <3>5. q \in Seq(Forms) /\ program \in Programs /\ done \in Seq(Seq(Characters))
      BY <1>0, <3>1 DEF Buffer, Typed
    <3>6. ToldUpTo(done', <<>>, 0, Meant(n, j), Expected)
      <4>1. ToldUpTo(done, q, Len(q), Meant(n, j), Expected)
        BY <2>3, <3>3 DEF Good, Told
      <4> QED  BY <1>a, <3>5, <4>1, ToldRan
    <3>7. NextParser(Code(n), j)
      <4>1. CASE t = <<>>
        <5>1. i = 0 /\ j = 0
          BY <3>1, <3>3, <4>1
        <5>2. state = Normal /\ ~u1 /\ pbuf = <<>>
          BY <3>4, <4>1, <5>1 DEF TailParser
        <5>3. StateAt(Code(n), j) = Normal /\ BufAt(Code(n), j) = <<>> /\ ~HalfAt(Code(n), j)
          BY <2>1, <3>5, <5>1, PartFacts
        <5> QED  BY <1>a, <5>2, <5>3 DEF NextParser, Becomes
      <4>2. CASE t # <<>>
        <5>1. PartGood(Code(n), j, t)
          BY <2>1, <3>1, <3>5, <4>2, PartFacts
        <5>2. t \in Tails /\ t[1] = StateAt(Code(n), j)
              /\ TailBuf(t, Len(t)) = BufAt(Code(n), j) /\ ~HalfAt(Code(n), j)
          BY <5>1 DEF PartGood
        <5>3. i # 0
          <6>1. Len(t) \in 2..3
            BY <5>2, FormsAre
          <6> QED  BY <3>3, <6>1
        <5>4. ParserIs(t[1], TailBuf(t, Len(t)), FALSE)
          BY <3>3, <3>4, <5>3, Zenon DEF TailParser
        <5> QED  BY <1>a, <5>2, <5>4 DEF NextParser, Becomes, ParserIs
      <4> QED  BY <4>1, <4>2
    <3> QED  BY <3>6, <3>7
  <2>4. spoiled \/ \E q, d, t, m, i : Good(n, j, q, d, t, m, i)
    BY <1>3 DEF Placed, KeptPart
  <2>5. NextSync(n, j)
    BY <1>a, <2>3, <2>4 DEF NextSync
  <2>6. ~spoiled => \E d : NextGood(n, j, <<>>, d, <<>>, 0, 0)
    <3> SUFFICES ASSUME ~spoiled PROVE \E d : NextGood(n, j, <<>>, d, <<>>, 0, 0)
      OBVIOUS
    <3>1. ToldUpTo(done', <<>>, 0, Meant(n, j), Expected)
      BY <2>3, <2>4
    <3>2. PICK d : Buffer(<<>>, <<>>, d, <<>>)
      BY NoBuffer
    <3>3. NextFlush(n, j, <<>>)
      BY <1>a, <1>b DEF NextFlush
    <3>4. DrainPart(<<>>, d, <<>>, 0, 0)'
      <4>1. Len(<<>>) = 0 /\ 0 \in 0..0 /\ 0 \in Nat
        OBVIOUS
      <4>2. phase' # "draining"
        BY <1>b
      <4> QED  BY <4>1, <4>2, Zenon DEF DrainPart
    <3> QED  BY <1>a, <3>1, <3>2, <3>3, <3>4, Zenon DEF NextGood
  <2>7. spoiled' \/ \E q, d, t, m, i : NextGood(n, j, q, d, t, m, i)
    BY <1>a, <2>6, Zenon
  <2>8. NextPlaced(n, j)
    BY <2>1, <2>2, <2>5, <2>7, Zenon DEF NextPlaced
  <2> QED  BY <1>a, <2>8, PlacedNext
<1> QED  BY <1>1, <1>2, <1>3, Zenon DEF IInv

(* A character of the read buffer.                                         *)
LEMMA TakesNext ==
    ASSUME Typed, NEW n, NEW j, ReadPart(n, j), rbuf # <<>>, phase # "draining"
    PROVE  /\ More(n, j) /\ n < Len(program) /\ Code(n) \in Codes /\ j \in 0..(Len(Code(n)) - 1)
           /\ Head(Source) = Code(n)[j + 1] /\ Source # <<>>
           /\ Consume => /\ At(NextN(n, j), NextJ(n, j))
                         /\ Rest(rbuf', unread, Off(NextN(n, j)) + NextJ(n, j))
                         /\ rbuf' = Tail(rbuf) /\ drain' = drain
                         /\ Len(rbuf') = Len(rbuf) - 1
<1>1. /\ program \in Programs /\ rbuf \in Seq(Characters) /\ unread \in Seq(Characters)
      /\ At(n, j) /\ Rest(rbuf, unread, Off(n) + j)
  BY DEF Typed, ReadPart
<1>2. Off(n) + j \in Nat
  <2>1. Off(n) \in Nat /\ j \in Nat
    BY <1>1, PlaceBounds DEF At
  <2> QED  BY <2>1
<1>3. Off(n) + j < Total /\ Head(rbuf) = Flat[Off(n) + j + 1] /\ Rest(Tail(rbuf), unread, Off(n) + j + 1)
  BY <1>1, <1>2, RestTail
<1>4. More(n, j)
  BY <1>3, Zenon DEF More
<1>5. /\ n < Len(program) /\ Flat[Off(n) + j + 1] = Code(n)[j + 1]
      /\ At(NextN(n, j), NextJ(n, j)) /\ Off(NextN(n, j)) + NextJ(n, j) = Off(n) + j + 1
  BY <1>1, <1>4, NextPlace
<1>6. Code(n) \in Codes /\ j \in 0..(Len(Code(n)) - 1)
  BY <1>1, <1>5, PlaceBounds DEF Size
<1>7. Source = rbuf
  BY DEF Source
<1>8. Consume => rbuf' = Tail(rbuf) /\ drain' = drain
  BY DEF Consume
<1>9. Len(Tail(rbuf)) = Len(rbuf) - 1
  BY <1>1
<1> QED  BY <1>3, <1>4, <1>5, <1>6, <1>7, <1>8, <1>9, Zenon

(* What it does, when the parser knows where in the code it is.            *)
Speaking(n, j) ==
    Speaks(Code(n), j) /\ Handle(Spoken(Code(n))) /\ Same /\ NextJ(n, j) = 0
Beeping(n, j) ==
    Beeps(Code(n), j) /\ ControlDone /\ NextJ(n, j) = j + 1
Quiet(n, j) ==
    /\ ~Speaks(Code(n), j) /\ ~Beeps(Code(n), j)
    /\ pending' = pending /\ done' = done /\ spoiled' = spoiled
    /\ NextJ(n, j) = 0 \/ (NextJ(n, j) = j + 1 /\ active' = active)

LEMMA CodeEffects ==
    ASSUME Typed, NEW n, NEW j, ReadPart(n, j), rbuf # <<>>, phase # "draining", Parser(Code(n), j), Decode
    PROVE  /\ Consume /\ NextParser(Code(NextN(n, j)), NextJ(n, j))
           /\ Speaking(n, j) \/ Beeping(n, j) \/ Quiet(n, j)
<1> DEFINE c == Code(n)
<1>1. /\ n < Len(program) /\ c \in Codes /\ j \in 0..(Len(c) - 1)
      /\ Head(Source) = c[j + 1]
  BY TakesNext
<1>2. CodeStep(c, j) /\ Size(n) = Len(c)
  BY <1>1, NextOfCode DEF Size
<1>3. Consume
  BY <1>2 DEF CodeStep
<1>4. \A x : StateAt(x, 0) = Normal /\ BufAt(x, 0) = <<>> /\ ~HalfAt(x, 0)
  BY DEF StateAt, BufAt, HalfAt
<1>5. c \in Begin \cup End \/ c \in TextCodes
  BY <1>1, CodesAre DEF TextCodes
<1>6. BsCode \in TextCodes /\ (c \in TextCodes => c \notin Begin /\ c \notin End) /\ Len(BsCode) = 4
  BY SpokenIs DEF TextCodes, BsCode
<1> HIDE DEF c
<1>7. CASE j + 1 = Len(c)
  <2>1. NextN(n, j) = n + 1 /\ NextJ(n, j) = 0
    BY <1>2, <1>7 DEF NextN, NextJ
  <2>2. Becomes(Normal, <<>>, FALSE) /\ Finished(c)
    BY <1>2, <1>7 DEF CodeStep
  <2>3. NextParser(Code(n + 1), 0)
    BY <1>4, <2>2, Zenon DEF NextParser, Becomes
  <2>4. CASE c \in TextCodes
    <3>1. Speaks(c, j) /\ Handle(Spoken(c)) /\ Same
      BY <1>6, <1>7, <2>2, <2>4, Zenon DEF Speaks, Finished
    <3> QED  BY <1>3, <2>1, <2>3, <3>1, Zenon DEF Speaking, c
  <2>5. CASE c \in Begin \cup End
    <3>1. pending' = pending /\ done' = done /\ spoiled' = spoiled
      BY <2>2, <2>5 DEF Finished, BeginUpdate, EndUpdate
    <3>2. ~Speaks(c, j) /\ ~Beeps(c, j)
      BY <1>6, <2>5 DEF Speaks, Beeps
    <3> QED  BY <1>3, <2>1, <2>3, <3>1, <3>2, Zenon DEF Quiet, c
  <2> QED  BY <1>5, <2>4, <2>5
<1>8. CASE j + 1 # Len(c)
  <2>1. NextN(n, j) = n /\ NextJ(n, j) = j + 1
    BY <1>2, <1>8 DEF NextN, NextJ
  <2>2. NextParser(c, j + 1) /\ (IF Beeps(c, j) THEN ControlDone ELSE Nothing)
    BY <1>2, <1>8, Zenon DEF CodeStep, Beeps
  <2>3. ~Speaks(c, j)
    BY <1>8 DEF Speaks
  <2>4. CASE Beeps(c, j)
    BY <1>3, <2>1, <2>2, <2>4, Zenon DEF Beeping, c
  <2>5. CASE ~Beeps(c, j)
    <3>1. pending' = pending /\ done' = done /\ spoiled' = spoiled /\ active' = active
      BY <2>2, <2>5 DEF Nothing
    <3> QED  BY <1>3, <2>1, <2>2, <2>3, <2>5, <3>1, Zenon DEF Quiet, c
  <2> QED  BY <2>4, <2>5
<1> QED  BY <1>7, <1>8

LEMMA ByteTyped ==
    ASSUME Typed, Source # <<>>, Decode, phase' \in Phases, timer' \in BOOLEAN,
           UNCHANGED <<program, unread, saved, due>>
    PROVE  Typed'
<1>1. /\ program' = program /\ unread' = unread /\ saved' = saved /\ due' = due
  OBVIOUS
<1> QED  BY <1>1, DecodeKeeps DEF Typed, KeptParser

(* A character goes on an update.                                          *)
LEMMA QueueByteKeeps ==
    ASSUME IInv, QueueByte
    PROVE  IInv'
<1>0. Typed /\ PhasePart /\ phase = "queueing" /\ Queueing /\ active /\ rbuf # <<>> /\ Decode /\ Source = rbuf
  BY DEF IInv, QueueByte, PhasePart, Queueing, Source
<1>a. /\ program' = program /\ unread' = unread /\ UNCHANGED <<program, unread, saved, due>>
  BY DEF QueueByte
<1>b. /\ active' \in BOOLEAN /\ timer \in BOOLEAN /\ spoiled' \in BOOLEAN /\ (spoiled => spoiled')
      /\ rbuf' \in Seq(Characters) /\ pending' \in Seq(Characters)
  BY <1>0, DecodeKeeps DEF Typed
<1>c. /\ phase' \in {"start", "idle", "queueing"} /\ timer' \in BOOLEAN
      /\ phase' = "queueing" => active' /\ rbuf' # <<>>
      /\ phase' = "idle" => active' \/ pending' = <<>>
  <2>1. CASE LoopEnds
    <3>1. Goto("start")
      BY <2>1 DEF QueueByte
    <3>2. "start" # "idle"
      OBVIOUS
    <3>3. /\ phase' \in {"start", "idle"} /\ timer' \in BOOLEAN
          /\ phase' = "idle" => active' \/ pending' = <<>> \/ "start" = "idle"
      BY <1>b, <3>1, GotoFacts, Zenon
    <3> QED  BY <3>2, <3>3
  <2>2. CASE ~LoopEnds
    <3>1. phase' = phase /\ timer' = timer
      BY <2>2 DEF QueueByte
    <3>2. rbuf' # <<>> /\ active'
      BY <1>0, <2>2 DEF LoopEnds
    <3> QED  BY <1>0, <1>b, <3>1, <3>2
  <2> QED  BY <2>1, <2>2
<1>1. Typed'
  <2>1. phase' \in Phases /\ Source # <<>>
    BY <1>0, <1>c DEF Phases
  <2> QED  BY <1>0, <1>a, <1>c, <2>1, ByteTyped
<1>2. PhasePart'
  BY <1>c DEF PhasePart
<1>3. ASSUME NEW n, NEW j, Placed(n, j) PROVE \E N, J : Placed(N, J)'
  <2>0. PICK N, J : N = NextN(n, j) /\ J = NextJ(n, j)
    OBVIOUS
  <2> DEFINE c == Code(n)
             x == Meant(n, j)
  <2>1. ReadPart(n, j) /\ Parser(c, j) /\ program \in Programs /\ pending \in Seq(Characters)
        /\ done \in Seq(Seq(Characters))
    BY <1>0, <1>3 DEF Placed, SyncPart, Typed
  <2>2. Consume /\ NextParser(Code(N), J) /\ (Speaking(n, j) \/ Beeping(n, j) \/ Quiet(n, j))
    BY <1>0, <2>0, <2>1, CodeEffects
  <2>3. /\ More(n, j) /\ c \in Codes /\ j \in 0..(Len(c) - 1) /\ n < Len(program)
        /\ At(N, J) /\ Rest(rbuf', unread, Off(N) + J) /\ Len(rbuf') = Len(rbuf) - 1
    BY <1>0, <2>0, <2>1, <2>2, TakesNext
  <2>4. /\ Speaks(c, j) => Meant(N, J) = x + 1 /\ Expected[x + 1] = Spoken(c)
        /\ Beeps(c, j) => Meant(N, J) = x + 1 /\ Expected[x + 1] = <<"BS">>
        /\ ~Speaks(c, j) /\ ~Beeps(c, j) => Meant(N, J) = x
    BY <2>0, <2>1, <2>3, MeantMoves DEF NextMeant, ReadPart
  <2>5. Speaking(n, j) =>
          /\ c \in TextCodes /\ j + 1 = Len(c) /\ pending' = pending \o Queued(c)
          /\ done' = done /\ spoiled' = spoiled /\ active'
          /\ J = 0
    BY <1>0, <2>0 DEF Speaking, Speaks, Handle, Same, Queued, HalvesCode
  <2>6. Beeping(n, j) =>
          /\ Beeps(c, j) /\ done' = Append(done, <<"BS">>) /\ spoiled' = (spoiled \/ pending # <<>>)
          /\ pending' = pending /\ active' /\ J = j + 1
    BY <1>0, <2>0 DEF Beeping, ControlDone
  <2>7. Quiet(n, j) => pending' = pending /\ done' = done /\ spoiled' = spoiled /\ (J = 0 \/ (J = j + 1 /\ active'))
    <3>1. Quiet(n, j) =>
          /\ pending' = pending /\ done' = done /\ spoiled' = spoiled
          /\ (J = 0 \/ (J = j + 1 /\ active' = active))
      BY <2>0 DEF Quiet
    <3>2. active' = active => active'
      BY <1>0
    <3> QED  BY <3>1, <3>2, Zenon
  <2>8. Speaking(n, j) => Speaks(c, j)
    BY DEF Speaking
  <2>9. Quiet(n, j) => ~Speaks(c, j) /\ ~Beeps(c, j)
    BY DEF Quiet
  <2>10. j \in 0..4
    BY <2>1, PlaceBounds DEF ReadPart
  <2> HIDE DEF c, x
  <2>11. BoundPart(J)'
    <3> DEFINE l == Len(rbuf)
               v == Bytes(pending)
               w == Bytes(pending')
    <3>1. l \in Nat /\ v \in Nat /\ w \in Nat /\ Len(rbuf') = l - 1
      <4>1. rbuf \in Seq(Characters)
        BY <1>0 DEF Typed
      <4> QED  BY <1>b, <2>1, <2>3, <4>1, BytesType
    <3>2. v + j + l <= Room
      BY <1>0, <1>3 DEF Placed, BoundPart, ToCome
    <3>3. w + J <= v + j + 1 /\ J \in Nat
      <4>1. CASE Speaking(n, j)
        <5>1. w <= v + Len(c)
          BY <2>1, <2>5, <4>1, QueuedFits
        <5>2. Len(c) = j + 1 /\ J = 0
          BY <2>5, <4>1
        <5>3. w <= v + (j + 1)
          BY <5>1, <5>2, Zenon
        <5> HIDE DEF v, w
        <5> QED  BY <2>10, <3>1, <5>2, <5>3
      <4>2. CASE Beeping(n, j) \/ Quiet(n, j)
        <5>1. w = v /\ (J = 0 \/ J = j + 1)
          BY <2>6, <2>7, <4>2
        <5> HIDE DEF v, w
        <5> QED  BY <2>10, <3>1, <5>1
      <4> QED  BY <2>2, <4>1, <4>2
    <3>4. ToCome' = IF phase' = "queueing" THEN l - 1 ELSE 0
      BY <3>1 DEF ToCome
    <3>5. Room \in Nat /\ Room' = Room /\ Bytes(pending)' = w
      BY ReadBufAssumption DEF Room, Bytes, Wide
    <3>6. l # 0
      <4>1. rbuf \in Seq(Characters)
        BY <1>0 DEF Typed
      <4> QED  BY <1>0, <4>1
    <3> HIDE DEF l, v, w
    <3>7. w <= Room /\ w + J + ToCome' <= Room
      <4>1. w + J + (l - 1) <= Room /\ l - 1 \in Nat
        BY <2>10, <3>1, <3>2, <3>3, <3>5, <3>6
      <4>2. w + J + 0 <= Room /\ w <= Room
        BY <3>1, <3>3, <3>5, <4>1
      <4> QED  BY <3>4, <4>1, <4>2
    <3> QED  BY <3>5, <3>7, Zenon DEF BoundPart
  <2>12. ASSUME ~spoiled', NEW q, NEW d, NEW t, NEW m, NEW i, Good(n, j, q, d, t, m, i)
         PROVE  \E p, e : NextGood(N, J, p, e, <<>>, 0, 0)
    <3>1. t = <<>> /\ m = 0 /\ i = 0 /\ m \in 0..Len(q)
      BY <1>0, <2>12 DEF Good, FlushPart, DrainPart
    <3>2. Buffer(pending, q, d, <<>>) /\ ToldUpTo(done, q, 0, x, Expected)
      BY <2>12, <3>1 DEF Good, BufferPart, Told, x
    <3>3. q \in Seq(Forms) /\ Len(q) \in Nat
      BY <2>1, <3>2, BufferFacts DEF Buffer
    <3>4. NextFlush(N, J, <<>>)
      <4>1. J = 0 => PartOf(Code(N), J) = <<>>
        BY DEF PartOf, BufAt
      <4>2. ~active' => J = 0
        BY <2>2, <2>5, <2>6, <2>7
      <4> QED  BY <1>c, <4>1, <4>2 DEF NextFlush
    <3>5. ASSUME NEW p \in Seq(Forms), NEW e PROVE DrainPart(p, e, <<>>, 0, 0)'
      <4>1. 0 \in 0..Len(p) /\ 0 \in Nat /\ phase' # "draining"
        BY <1>c
      <4> QED  BY <4>1, Zenon DEF DrainPart
    <3>6. CASE Speaking(n, j)
      <4>0. PICK f : f = Queued(c)
        OBVIOUS
      <4>1. f \in Forms /\ Said(f) = Expected[x + 1] /\ Meant(N, J) = x + 1
        BY <2>4, <2>5, <2>8, <3>6, <4>0, QueuedFits
      <4>2. pending' = pending \o f /\ done' = done
        BY <2>5, <3>6, <4>0
      <4>3. PICK e : Buffer(pending \o f, Append(q, f), e, <<>>)
        BY <2>1, <3>2, <4>1, BufferGrows
      <4>4. ToldUpTo(done, Append(q, f), 0, x + 1, Expected)
        BY <2>1, <3>1, <3>2, <3>3, <4>1, ToldQueue
      <4>5. Append(q, f) \in Seq(Forms)
        BY <3>3, <4>1, AppendIn
      <4>6. NextGood(N, J, Append(q, f), e, <<>>, 0, 0)
        BY <3>4, <3>5, <4>1, <4>2, <4>3, <4>4, <4>5, Zenon DEF NextGood
      <4> QED  BY <4>6, Zenon
    <3>7. CASE Beeping(n, j)
      <4>1. Len(q) = 0
        BY <2>1, <2>6, <2>12, <3>2, <3>7, EmptyBuffer
      <4>2. <<"BS">> \in Seq(Characters)
        BY SomeCharacters
      <4>3. ToldUpTo(done, q, Len(q), x, Expected)
        BY <3>2, <4>1
      <4>4. <<"BS">> = Expected[x + 1] /\ Meant(N, J) = x + 1 /\ done' = Append(done, <<"BS">>)
            /\ pending' = pending
        BY <2>4, <2>6, <3>7
      <4>5. ToldUpTo(Append(done, <<"BS">>), q, Len(q), x + 1, Expected)
        BY <2>1, <3>3, <4>2, <4>3, <4>4, ToldSay
      <4>6. NextGood(N, J, q, d, <<>>, 0, 0)
        BY <3>2, <3>3, <3>4, <3>5, <4>1, <4>4, <4>5, Zenon DEF NextGood
      <4> QED  BY <4>6, Zenon
    <3>8. CASE Quiet(n, j)
      <4>1. Meant(N, J) = x /\ done' = done /\ pending' = pending
        BY <2>4, <2>7, <2>9, <3>8
      <4>2. NextGood(N, J, q, d, <<>>, 0, 0)
        BY <3>2, <3>3, <3>4, <3>5, <4>1, Zenon DEF NextGood
      <4> QED  BY <4>2, Zenon
    <3> QED  BY <2>2, <3>6, <3>7, <3>8
  <2>13. spoiled' \/ \E p, e, t, m, i : NextGood(N, J, p, e, t, m, i)
    <3>1. spoiled \/ \E q, d, t, m, i : Good(n, j, q, d, t, m, i)
      BY <1>3 DEF Placed, KeptPart
    <3>2. CASE spoiled
      BY <1>b, <3>2
    <3>3. CASE ~spoiled' /\ \E q, d, t, m, i : Good(n, j, q, d, t, m, i)
      <4>1. \E p, e : NextGood(N, J, p, e, <<>>, 0, 0)
        BY <2>12, <3>3, Zenon
      <4> QED  BY <4>1, Zenon
    <3> QED  BY <3>1, <3>2, <3>3
  <2>14. NextSync(N, J)
    BY <2>2, Zenon DEF NextSync
  <2>15. NextPlaced(N, J)
    BY <1>a, <2>3, <2>11, <2>13, <2>14, Zenon DEF NextPlaced
  <2> QED  BY <1>a, <2>15, PlacedNext
<1> QED  BY <1>1, <1>2, <1>3, Zenon DEF IInv

(* A character outside of an update, where the parser knows its place.     *)
LEMMA ReadSynced ==
    ASSUME IInv, ParseByte, ~spoiled, NEW n, NEW j, Placed(n, j), phase' \in {"start", "idle", "read"}
    PROVE  \E N, J : Placed(N, J)'
<1>0. /\ Typed /\ phase = "read" /\ ~Queueing /\ ~active /\ rbuf # <<>> /\ pending = <<>> /\ Decode
      /\ program' = program /\ unread' = unread
  BY DEF IInv, ParseByte, PhasePart, Queueing
<1>1. PICK N, J : N = NextN(n, j) /\ J = NextJ(n, j)
  OBVIOUS
<1> DEFINE c == Code(n)
           x == Meant(n, j)
<1>2. ReadPart(n, j) /\ Parser(c, j) /\ program \in Programs /\ done \in Seq(Seq(Characters))
      /\ pending \in Seq(Characters)
  BY <1>0 DEF Placed, SyncPart, Typed
<1>3. Consume /\ NextParser(Code(N), J) /\ (Speaking(n, j) \/ Beeping(n, j) \/ Quiet(n, j))
  BY <1>0, <1>1, <1>2, CodeEffects
<1>4. /\ More(n, j) /\ c \in Codes /\ j \in 0..(Len(c) - 1) /\ n < Len(program)
      /\ At(N, J) /\ Rest(rbuf', unread, Off(N) + J)
  BY <1>0, <1>1, <1>2, <1>3, TakesNext
<1>5. /\ Speaks(c, j) => Meant(N, J) = x + 1 /\ Expected[x + 1] = Spoken(c)
      /\ Beeps(c, j) => Meant(N, J) = x + 1 /\ Expected[x + 1] = <<"BS">>
      /\ ~Speaks(c, j) /\ ~Beeps(c, j) => Meant(N, J) = x
  BY <1>1, <1>2, <1>4, MeantMoves DEF NextMeant, ReadPart
<1>6. Speaking(n, j) => c \in TextCodes /\ Speaks(c, j) /\ pending' = pending /\ done' = Append(done, Spoken(c))
  BY <1>0 DEF Speaking, Speaks, Handle
<1>7. Beeping(n, j) => Beeps(c, j) /\ pending' = pending /\ done' = Append(done, <<"BS">>)
  BY <1>0 DEF Beeping, ControlDone
<1>8. Quiet(n, j) => ~Speaks(c, j) /\ ~Beeps(c, j) /\ pending' = pending /\ done' = done
  BY DEF Quiet
<1>9. pending' = <<>>
  BY <1>0, <1>3, <1>6, <1>7, <1>8
<1>10. J \in 0..4
  BY <1>2, <1>4, PlaceBounds
<1> HIDE DEF c, x
<1>11. BoundPart(J)'
  <2>1. Bytes(pending)' = 0
    <3>1. Bytes(pending)' = Bytes(<<>>)
      BY <1>9 DEF Bytes, Wide
    <3> QED  BY <3>1, BytesOfNone
  <2>2. Room' \in Nat /\ 4 <= Room' /\ ToCome' = 0
    <3>1. Room' = 2 * ReadBuf + 3 /\ ReadBuf \in Nat \ {0}
      BY ReadBufAssumption DEF Room
    <3>2. ToCome' = 0
      BY DEF ToCome
    <3> QED  BY <3>1, <3>2
  <2>3. 0 <= Room' /\ 0 + J + 0 <= Room'
    BY <1>10, <2>2
  <2> QED  BY <2>1, <2>2, <2>3, Zenon DEF BoundPart
<1>12. PICK q, d, t, m, i : Good(n, j, q, d, t, m, i)
  BY DEF Placed, KeptPart
<1>13. Len(q) = 0 /\ t = <<>> /\ m = 0 /\ i = 0 /\ Buffer(pending, q, d, <<>>) /\ q \in Seq(Forms)
  <2>1. Buffer(pending, q, d, t)
    BY <1>12 DEF Good, BufferPart
  <2>2. Len(q) = 0 /\ t = <<>>
    BY <1>0, <1>2, <2>1, EmptyBuffer
  <2>3. m = 0 /\ i = 0
    BY <1>0, <1>12 DEF Good, DrainPart
  <2> QED  BY <2>1, <2>2, <2>3 DEF Buffer
<1>14. ToldUpTo(done, q, Len(q), x, Expected)
  BY <1>12, <1>13 DEF Good, Told, x
<1>15. ToldUpTo(done', q, Len(q), Meant(N, J), Expected)
  <2>1. ASSUME NEW w \in Seq(Characters), w = Expected[x + 1], done' = Append(done, w), Meant(N, J) = x + 1
        PROVE  ToldUpTo(done', q, Len(q), Meant(N, J), Expected)
    BY <1>2, <1>13, <1>14, <2>1, ToldSay
  <2>2. CASE Speaking(n, j)
    <3>1. Spoken(c) \in Seq(Characters)
      <4>1. c \in Codes /\ c \in TextCodes
        BY <1>4, <1>6, <2>2
      <4>2. Meaning(c) \in Seq(Seq(Characters)) /\ (Len(Meaning(c)) = 1 \/ Len(Meaning(c)) = 2)
            /\ Spoken(c) = Meaning(c)[Len(Meaning(c))]
        BY <4>1, MeaningFacts
      <4> QED  BY <4>2
    <3> QED  BY <1>5, <1>6, <2>1, <2>2, <3>1
  <2>3. CASE Beeping(n, j)
    <3>1. <<"BS">> \in Seq(Characters)
      BY SomeCharacters
    <3> QED  BY <1>5, <1>7, <2>1, <2>3, <3>1
  <2>4. CASE Quiet(n, j)
    BY <1>5, <1>8, <1>14, <2>4
  <2> QED  BY <1>3, <2>2, <2>3, <2>4
<1>16. NextGood(N, J, q, d, <<>>, 0, 0)
  <2>1. Buffer(pending', q, d, <<>>)
    BY <1>0, <1>9, <1>13
  <2>2. NextFlush(N, J, <<>>)
    BY <1>9 DEF NextFlush
  <2>3. DrainPart(q, d, <<>>, 0, 0)'
    <3>1. 0 \in 0..Len(q) /\ 0 \in Nat /\ phase' # "draining"
      BY <1>13
    <3> QED  BY <3>1, Zenon DEF DrainPart
  <2>4. ToldUpTo(done', q, 0, Meant(N, J), Expected)
    BY <1>13, <1>15
  <2> QED  BY <2>1, <2>2, <2>3, <2>4, Zenon DEF NextGood
<1>17. spoiled' \/ \E p, e, r, k, l : NextGood(N, J, p, e, r, k, l)
  BY <1>16, Zenon
<1>18. NextSync(N, J)
  BY <1>3, Zenon DEF NextSync
<1>19. NextPlaced(N, J)
  BY <1>0, <1>4, <1>11, <1>17, <1>18, Zenon DEF NextPlaced
<1> QED  BY <1>0, <1>19, PlacedNext

(* The same after a loss: the beginning of an update is the end of a code. *)
LEMMA ReadSpoiled ==
    ASSUME IInv, ParseByte, spoiled, NEW n, NEW j, Placed(n, j), phase' \in {"start", "idle", "read"}
    PROVE  \E N, J : Placed(N, J)'
<1>0. /\ Typed /\ phase = "read" /\ ~Queueing /\ ~active /\ rbuf # <<>> /\ pending = <<>> /\ Decode
      /\ program' = program /\ unread' = unread /\ Source # <<>>
  BY DEF IInv, ParseByte, PhasePart, Queueing, Source
<1>1. spoiled' /\ pending' = <<>> /\ Moves
  BY <1>0, DecodeKeeps
<1>2. ReadPart(n, j) /\ program \in Programs
  BY <1>0 DEF Placed, Typed
<1>3. ASSUME NEW J \in 0..4 PROVE BoundPart(J)'
  <2>1. Bytes(pending)' = 0
    <3>1. Bytes(pending)' = Bytes(<<>>)
      BY <1>1 DEF Bytes, Wide
    <3> QED  BY <3>1, BytesOfNone
  <2>2. Room' \in Nat /\ 4 <= Room' /\ ToCome' = 0
    <3>1. Room' = 2 * ReadBuf + 3 /\ ReadBuf \in Nat \ {0}
      BY ReadBufAssumption DEF Room
    <3>2. ToCome' = 0
      BY DEF ToCome
    <3> QED  BY <3>1, <3>2
  <2>3. 0 <= Room' /\ 0 + J + 0 <= Room'
    BY <2>2
  <2> QED  BY <2>1, <2>2, <2>3, Zenon DEF BoundPart
<1>4. CASE UNCHANGED <<rbuf, drain>> /\ (active' => active)
  <2>1. At(n, j) /\ Rest(rbuf', unread', Off(n) + j) /\ j \in 0..4
    BY <1>0, <1>2, <1>4, PlaceBounds DEF ReadPart
  <2>2. NextSync(n, j)
    BY <1>0, <1>1, <1>4 DEF NextSync
  <2>3. NextPlaced(n, j)
    BY <1>1, <1>3, <2>1, <2>2 DEF NextPlaced
  <2> QED  BY <1>0, <2>3, PlacedNext
<1>5. CASE Consume /\ (active' => active \/ (Head(Source) \in Enders /\ Becomes(Normal, <<>>, FALSE)))
  <2>0. PICK N, J : N = NextN(n, j) /\ J = NextJ(n, j)
    OBVIOUS
  <2>1. /\ Code(n) \in Codes /\ j \in 0..(Len(Code(n)) - 1) /\ Head(Source) = Code(n)[j + 1]
        /\ At(N, J) /\ Rest(rbuf', unread', Off(N) + J)
    BY <1>0, <1>2, <1>5, <2>0, TakesNext
  <2>2. J \in 0..4
    BY <1>2, <2>1, PlaceBounds
  <2>3. NextSync(N, J)
    <3> SUFFICES ASSUME active' PROVE NextParser(Code(N), J)
      BY <1>1 DEF NextSync
    <3>1. Code(n)[j + 1] \in Enders /\ Becomes(Normal, <<>>, FALSE)
      BY <1>0, <1>5, <2>1
    <3>2. j + 1 = Len(Code(n))
      <4>1. j + 1 \in 1..Len(Code(n))
        <5>1. Len(Code(n)) \in 1..5
          BY <2>1, CodeLength
        <5> QED  BY <2>1, <5>1
      <4> QED  BY <2>1, <3>1, <4>1, EndersEnd
    <3>3. J = 0
      BY <2>0, <3>2 DEF NextJ, Size
    <3>4. StateAt(Code(N), 0) = Normal /\ BufAt(Code(N), 0) = <<>> /\ ~HalfAt(Code(N), 0)
      BY DEF StateAt, BufAt, HalfAt
    <3> QED  BY <3>1, <3>3, <3>4, Zenon DEF NextParser, Becomes
  <2>4. NextPlaced(N, J)
    BY <1>1, <1>3, <2>1, <2>2, <2>3 DEF NextPlaced
  <2> QED  BY <1>0, <2>4, PlacedNext
<1> QED  BY <1>1, <1>4, <1>5 DEF Moves

LEMMA ParseByteKeeps ==
    ASSUME IInv, ParseByte
    PROVE  IInv'
<1>0. Typed /\ PhasePart /\ phase = "read" /\ ~Queueing /\ pending = <<>> /\ Decode /\ Source # <<>>
      /\ UNCHANGED <<program, unread, saved, due>>
  BY DEF IInv, ParseByte, PhasePart, Queueing, Source
<1>1. active' \in BOOLEAN /\ timer \in BOOLEAN /\ spoiled \in BOOLEAN /\ pending' = <<>>
  BY <1>0, DecodeKeeps DEF Typed
<1>2. /\ phase' \in {"start", "idle", "read"} /\ timer' \in BOOLEAN
      /\ phase' = "read" => ~active' /\ rbuf' # <<>>
  <2>1. CASE LoopEnds
    <3>1. Goto("start")
      BY <2>1 DEF ParseByte
    <3>2. phase' \in {"start", "idle"} /\ timer' \in BOOLEAN
      BY <1>1, <3>1, GotoFacts, Zenon
    <3> QED  BY <3>2
  <2>2. CASE ~LoopEnds
    <3>1. phase' = phase /\ timer' = timer
      BY <2>2 DEF ParseByte
    <3>2. rbuf' # <<>> /\ ~active'
      BY <1>0, <2>2 DEF LoopEnds
    <3> QED  BY <1>0, <1>1, <3>1, <3>2
  <2> QED  BY <2>1, <2>2
<1>3. Typed'
  <2>1. phase' \in Phases
    BY <1>2 DEF Phases
  <2> QED  BY <1>0, <1>2, <2>1, ByteTyped
<1>4. PhasePart'
  BY <1>1, <1>2 DEF PhasePart
<1>5. \E n, j : Placed(n, j)'
  <2>1. PICK n, j : Placed(n, j)
    BY DEF IInv
  <2>2. spoiled => \E N, J : Placed(N, J)'
    BY <1>2, <2>1, ReadSpoiled
  <2>3. ~spoiled => \E N, J : Placed(N, J)'
    BY <1>2, <2>1, ReadSynced
  <2> QED  BY <2>2, <2>3
<1> QED  BY <1>3, <1>4, <1>5, Zenon DEF IInv

(* A character of the pending buffer.                                      *)
LEMMA DrainNext ==
    ASSUME NEW b \in Seq(Characters), NEW q, NEW d, NEW t, Buffer(b, q, d, t), NEW m \in 0..Len(q),
           NEW i \in Nat,
           NEW s \in Seq(Characters), s # <<>>, d[m] + i + Len(s) = Len(b),
           \A k \in 1..Len(s) : s[k] = b[d[m] + i + k],
           m < Len(q) => i < Len(q[m + 1])
    PROVE  /\ d[m] + (i + 1) + Len(Tail(s)) = Len(b)
           /\ \A k \in 1..Len(Tail(s)) : Tail(s)[k] = b[d[m] + (i + 1) + k]
           /\ m < Len(q) => Head(s) = q[m + 1][i + 1]
           /\ m = Len(q) => t \in Tails /\ i \in 0..(Len(t) - 1) /\ Head(s) = t[i + 1]
<1>1. /\ Len(q) \in Nat /\ Len(t) \in Nat /\ Len(b) \in Nat /\ d[m] \in Nat /\ d[Len(q)] \in Nat
      /\ Len(b) = d[Len(q)] + Len(t) /\ t \in Tails \cup {<<>>}
      /\ \A k \in 1..Len(t) : b[d[Len(q)] + k] = t[k]
  <2>1. \A l \in 0..Len(q) : d[l] \in Nat /\ d[l] <= Len(b)
    BY BufferFacts
  <2>2. Len(q) \in Nat /\ Len(t) \in Nat /\ d[Len(q)] \in Nat
    BY BufferFacts
  <2>3. Len(b) = d[Len(q)] + Len(t) /\ t \in Tails \cup {<<>>} /\ \A k \in 1..Len(t) : b[d[Len(q)] + k] = t[k]
    BY Zenon DEF Buffer
  <2>4. Len(b) \in Nat
    OBVIOUS
  <2> QED  BY <2>1, <2>2, <2>3, <2>4, Zenon
<1> DEFINE v == d[m]
           S == Len(s)
           B == Len(b)
<1>2. S \in Nat /\ S > 0 /\ Head(s) = s[1] /\ Len(Tail(s)) = S - 1 /\ \A k \in 1..(S - 1) : Tail(s)[k] = s[k + 1]
  OBVIOUS
<1>3. v \in Nat /\ B \in Nat /\ v + i + S = B /\ \A k \in 1..S : s[k] = b[v + i + k]
  BY <1>1
<1> HIDE DEF S, B
<1>4. v + (i + 1) + (S - 1) = B
  <2> HIDE DEF v
  <2> QED  BY <1>2, <1>3
<1>5. ASSUME NEW k \in 1..(S - 1) PROVE Tail(s)[k] = b[v + (i + 1) + k]
  <2> HIDE DEF v
  <2>1. k + 1 \in 1..S /\ v + i + (k + 1) = v + (i + 1) + k
    BY <1>2, <1>3
  <2>2. s[k + 1] = b[v + i + (k + 1)]
    BY <1>3, <2>1
  <2> QED  BY <1>2, <2>1, <2>2
<1>6. Head(s) = b[v + (i + 1)]
  <2> HIDE DEF v
  <2>1. 1 \in 1..S /\ v + i + 1 = v + (i + 1)
    BY <1>2, <1>3
  <2>2. s[1] = b[v + i + 1]
    BY <1>3, <2>1
  <2> QED  BY <1>2, <2>1, <2>2
<1>7. ASSUME m < Len(q) PROVE Head(s) = q[m + 1][i + 1]
  <2>1. /\ q[m + 1] \in Forms /\ \A k \in 1..Len(q[m + 1]) : b[d[m] + k] = q[m + 1][k]
    BY <1>7, BufferCode
  <2>2. Len(q[m + 1]) \in 1..3 /\ i < Len(q[m + 1])
    BY <1>7, <2>1, FormsAre
  <2>3. i + 1 \in 1..Len(q[m + 1])
    BY <2>2
  <2> QED  BY <1>6, <2>1, <2>3, Zenon
<1>8. ASSUME m = Len(q) PROVE t \in Tails /\ i \in 0..(Len(t) - 1) /\ Head(s) = t[i + 1]
  <2> DEFINE T == Len(t)
  <2>1. T \in Nat /\ B = v + T /\ \A k \in 1..T : b[v + k] = t[k]
    BY <1>1, <1>8 DEF B
  <2> HIDE DEF T, v
  <2>2. i \in 0..(T - 1) /\ i + 1 \in 1..T
    BY <1>2, <1>3, <2>1
  <2>3. t # <<>>
    <3>1. Len(<<>>) = 0 /\ T # 0
      BY <2>1, <2>2
    <3> QED  BY <3>1 DEF T
  <2>4. b[v + (i + 1)] = t[i + 1]
    BY <2>1, <2>2
  <2> QED  BY <1>1, <1>6, <2>2, <2>3, <2>4, Zenon DEF T
<1> QED  BY <1>2, <1>4, <1>5, <1>7, <1>8, Zenon DEF v, B

LEMMA ParsePendingByteKeeps ==
    ASSUME IInv, ParsePendingByte
    PROVE  IInv'
<1>0. Typed /\ phase = "draining" /\ ~Queueing /\ drain # <<>> /\ Decode /\ Source = drain /\ Source # <<>>
      /\ phase' = phase /\ timer' = timer /\ program' = program /\ unread' = unread
      /\ UNCHANGED <<program, unread, saved, due>>
  BY DEF IInv, ParsePendingByte, Queueing, Source
<1>a. rbuf' = rbuf /\ pending' = pending /\ (spoiled => spoiled')
  <2>1. pending' = pending /\ (spoiled => spoiled') /\ Moves
    BY <1>0, DecodeKeeps
  <2>2. rbuf' = rbuf
    BY <1>0, <2>1 DEF Moves, Consume
  <2> QED  BY <2>1, <2>2
<1>b. /\ program \in Programs /\ pending \in Seq(Characters) /\ drain \in Seq(Characters)
      /\ done \in Seq(Seq(Characters))
  BY <1>0 DEF Typed
<1>1. Typed'
  <2>1. phase' \in Phases /\ timer' \in BOOLEAN
    BY <1>0 DEF Typed
  <2> QED  BY <1>0, <2>1, ByteTyped
<1>2. PhasePart'
  BY <1>0 DEF PhasePart
<1>3. ASSUME NEW n, NEW j, Placed(n, j) PROVE Placed(n, j)'
  <2>1. At(n, j) /\ Rest(rbuf', unread', Off(n) + j)
    BY <1>3, <1>0, <1>a DEF Placed, ReadPart
  <2>2. BoundPart(j)'
    <3>1. Bytes(pending)' = Bytes(pending) /\ Room' = Room
      BY <1>a DEF Bytes, Wide, Room
    <3> QED  BY <1>3, <1>0, <3>1, Zenon DEF Placed, BoundPart
  <2>3. ASSUME ~spoiled, NEW q, NEW d, NEW t, NEW m, NEW i, Good(n, j, q, d, t, m, i)
        PROVE  \E l, k : NextGood(n, j, q, d, t, l, k)
    <3>1. /\ Buffer(pending, q, d, t) /\ m \in 0..Len(q) /\ i \in Nat
          /\ t = PartOf(Code(n), j) /\ (t = <<>> => j = 0)
          /\ ToldUpTo(done, q, m, Meant(n, j), Expected)
      BY <1>0, <2>3 DEF Good, BufferPart, FlushPart, Flushed, DrainPart, Told
    <3>2. /\ d[m] + i + Len(drain) = Len(pending)
          /\ \A k \in 1..Len(drain) : drain[k] = pending[d[m] + i + k]
          /\ m < Len(q) => i < Len(q[m + 1]) /\ FormParser(q[m + 1], i)
          /\ m = Len(q) => i <= Len(t) /\ TailParser(t, i)
          /\ t = <<>> /\ state = Normal => pbuf = <<>>
      BY <1>0, <2>3, Zenon DEF Good, DrainPart
    <3>3. /\ d[m] + (i + 1) + Len(Tail(drain)) = Len(pending)
          /\ \A k \in 1..Len(Tail(drain)) : Tail(drain)[k] = pending[d[m] + (i + 1) + k]
          /\ m < Len(q) => Head(drain) = q[m + 1][i + 1]
          /\ m = Len(q) => t \in Tails /\ i \in 0..(Len(t) - 1) /\ Head(drain) = t[i + 1]
      <4>1. drain \in Seq(Characters) /\ drain # <<>> /\ pending \in Seq(Characters)
        BY <1>0, <1>b
      <4>2. m < Len(q) => i < Len(q[m + 1])
        BY <3>2
      <4> QED  BY <3>1, <3>2, <4>1, <4>2, DrainNext
    <3>4. NextFlush(n, j, t)
      BY <1>0, <3>1 DEF NextFlush
    <3>5. Len(q) \in Nat /\ q \in Seq(Forms) /\ Len(t) \in Nat
      BY <1>b, <3>1, BufferFacts DEF Buffer
    <3>6. CASE m = Len(q)
      <4>1. Goes(t[1], TailBuf(t, i + 1)) /\ t \in Tails
        BY <1>0, <3>2, <3>3, <3>6, NextOfTail
      <4>2. drain' = Tail(drain) /\ Becomes(t[1], TailBuf(t, i + 1), FALSE) /\ done' = done
        BY <1>0, <4>1 DEF Goes, Consume, Nothing
      <4>3. TailParser(t, i + 1)'
        <5>1. i + 1 # 0
          BY <3>1
        <5> QED  BY <4>2, <5>1 DEF TailParser, Becomes, ParserIs
      <4>4. t # <<>>
        <5>1. Len(t) \in 2..3 /\ Len(<<>>) = 0
          BY <4>1, FormsAre
        <5> QED  BY <5>1
      <4>5. i + 1 <= Len(t) /\ i + 1 \in Nat /\ ~(m < Len(q))
        BY <3>3, <3>5, <3>6
      <4>6. DrainPart(q, d, t, m, i + 1)'
        BY <1>0, <1>a, <3>1, <3>3, <4>2, <4>3, <4>4, <4>5, Zenon DEF DrainPart
      <4>7. NextGood(n, j, q, d, t, m, i + 1)
        BY <1>a, <3>1, <3>4, <4>2, <4>6, Zenon DEF NextGood
      <4> QED  BY <4>7, Zenon
    <3>7. CASE m < Len(q)
      <4> DEFINE f == q[m + 1]
      <4>0. f \in Forms /\ d[m + 1] = d[m] + Len(f) /\ m + 1 \in 0..Len(q) /\ d[m] \in Nat
        BY <1>b, <3>1, <3>7, BufferCode
      <4>1. Len(f) \in 1..3 /\ f \in Seq(Characters) /\ i < Len(f) /\ i \in 0..(Len(f) - 1)
        <5>1. Len(f) \in 1..3 /\ f \in Seq(Characters) /\ i < Len(f)
          BY <3>2, <3>7, <4>0, FormsAre
        <5> QED  BY <3>1, <5>1
      <4>2. FormStep(f, i)
        BY <1>0, <3>2, <3>3, <3>7, <4>0, <4>1, NextOfForm
      <4>3. drain' = Tail(drain)
        BY <1>0, <4>2 DEF FormStep, Consume
      <4>4. CASE i + 1 = Len(f)
        <5>1. /\ done' = Append(done, Said(f)) /\ state' = Normal /\ ~u1'
              /\ pbuf' = <<>> \/ (state = Normal /\ pbuf' = pbuf)
          BY <1>0, <4>2, <4>4 DEF FormStep, Handle
        <5>2. Said(f) \in Seq(Characters)
          <6>1. <<"u">> \in Seq(Characters)
            BY SomeCharacters
          <6> QED  BY <4>1, <6>1 DEF Said
        <5>3. ToldUpTo(done', q, m + 1, Meant(n, j), Expected)
          BY <1>b, <3>1, <3>5, <3>7, <5>1, <5>2, ToldRun
        <5>4. d[m + 1] = d[m] + (i + 1) /\ d[m + 1] + 0 = d[m + 1]
          BY <4>0, <4>1, <4>4
        <5>5. m + 1 < Len(q) => 0 < Len(q[(m + 1) + 1])
          <6> SUFFICES ASSUME m + 1 < Len(q) PROVE 0 < Len(q[(m + 1) + 1])
            OBVIOUS
          <6>1. q[(m + 1) + 1] \in Forms
            BY <1>b, <3>1, <4>0, BufferCode
          <6>2. Len(q[(m + 1) + 1]) \in 1..3
            BY <6>1, FormsAre
          <6> DEFINE w == Len(q[(m + 1) + 1])
          <6>3. w \in 1..3
            BY <6>2
          <6> HIDE DEF w
          <6>4. 0 < w
            BY <6>3
          <6> QED  BY <6>4, Zenon DEF w
        <5>6. FormParser(q[(m + 1) + 1], 0)' /\ TailParser(t, 0)'
          BY <5>1 DEF FormParser, TailParser
        <5>7. t = <<>> /\ state' = Normal => pbuf' = <<>>
          BY <3>2, <5>1
        <5>8. 0 <= Len(t) /\ 0 \in Nat
          BY <3>5
        <5>9. /\ d[m + 1] + 0 + Len(drain') = Len(pending')
              /\ \A k \in 1..Len(drain') : drain'[k] = pending'[d[m + 1] + 0 + k]
          BY <1>a, <3>3, <4>3, <5>4
        <5>10. DrainPart(q, d, t, m + 1, 0)'
          BY <1>0, <4>0, <5>5, <5>6, <5>7, <5>8, <5>9, Zenon DEF DrainPart
        <5>11. NextGood(n, j, q, d, t, m + 1, 0)
          BY <1>a, <3>1, <3>4, <5>3, <5>10, Zenon DEF NextGood
        <5> QED  BY <5>11, Zenon
      <4>5. CASE i + 1 # Len(f)
        <5>1. NextFormParser(f, i + 1) /\ done' = done
          BY <4>2, <4>5 DEF FormStep, Nothing
        <5>2. i + 1 < Len(f) /\ i + 1 \in Nat /\ i + 1 # 0
          BY <4>1, <4>5
        <5>3. FormParser(f, i + 1)'
          BY <5>1, <5>2 DEF FormParser, NextFormParser, Becomes, ParserIs
        <5>4. t = <<>> /\ state' = Normal => pbuf' = <<>>
          <6> SUFFICES ASSUME t = <<>>, state' = Normal PROVE pbuf' = <<>>
            OBVIOUS
          <6>1. CASE f = HalvesCode
            <7>1. i = 0
              <8>1. Len(f) = 2
                BY <6>1 DEF HalvesCode
              <8> QED  BY <4>1, <4>5, <8>1
            <7>2. state = Normal
              BY <3>2, <3>7, <7>1 DEF FormParser
            <7> QED  BY <3>2, <5>1, <6>1, <7>2 DEF NextFormParser
          <6>2. CASE f # HalvesCode
            <7>1. state' = f[1]
              BY <5>1, <6>2 DEF NextFormParser, Becomes
            <7>2. f # <<"a">>
              <8>1. Len(<<"a">>) = 1
                OBVIOUS
              <8>2. Len(f) # 1
                <9> DEFINE w == Len(f)
                <9>1. w \in 1..3 /\ i \in 0..(w - 1) /\ i + 1 # w
                  BY <4>1, <4>5
                <9> HIDE DEF w
                <9>2. w # 1
                  BY <9>1
                <9> QED  BY <9>2 DEF w
              <8> HIDE DEF f
              <8> QED  BY <8>1, <8>2
            <7>3. f[1] # Normal
              BY <4>0, <6>2, <7>2 DEF Forms, CharsetCode, Normal
            <7> QED  BY <7>1, <7>3
          <6> QED  BY <6>1, <6>2
        <5>5. m # Len(q)
          BY <3>5, <3>7
        <5>6. DrainPart(q, d, t, m, i + 1)'
          BY <1>0, <1>a, <3>1, <3>3, <4>3, <5>2, <5>3, <5>4, <5>5, Zenon DEF DrainPart
        <5>7. NextGood(n, j, q, d, t, m, i + 1)
          BY <1>a, <3>1, <3>4, <5>1, <5>6, Zenon DEF NextGood
        <5> QED  BY <5>7, Zenon
      <4> QED  BY <4>4, <4>5
    <3> QED  BY <3>1, <3>5, <3>6, <3>7
  <2>4. spoiled' \/ \E q, d, t, m, i : NextGood(n, j, q, d, t, m, i)
    <3>1. spoiled \/ \E q, d, t, m, i : Good(n, j, q, d, t, m, i)
      BY <1>3 DEF Placed, KeptPart
    <3>2. CASE spoiled
      BY <1>a, <3>2
    <3>3. CASE ~spoiled /\ \E q, d, t, m, i : Good(n, j, q, d, t, m, i)
      <4>1. PICK q, d, t, m, i : Good(n, j, q, d, t, m, i)
        BY <3>3
      <4>2. \E l, k : NextGood(n, j, q, d, t, l, k)
        BY <2>3, <3>3, <4>1
      <4> QED  BY <4>2, Zenon
    <3> QED  BY <3>1, <3>2, <3>3
  <2>5. NextSync(n, j)
    BY <1>0 DEF NextSync
  <2>6. NextPlaced(n, j)
    BY <2>1, <2>2, <2>4, <2>5, Zenon DEF NextPlaced
  <2> QED  BY <1>0, <2>6, PlacedNext
<1> QED  BY <1>1, <1>2, <1>3, Zenon DEF IInv
-----------------------------------------------------------------------------
LEMMA InitHolds ==
    ASSUME Init
    PROVE  IInv
<1>0. /\ program \in Programs /\ unread = Flat /\ rbuf = <<>> /\ state = Normal /\ pbuf = <<>> /\ u1 = FALSE
      /\ active = FALSE /\ late = FALSE /\ pending = <<>> /\ phase = "idle" /\ saved = Normal /\ drain = <<>>
      /\ due = FALSE /\ timer = FALSE /\ done = <<>> /\ spoiled = FALSE
  BY DEF Init, Flat
<1>1. /\ Flat \in Seq(Characters) /\ Len(Flat) \in Nat /\ Len(program) \in Nat /\ Whole(Offs, program)
      /\ Expected \in Seq(Seq(Characters)) /\ \A k \in 1..Len(program) : program[k] \in Codes
  BY <1>0, ProgramFacts
<1>2. Len(<<>>) = 0 /\ <<>> \in Seq(Characters) /\ <<>> \in Seq(Seq(Characters)) /\ 0 \in Nat
  OBVIOUS
<1>3. Typed
  <2>1. Len(rbuf) <= ReadBuf
    BY <1>0, <1>2, ReadBufAssumption
  <2> QED  BY <1>0, <1>1, <1>2, <2>1 DEF Typed, States, Phases
<1>4. PhasePart
  BY <1>0 DEF PhasePart
<1>5. At(0, 0)
  <2>1. ASSUME 0 < Len(program) PROVE 0 < Size(0)
    <3>1. 0 + 1 \in 1..Len(program)
      BY <1>1, <2>1
    <3>2. Code(0) \in Codes
      BY <1>1, <3>1, Zenon DEF Code
    <3>3. Size(0) \in 1..5
      BY <3>2, CodeLength DEF Size
    <3> QED  BY <3>3
  <2>2. 0 \in 0..Len(program)
    BY <1>1
  <2> QED  BY <1>2, <2>1, <2>2, Zenon DEF At
<1>6. Off(0) = 0 /\ Mark(0) = 0
  <2>1. Offs[0] = 0
    BY <1>1 DEF Whole, Cut
  <2>2. Marks[0] = 0
    BY <1>0, ProgramFacts DEF Whole, Cut
  <2> QED  BY <2>1, <2>2, Zenon DEF Off, Mark
<1>7. Rest(rbuf, unread, Off(0) + 0)
  <2> DEFINE l == Len(Flat)
  <2>1. l \in Nat
    BY <1>1
  <2> HIDE DEF l
  <2>2. 0 + 0 + l = l /\ 0 + 0 = 0 /\ \A k \in 1..l : 0 + k = k
    BY <2>1
  <2>3. \A k \in 1..0 : FALSE
    OBVIOUS
  <2>4. (0 + 0) + 0 + l = l /\ \A k \in 1..l : (0 + 0) + 0 + k = k
    BY <2>1
  <2>5. \A k \in 1..l : Flat[k] = Flat[(0 + 0) + 0 + k]
    BY <2>4
  <2> QED  BY <1>0, <1>2, <1>6, <2>3, <2>4, <2>5, Zenon DEF Rest, Total, l
<1>8. SyncPart(0, 0)
  BY <1>0 DEF SyncPart, Parser, ParserIs, StateAt, BufAt, HalfAt
<1>9. BoundPart(0)
  <2>1. Bytes(pending) = 0 /\ Room \in Nat
    BY <1>0, BytesOfNone, ReadBufAssumption DEF Room
  <2> QED  BY <1>0, <2>1 DEF BoundPart
<1>10. \E q, d, t, m, i : Good(0, 0, q, d, t, m, i)
  <2>1. PICK d : Buffer(<<>>, <<>>, d, <<>>)
    BY NoBuffer
  <2>2. BufferPart(<<>>, d, <<>>)
    BY <1>0, <2>1 DEF BufferPart
  <2>3. FlushPart(0, 0, <<>>)
    BY <1>0 DEF FlushPart, Flushed
  <2>4. DrainPart(<<>>, d, <<>>, 0, 0)
    <3>1. 0 \in 0..0
      OBVIOUS
    <3> QED  BY <1>0, <1>2, <3>1 DEF DrainPart
  <2>5. Told(<<>>, 0, 0, 0)
    <3>1. Half(Code(0), 0) = 0 /\ 0 + 0 = 0 /\ 0 - 0 = 0
      BY DEF Half
    <3>2. Meant(0, 0) = 0
      BY <1>6, <3>1 DEF Meant
    <3>3. 0 + (0 - 0) = 0 /\ (\A k \in 1..0 : FALSE) /\ (\A k \in 1..(0 - 0) : FALSE)
      OBVIOUS
    <3> QED  BY <1>0, <1>2, <3>2, <3>3, Zenon DEF Told, ToldUpTo
  <2>6. Good(0, 0, <<>>, d, <<>>, 0, 0)
    BY <2>2, <2>3, <2>4, <2>5 DEF Good
  <2> QED  BY <2>6, Zenon
<1>11. Placed(0, 0)
  BY <1>5, <1>7, <1>8, <1>9, <1>10, Zenon DEF Placed, ReadPart, KeptPart
<1> QED  BY <1>3, <1>4, <1>11, Zenon DEF IInv

LEMMA StutterKeeps ==
    ASSUME IInv, UNCHANGED vars
    PROVE  IInv'
<1>0. /\ program' = program /\ unread' = unread /\ rbuf' = rbuf /\ state' = state /\ pbuf' = pbuf /\ u1' = u1
      /\ active' = active /\ late' = late /\ pending' = pending /\ phase' = phase
      /\ saved' = saved /\ drain' = drain
      /\ due' = due /\ timer' = timer /\ done' = done /\ spoiled' = spoiled
  BY DEF vars, parser
<1>1. Typed'
  BY <1>0 DEF IInv, Typed
<1>2. PhasePart'
  BY <1>0 DEF IInv, PhasePart
<1>3. ASSUME NEW n, NEW j, Placed(n, j) PROVE Placed(n, j)'
  <2>1. At(n, j) /\ Rest(rbuf', unread', Off(n) + j)
    BY <1>0, <1>3 DEF Placed, ReadPart
  <2>2. NextSync(n, j)
    BY <1>0, <1>3 DEF Placed, SyncPart, NextSync, Parser, NextParser, ParserIs, Becomes
  <2>3. BoundPart(j)'
    <3>1. Bytes(pending)' = Bytes(pending) /\ Room' = Room /\ ToCome' = ToCome
      BY <1>0 DEF Bytes, Wide, Room, ToCome
    <3> QED  BY <1>0, <1>3, <3>1 DEF Placed, BoundPart
  <2>4. ASSUME NEW q, NEW d, NEW t, NEW m, NEW i, Good(n, j, q, d, t, m, i) PROVE NextGood(n, j, q, d, t, m, i)
    <3>1. Buffer(pending', q, d, t)
      BY <1>0, <2>4 DEF Good, BufferPart
    <3>2. NextFlush(n, j, t)
      BY <1>0, <2>4 DEF Good, FlushPart, Flushed, NextFlush
    <3>3. DrainPart(q, d, t, m, i)'
      <4>1. DrainPart(q, d, t, m, i)
        BY <2>4 DEF Good
      <4>2. FormParser(q[m + 1], i)' = FormParser(q[m + 1], i) /\ TailParser(t, i)' = TailParser(t, i)
        BY <1>0 DEF FormParser, TailParser, ParserIs
      <4> QED  BY <1>0, <4>1, <4>2 DEF DrainPart
    <3>4. ToldUpTo(done', q, m, Meant(n, j), Expected)
      BY <1>0, <2>4 DEF Good, Told
    <3> QED  BY <3>1, <3>2, <3>3, <3>4 DEF NextGood
  <2>5. spoiled' \/ \E q, d, t, m, i : NextGood(n, j, q, d, t, m, i)
    BY <1>0, <1>3, <2>4 DEF Placed, KeptPart
  <2>6. NextPlaced(n, j)
    BY <2>1, <2>2, <2>3, <2>5, Zenon DEF NextPlaced
  <2> QED  BY <1>0, <2>6, PlacedNext
<1> QED  BY <1>1, <1>2, <1>3, Zenon DEF IInv

LEMMA StepKeeps ==
    ASSUME IInv, [Next]_vars
    PROVE  IInv'
<1>1. ASSUME NEW n \in 1..ReadBuf, Read(n) PROVE IInv'
  BY <1>1, ReadKeeps
<1> QED
  BY <1>1, StutterKeeps, TimePassesKeeps, DoParseKeeps, StartKeeps, QueueKeeps, ParsePendingKeeps, ParsedPendingKeeps,
     QueueByteKeeps, ParseByteKeeps, ParsePendingByteKeeps
  DEF Next, MainLoop, Tick, TickForOtherReason, DoParseBytes

LEMMA InvariantHolds == Spec => []IInv
<1>1. Init => IInv
  BY InitHolds
<1>2. IInv /\ [Next]_vars => IInv'
  BY StepKeeps
<1> QED  BY <1>1, <1>2, PTL DEF Spec

LEMMA LongestCodeIs ==
    LongestCode \in Nat /\ LongestCode >= 4
<1> DEFINE L == {Len(code) : code \in Codes}
<1>1. \A l \in L : l \in 1..5
  BY CodeLength
<1>2. 5 \in L
  <2>1. DcsBody("q") \in Codes /\ Len(DcsBody("q")) = 5
    BY CodesAre DEF DcsBody
  <2> QED  BY <2>1
<1> HIDE DEF L
<1>3. \E x \in L : \A y \in L : x >= y
  BY <1>1, <1>2
<1>4. Max(L) \in L /\ \A y \in L : Max(L) >= y
  BY <1>3 DEF Max
<1>5. Max(L) \in 1..5 /\ Max(L) >= 5
  BY <1>1, <1>2, <1>4
<1>6. LongestCode = Max(L)
  BY DEF LongestCode, L
<1> QED  BY <1>5, <1>6

(* The types; and the pending buffer never has more than its limit, what   *)
(* one read brings and one code that was begun before: its size is looked  *)
(* at once per call of queue_pending_bytes().                              *)
THEOREM PendingTyped == Spec => []TypeOK
<1>1. IInv => TypeOK
  <2> SUFFICES ASSUME IInv PROVE TypeOK
    OBVIOUS
  <2>1. Typed
    BY DEF IInv
  <2>2. Bytes(pending) < 2 * ReadBuf + LongestCode
    <3>1. Bytes(pending) <= Room
      BY DEF IInv, Placed, BoundPart
    <3>2. Bytes(pending) \in Nat
      BY <2>1, BytesType DEF Typed
    <3> QED  BY <3>1, <3>2, LongestCodeIs, ReadBufAssumption DEF Room
  <2>3. {unread, rbuf, pbuf, pending, drain} \subseteq Seq(Characters)
    BY <2>1 DEF Typed
  <2>4. {state, saved} \subseteq Introducers \cup {Normal}
    BY <2>1 DEF Typed, States
  <2>5. {u1, active, late, due, timer, spoiled} \subseteq BOOLEAN
    BY <2>1 DEF Typed
  <2> QED  BY <2>1, <2>2, <2>3, <2>4, <2>5 DEF Typed, TypeOK, Phases
<1> QED  BY <1>1, InvariantHolds, PTL

(* queue_pending_bytes() and dump_partial_escape_code_to_pending(): as long *)
(* as none of the marked losses happens, the dispatch functions are given  *)
(* each code of the program once, whole and in order, wherever the reads   *)
(* cut it and whenever an update is flushed.                               *)
THEOREM CodesAreKept == Spec => []CodesKeptUnlessSpoiled
<1>1. IInv => CodesKeptUnlessSpoiled
  <2> SUFFICES ASSUME IInv, ~spoiled PROVE IsPrefix(done, Expected)
    BY DEF CodesKeptUnlessSpoiled, CodesKept
  <2>1. Typed
    BY DEF IInv
  <2>2. PICK n, j : Placed(n, j)
    BY DEF IInv
  <2>3. PICK q, d, t, m, i : Good(n, j, q, d, t, m, i)
    BY <2>2 DEF Placed, KeptPart
  <2>4. /\ program \in Programs /\ done \in Seq(Seq(Characters)) /\ pending \in Seq(Characters) /\ At(n, j)
        /\ Buffer(pending, q, d, t) /\ m \in 0..Len(q)
        /\ ToldUpTo(done, q, m, Meant(n, j), Expected)
    BY <2>1, <2>2, <2>3 DEF Typed, Placed, ReadPart, Good, BufferPart, DrainPart, Told
  <2>5. Meant(n, j) \in Nat /\ Meant(n, j) <= Len(Expected)
    BY <2>4, MeantBounds
  <2>6. Expected \in Seq(Seq(Characters)) /\ Len(q) \in Nat
    BY <2>4, ProgramFacts, BufferFacts
  <2>7. /\ Len(done) + (Len(q) - m) = Meant(n, j)
        /\ \A k \in 1..Len(done) : done[k] = Expected[k]
    BY <2>4 DEF ToldUpTo
  <2> DEFINE A == Len(done)
             E == Len(Expected)
             Q == Len(q)
             x == Meant(n, j)
             s == SubSeq(done, 1, A)
             e == SubSeq(Expected, 1, A)
  <2>8. A \in Nat /\ E \in Nat /\ Q \in Nat /\ m \in 0..Q /\ A + (Q - m) = x /\ x \in Nat /\ x <= E
    BY <2>4, <2>5, <2>6, <2>7
  <2>9. A <= E
    <3> HIDE DEF A, E, Q, x
    <3> QED  BY <2>8
  <2>10. s \in Seq(Seq(Characters)) /\ Len(s) = A /\ \A k \in 1..A : s[k] = done[k]
    BY <2>4
  <2>11. e \in Seq(Seq(Characters)) /\ Len(e) = A /\ \A k \in 1..A : e[k] = Expected[k]
    BY <2>6, <2>8, <2>9
  <2> HIDE DEF s, e
  <2>12. s = e
    BY <2>7, <2>10, <2>11, SameSequence
  <2> QED  BY <2>9, <2>12 DEF IsPrefix, s, e
<1> QED  BY <1>1, InvariantHolds, PTL
=============================================================================
