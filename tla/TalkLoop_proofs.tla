--------------------------- MODULE TalkLoop_proofs ---------------------------
(***************************************************************************)
(* Proofs about TalkLoop.                                                  *)
(*                                                                         *)
(* Three streams run through the loop and each is cut and joined on its    *)
(* way: what a peer sends lies in the socket, the read buffer, the queue   *)
(* and the batch of the main thread; what a peer is owed lies in the       *)
(* queue, the batch and the promises of Python; what it is answered lies   *)
(* in the write buffer and with the peer.  The invariants say which part   *)
(* of its stream each place holds.                                         *)
(***************************************************************************)
EXTENDS TalkLoop, Sums, SequenceTheorems
-----------------------------------------------------------------------------
(* The inductive invariant.                                                *)

(* Who is where: events are handled of an accepted peer; a peer is         *)
(* accepted once, and nothing was said to it before.                       *)
ServingOK ==
    /\ tpc \in {"accept", "read", "dispatch", "send"} /\ ready # {} => serving \in Accepted
    /\ tpc = "read" => "in" \in ready
    /\ tpc = "dispatch" => ready # {}
    /\ tpc = "send" => "out" \in ready
    /\ done # 0 => tpc = "send" /\ done <= Len(wbuf[serving])
    /\ pollin \cup pollout \subseteq Accepted

PlacesOK ==
    \A p \in Peers :
        /\ life[p] = "none" => p \notin backlog \cup Accepted
        /\ p \in backlog => p \notin Accepted
        /\ life[p] = "none" \/ p \in backlog => received[p] = <<>> /\ answered[p] = 0 /\ p \notin failed
        /\ wbuf[p] # <<>> => p \in Accepted

(* How many of the first i messages of q are from p; a message that p may  *)
(* have as its n-th.                                                       *)
UpTo(q, p, i) == Cardinality({j \in 1..i : q[j].peer = p})

Fits(fin, p, n, body) ==
    \/ body = <<2 * n - 1, 2 * n>>
    \/ p \in fin /\ body \in {<<2 * n - 1>>, <<>>}

Ordered(fin, q, p, n) ==
    \A i \in DOMAIN q : q[i].peer = p => Fits(fin, p, n + UpTo(q, p, i), q[i].body)

AllTold(fin, t, p) == \A i \in DOMAIN t : Fits(fin, p, i, t[i])

Taken(p) == Len(told[p]) + Waiting(batch, p)
Queued(p) == Taken(p) + Waiting(msgs, p)

MessagesOK ==
    \A p \in Peers \ Raw :
        /\ AllTold(finished, told[p], p)
        /\ Ordered(finished, batch, p, Len(told[p]))
        /\ Ordered(finished, msgs, p, Taken(p))

(* With n messages queued, the read buffer r and the socket s hold what    *)
(* follows, up to the k-th token.                                          *)
Flowing(n, r, s, k) ==
    /\ \A i \in DOMAIN r : r[i] = 2 * n + i
    /\ \A i \in DOMAIN s : s[i] = 2 * n + Len(r) + i
    /\ k = 2 * n + Len(r) + Len(s)

(* The end of the stream has been read, or it flows; the read buffer holds *)
(* a whole command only while commands are dispatched from it.             *)
StreamOK ==
    \A p \in Peers \ Raw :
        /\ \/ Flowing(Queued(p), rbuf[p], net[p], sent[p])
           \/ p \in finished /\ net[p] = <<>> /\ rbuf[p] = <<>>
        /\ p \in finished => net[p] = <<>> \/ Len(rbuf[p]) >= ReadLimit
        /\ IF tpc = "dispatch" /\ serving = p THEN p \notin finished ELSE CommandEnds(p) = {}

(* What the running send() has sent is with the peer and still in the      *)
(* write buffer.                                                           *)
Sending(p) == IF p = serving THEN done ELSE 0
Heard(p) == Len(received[p]) - Sending(p)

AnswersOK ==
    \A p \in Peers :
        /\ \A i \in DOMAIN received[p] : received[p][i] = i
        /\ life[p] # "closed" =>
            /\ p \notin failed
            /\ \A i \in DOMAIN wbuf[p] : wbuf[p][i] = Heard(p) + i
            /\ answered[p] = Heard(p) + Len(wbuf[p])

Inv == TypeOK /\ ServingOK /\ PlacesOK /\ MessagesOK /\ StreamOK /\ AnswersOK /\ OwedPeerStays /\ SleepsWatching
-----------------------------------------------------------------------------
(* Counting messages in a queue.                                           *)

(* 1 for a message of p.                                                   *)
One(m, p) == IF m.peer = p THEN 1 ELSE 0

LEMMA CountIsNat ==
    ASSUME NEW q, NEW p, NEW i \in Nat
    PROVE  IsFiniteSet({j \in 1..i : q[j].peer = p}) /\ UpTo(q, p, i) \in Nat
<1>1. IsFiniteSet(1..i)
  BY FS_Interval
<1>2. IsFiniteSet({j \in 1..i : q[j].peer = p})
  BY <1>1, FS_Subset
<1> QED  BY <1>2, FS_CardinalityType DEF UpTo

LEMMA CountNone ==
    ASSUME NEW q, NEW p
    PROVE  UpTo(q, p, 0) = 0
<1>1. {j \in 1..0 : q[j].peer = p} = {}
  OBVIOUS
<1> QED  BY <1>1, FS_EmptySet DEF UpTo

LEMMA CountStep ==
    ASSUME NEW q, NEW p, NEW i \in Nat
    PROVE  UpTo(q, p, i + 1) = UpTo(q, p, i) + One(q[i + 1], p)
<1> DEFINE A == {j \in 1..i : q[j].peer = p}
           B == {j \in 1..(i + 1) : q[j].peer = p}
<1>1. i + 1 \notin A /\ IsFiniteSet(A) /\ Cardinality(A) \in Nat
  <2>1. i + 1 \notin A
    OBVIOUS
  <2>2. IsFiniteSet(A) /\ Cardinality(A) \in Nat
    BY CountIsNat, Zenon DEF UpTo
  <2> QED  BY <2>1, <2>2
<1>2. CASE q[i + 1].peer = p
  <2>1. B = A \cup {i + 1}
    BY <1>2
  <2>2. Cardinality(B) = Cardinality(A) + 1
    BY <1>1, <2>1, FS_AddElement
  <2> QED  BY <1>2, <2>2 DEF UpTo, One
<1>3. CASE q[i + 1].peer # p
  <2>1. B = A
    BY <1>3
  <2>2. UpTo(q, p, i + 1) = Cardinality(B) /\ UpTo(q, p, i) = Cardinality(A)
    BY Zenon DEF UpTo
  <2>3. One(q[i + 1], p) = 0
    BY <1>3 DEF One
  <2> HIDE DEF A, B
  <2> QED  BY <1>1, <2>1, <2>2, <2>3
<1> QED  BY <1>2, <1>3

LEMMA CountAgrees ==
    ASSUME NEW q, NEW r, NEW p, NEW i \in Nat, \A j \in 1..i : q[j] = r[j]
    PROVE  UpTo(q, p, i) = UpTo(r, p, i)
<1>1. {j \in 1..i : q[j].peer = p} = {j \in 1..i : r[j].peer = p}
  OBVIOUS
<1> QED  BY <1>1 DEF UpTo

LEMMA WaitingIsCount ==
    ASSUME NEW q \in Seq(Message), NEW p
    PROVE  Waiting(q, p) = UpTo(q, p, Len(q)) /\ Waiting(q, p) \in Nat
<1>1. DOMAIN q = 1..Len(q) /\ Len(q) \in Nat
  OBVIOUS
<1> QED  BY <1>1, CountIsNat DEF Waiting, UpTo

(* A message that is added to a queue is the last of its peer.             *)
LEMMA WaitingAdded ==
    ASSUME NEW q \in Seq(Message), NEW m \in Message, NEW p
    PROVE  /\ Waiting(Append(q, m), p) = Waiting(q, p) + One(m, p)
           /\ \A i \in 1..Len(q) : UpTo(Append(q, m), p, i) = UpTo(q, p, i)
           /\ UpTo(Append(q, m), p, Len(q) + 1) = Waiting(q, p) + One(m, p)
<1> DEFINE r == Append(q, m)
<1>1. r \in Seq(Message) /\ Len(r) = Len(q) + 1 /\ r[Len(q) + 1] = m /\ Len(q) \in Nat
      /\ \A j \in 1..Len(q) : r[j] = q[j]
  OBVIOUS
<1> HIDE DEF r
<1>2. ASSUME NEW i \in 0..Len(q) PROVE UpTo(r, p, i) = UpTo(q, p, i)
  <2>1. i \in Nat /\ \A j \in 1..i : r[j] = q[j]
    BY <1>1
  <2> QED  BY <2>1, CountAgrees
<1>3. UpTo(r, p, Len(q) + 1) = UpTo(r, p, Len(q)) + One(m, p)
  BY <1>1, CountStep
<1>4. UpTo(r, p, Len(q)) = Waiting(q, p)
  BY <1>1, <1>2, WaitingIsCount
<1>5. Waiting(r, p) = UpTo(r, p, Len(q) + 1)
  BY <1>1, WaitingIsCount
<1>6. \A i \in 1..Len(q) : UpTo(r, p, i) = UpTo(q, p, i)
  BY <1>1, <1>2
<1> QED  BY <1>3, <1>4, <1>5, <1>6 DEF r

(* Without its head a queue has one message less of the head's peer.       *)
LEMMA WaitingTaken ==
    ASSUME NEW q \in Seq(Message), q # <<>>, NEW p
    PROVE  /\ Waiting(q, p) = Waiting(Tail(q), p) + One(Head(q), p)
           /\ \A i \in 0..Len(Tail(q)) :
                UpTo(q, p, i + 1) = UpTo(Tail(q), p, i) + One(Head(q), p)
<1> DEFINE r == Tail(q)
           F(i) == UpTo(q, p, i + 1) = UpTo(r, p, i) + One(Head(q), p)
           T == {i \in 0..Len(r) : ~F(i)}
<1>1. r \in Seq(Message) /\ Len(r) + 1 = Len(q) /\ Len(r) \in Nat /\ q[1] = Head(q)
      /\ \A j \in 1..Len(r) : r[j] = q[j + 1]
  OBVIOUS
<1> HIDE DEF r
<1>2. T = {}
  <2> SUFFICES ASSUME T # {} PROVE FALSE
    OBVIOUS
  <2>1. PICK n \in T : \A k \in T : n <= k
    <3>1. T \subseteq Nat
      BY <1>1
    <3> HIDE DEF T
    <3> QED  BY <3>1, LeastNatural
  <2>2. n \in 0..Len(r) /\ ~F(n)
    BY <2>1
  <2>3. CASE n = 0
    <3>1. UpTo(q, p, 1) = UpTo(q, p, 0) + One(q[1], p)
      BY CountStep
    <3> QED  BY <1>1, <2>2, <2>3, <3>1, CountNone
  <2>4. CASE n # 0
    <3>1. n - 1 \in 0..Len(r) /\ n - 1 \notin T
      BY <1>1, <2>1, <2>2, <2>4
    <3>2. F(n - 1)
      BY <3>1
    <3>3. UpTo(q, p, n + 1) = UpTo(q, p, n) + One(q[n + 1], p)
      <4>1. n \in Nat
        BY <1>1, <2>2
      <4> QED  BY <4>1, CountStep
    <3>4. UpTo(r, p, n) = UpTo(r, p, n - 1) + One(r[n], p)
      <4>1. n - 1 \in Nat /\ (n - 1) + 1 = n
        BY <1>1, <2>2, <2>4
      <4> QED  BY <4>1, CountStep
    <3>5. r[n] = q[n + 1] /\ (n - 1) + 1 = n /\ n \in Nat /\ n - 1 \in Nat
      BY <1>1, <2>2, <2>4
    <3>6. UpTo(q, p, n) \in Nat /\ UpTo(r, p, n - 1) \in Nat /\ One(r[n], p) \in Nat
          /\ One(Head(q), p) \in Nat
      BY <3>5, CountIsNat DEF One
    <3> QED  BY <2>2, <3>2, <3>3, <3>4, <3>5, <3>6
  <2> QED  BY <2>3, <2>4
<1>3. ASSUME NEW i \in 0..Len(r) PROVE F(i)
  BY <1>2
<1>4. F(Len(r))
  BY <1>1, <1>3
<1>5. Waiting(q, p) = UpTo(q, p, Len(r) + 1) /\ Waiting(r, p) = UpTo(r, p, Len(r))
  BY <1>1, WaitingIsCount
<1> QED  BY <1>3, <1>4, <1>5 DEF r

LEMMA WaitingNone ==
    ASSUME NEW p
    PROVE  Waiting(<<>>, p) = 0
<1>1. {i \in DOMAIN <<>> : <<>>[i].peer = p} = {}
  OBVIOUS
<1> QED  BY <1>1, FS_EmptySet DEF Waiting
-----------------------------------------------------------------------------
(* Pruning: those that are not in drop stay.                               *)
Prunes(f, q, n, drop) ==
    f = [i \in 0..n |-> IF i = 0 THEN <<>>
                        ELSE IF q[i] \in drop THEN f[i - 1] ELSE Append(f[i - 1], q[i])]

LEMMA PruneExists ==
    ASSUME NEW q, NEW drop, NEW n \in Nat
    PROVE  \E f : Prunes(f, q, n, drop)
<1> DEFINE T == {k \in Nat : ~ \E f : Prunes(f, q, k, drop)}
<1> SUFFICES ASSUME T # {} PROVE FALSE
  OBVIOUS
<1>1. PICK k \in T : \A l \in T : k <= l
  <2>1. T \subseteq Nat
    OBVIOUS
  <2> HIDE DEF T
  <2> QED  BY <2>1, LeastNatural
<1>2. CASE k = 0
  <2> DEFINE f == [i \in 0..0 |-> <<>>]
  <2>1. Prunes(f, q, 0, drop)
    BY DEF Prunes
  <2> QED  BY <1>1, <1>2, <2>1
<1>3. CASE k # 0
  <2>1. k \in Nat /\ k - 1 \in Nat /\ k - 1 \notin T
    BY <1>1, <1>3
  <2>2. PICK f : Prunes(f, q, k - 1, drop)
    BY <2>1
  <2> DEFINE g == [i \in 0..k |-> IF i = k
                    THEN IF q[k] \in drop THEN f[k - 1] ELSE Append(f[k - 1], q[k])
                    ELSE f[i]]
  <2>3. ASSUME NEW i \in 0..k
        PROVE  g[i] = IF i = 0 THEN <<>>
                      ELSE IF q[i] \in drop THEN g[i - 1] ELSE Append(g[i - 1], q[i])
    <3>1. CASE i = k
      BY <1>3, <2>1, <3>1
    <3>2. CASE i # k
      <4>1. i \in 0..(k - 1) /\ (i # 0 => i - 1 \in 0..(k - 1))
        BY <2>1, <3>2
      <4>2. f[i] = IF i = 0 THEN <<>>
                   ELSE IF q[i] \in drop THEN f[i - 1] ELSE Append(f[i - 1], q[i])
        BY <2>2, <4>1, Zenon DEF Prunes
      <4>3. g[i] = f[i] /\ (i # 0 => g[i - 1] = f[i - 1])
        BY <2>1, <3>2, <4>1
      <4> QED  BY <4>2, <4>3
    <3> QED  BY <3>1, <3>2
  <2>4. g = [i \in 0..k |-> IF i = 0 THEN <<>>
                ELSE IF q[i] \in drop THEN g[i - 1] ELSE Append(g[i - 1], q[i])]
    <3>1. g = [i \in 0..k |-> g[i]]
      OBVIOUS
    <3> HIDE DEF g
    <3> QED  BY <2>3, <3>1
  <2>5. Prunes(g, q, k, drop)
    BY <2>4, Zenon DEF Prunes
  <2> QED  BY <1>1, <2>5
<1> QED  BY <1>2, <1>3

(* What is left of a sequence is what is not to be dropped.                *)
LEMMA PruneKeeps ==
    ASSUME NEW S, NEW q \in Seq(S), NEW drop, NEW f, Prunes(f, q, Len(q), drop)
    PROVE  /\ f[Len(q)] \in Seq(S)
           /\ Len(f[Len(q)]) <= Len(q)
           /\ Range(f[Len(q)]) = Range(q) \ drop
<1> DEFINE R(s) == {s[i] : i \in 1..Len(s)}
           F(k) == f[k] \in Seq(S) /\ Len(f[k]) <= k /\ R(f[k]) = {q[i] : i \in 1..k} \ drop
           T == {k \in 0..Len(q) : ~F(k)}
<1>1. Len(q) \in Nat /\ DOMAIN q = 1..Len(q) /\ \A i \in 1..Len(q) : q[i] \in S
  OBVIOUS
<1>2. T = {}
  <2> SUFFICES ASSUME T # {} PROVE FALSE
    OBVIOUS
  <2>1. PICK k \in T : \A l \in T : k <= l
    <3>1. T \subseteq Nat
      BY <1>1
    <3> HIDE DEF T
    <3> QED  BY <3>1, LeastNatural
  <2>2. k \in 0..Len(q) /\ ~F(k) /\ k \in Nat
    BY <1>1, <2>1
  <2>3. f[k] = IF k = 0 THEN <<>> ELSE IF q[k] \in drop THEN f[k - 1] ELSE Append(f[k - 1], q[k])
    BY <2>2, Zenon DEF Prunes
  <2>4. CASE k = 0
    <3>1. f[k] = <<>>
      BY <2>3, <2>4
    <3>2. F(k)
      BY <2>4, <3>1
    <3> QED  BY <2>2, <3>2
  <2>5. CASE k # 0
    <3>1. k - 1 \in 0..Len(q) /\ k - 1 \notin T /\ k - 1 \in Nat /\ q[k] \in S
      <4>1. k - 1 \in 0..Len(q) /\ k - 1 \in Nat /\ k \in 1..Len(q) /\ ~(k <= k - 1)
        BY <1>1, <2>2, <2>5
      <4> HIDE DEF T
      <4> QED  BY <1>1, <2>1, <4>1
    <3>2. F(k - 1)
      BY <3>1
    <3>3. {q[i] : i \in 1..k} = {q[i] : i \in 1..(k - 1)} \cup {q[k]}
      <4>1. 1..k = (1..(k - 1)) \cup {k}
        BY <2>2, <2>5
      <4> QED  BY <4>1
    <3>4. CASE q[k] \in drop
      <4>1. f[k] = f[k - 1]
        BY <2>3, <2>5, <3>4
      <4>2. {q[i] : i \in 1..k} \ drop = {q[i] : i \in 1..(k - 1)} \ drop
        BY <3>3, <3>4
      <4>3. R(f[k]) = {q[i] : i \in 1..k} \ drop
        BY <3>2, <4>1, <4>2
      <4>4. f[k] \in Seq(S) /\ Len(f[k]) <= k
        BY <2>2, <3>2, <4>1
      <4> QED  BY <2>2, <4>3, <4>4
    <3>5. CASE q[k] \notin drop
      <4> DEFINE s == f[k - 1]
      <4>1. f[k] = Append(s, q[k])
        BY <2>3, <2>5, <3>5
      <4>2. s \in Seq(S) /\ Len(s) <= k - 1 /\ R(s) = {q[i] : i \in 1..(k - 1)} \ drop
        BY <3>2
      <4> HIDE DEF s
      <4>3. Append(s, q[k]) \in Seq(S) /\ Len(Append(s, q[k])) = Len(s) + 1 /\ Len(s) \in Nat
        BY <3>1, <4>2
      <4>4. \A i \in 1..Len(s) : Append(s, q[k])[i] = s[i]
        BY <3>1, <4>2
      <4>5. Append(s, q[k])[Len(s) + 1] = q[k]
        BY <3>1, <4>2
      <4>6. 1..(Len(s) + 1) = (1..Len(s)) \cup {Len(s) + 1}
        BY <4>3
      <4>7. R(Append(s, q[k])) = R(s) \cup {q[k]}
        BY <4>3, <4>4, <4>5, <4>6
      <4>8. R(f[k]) = {q[i] : i \in 1..k} \ drop
        BY <3>3, <3>5, <4>1, <4>2, <4>7
      <4>9. f[k] \in Seq(S) /\ Len(f[k]) <= k
        BY <2>2, <4>1, <4>2, <4>3
      <4> QED  BY <2>2, <4>8, <4>9
    <3> QED  BY <3>4, <3>5
  <2> QED  BY <2>4, <2>5
<1>3. F(Len(q))
  <2>1. Len(q) \in 0..Len(q)
    BY <1>1
  <2> HIDE DEF F
  <2> QED  BY <1>2, <2>1
<1>4. DOMAIN f[Len(q)] = 1..Len(f[Len(q)])
  BY <1>3
<1> QED  BY <1>1, <1>3, <1>4 DEF Range

(* prune_peers() keeps the peers that are not idle.                        *)
LEMMA PrunedKeeps ==
    ASSUME peers \in Seq(Peers)
    PROVE  /\ Pruned \in Seq(Peers)
           /\ Len(Pruned) <= Len(peers)
           /\ Range(Pruned) = {p \in Accepted : ~Idle(p)}
<1> DEFINE q == peers
           drop == {p \in Peers : Idle(p)}
           P(f) == f = [i \in 0..Len(peers) |->
                        IF i = 0 THEN <<>>
                        ELSE IF Idle(peers[i]) THEN f[i - 1] ELSE Append(f[i - 1], peers[i])]
           g == CHOOSE f : P(f)
<1>1. Pruned = g[Len(peers)]
  BY Zenon DEF Pruned
<1>2. Len(q) \in Nat /\ \A i \in 1..Len(q) : q[i] \in Peers /\ (Idle(q[i]) <=> q[i] \in drop)
  OBVIOUS
<1>3. ASSUME NEW f PROVE P(f) <=> Prunes(f, q, Len(q), drop)
  <2>1. [i \in 0..Len(q) |->
            IF i = 0 THEN <<>> ELSE IF Idle(q[i]) THEN f[i - 1] ELSE Append(f[i - 1], q[i])]
        = [i \in 0..Len(q) |->
            IF i = 0 THEN <<>> ELSE IF q[i] \in drop THEN f[i - 1] ELSE Append(f[i - 1], q[i])]
    <3>1. ASSUME NEW i \in 0..Len(q)
          PROVE  (IF i = 0 THEN <<>> ELSE IF Idle(q[i]) THEN f[i - 1] ELSE Append(f[i - 1], q[i]))
               = (IF i = 0 THEN <<>> ELSE IF q[i] \in drop THEN f[i - 1] ELSE Append(f[i - 1], q[i]))
      <4>1. i = 0 \/ (i \in 1..Len(q))
        BY <1>2
      <4>2. i # 0 => (Idle(q[i]) <=> q[i] \in drop)
        BY <1>2, <4>1
      <4> HIDE DEF drop, q
      <4> QED  BY <4>2
    <3> HIDE DEF drop, q
    <3> QED  BY <3>1
  <2> QED  BY <2>1, Zenon DEF Prunes
<1>4. \E f : P(f)
  <2>1. PICK f : Prunes(f, q, Len(q), drop)
    BY <1>2, PruneExists
  <2> QED  BY <1>3, <2>1
<1>5. Prunes(g, q, Len(q), drop)
  <2>1. P(g)
    <3> HIDE DEF P
    <3> QED  BY <1>4
  <2> HIDE DEF g, P
  <2> QED  BY <1>3, <2>1
<1>6. Range(q) \ drop = {p \in Accepted : ~Idle(p)}
  BY <1>2 DEF Accepted, Range
<1>7. /\ g[Len(q)] \in Seq(Peers) /\ Len(g[Len(q)]) <= Len(q)
      /\ Range(g[Len(q)]) = Range(q) \ drop
  <2>1. q \in Seq(Peers)
    OBVIOUS
  <2> HIDE DEF g, q, drop
  <2> QED  BY <1>5, <2>1, PruneKeeps
<1> HIDE DEF g
<1> QED  BY <1>1, <1>6, <1>7
-----------------------------------------------------------------------------
(* Types.                                                                  *)

LEMMA ServedIsPeer ==
    ASSUME TypeOK, ServingOK
    PROVE  /\ Accepted \subseteq Peers
           /\ tpc \in {"read", "dispatch", "send"} => serving \in Accepted /\ serving \in Peers
<1>1. Accepted \subseteq Peers
  BY DEF TypeOK, Accepted
<1>2. tpc \in {"read", "dispatch", "send"} => serving \in Accepted
  BY DEF ServingOK
<1> QED  BY <1>1, <1>2

LEMMA SendFacts ==
    ASSUME TypeOK, ServingOK, tpc = "send"
    PROVE  /\ serving \in Peers /\ serving \in Accepted
           /\ wbuf[serving] \in Seq(Nat) /\ received[serving] \in Seq(Nat)
           /\ done \in 0..Len(wbuf[serving])
           /\ Room \in Nat /\ room[serving] \in 0..Room /\ room[serving] \in Nat
<1>1. serving \in Peers /\ serving \in Accepted
  BY ServedIsPeer
<1>2. wbuf[serving] \in Seq(Nat) /\ received[serving] \in Seq(Nat) /\ done \in Nat
  BY <1>1 DEF TypeOK
<1>3. done # 0 => done <= Len(wbuf[serving])
  BY DEF ServingOK
<1>4. Room \in Nat /\ room[serving] \in 0..Room
  BY <1>1, LimitsAssumption DEF TypeOK
<1>5. done \in 0..Len(wbuf[serving]) /\ room[serving] \in Nat
  BY <1>2, <1>3, <1>4
<1> QED  BY <1>1, <1>2, <1>4, <1>5

LEMMA CutFront ==
    ASSUME NEW S, NEW s \in Seq(S), NEW n \in 0..Len(s)
    PROVE  /\ SubSeq(s, 1, n) \in Seq(S) /\ Len(SubSeq(s, 1, n)) = n
           /\ \A i \in 1..n : SubSeq(s, 1, n)[i] = s[i]
  OBVIOUS

LEMMA CutRest ==
    ASSUME NEW S, NEW s \in Seq(S), NEW n \in 0..Len(s)
    PROVE  /\ SubSeq(s, n + 1, Len(s)) \in Seq(S) /\ Len(SubSeq(s, n + 1, Len(s))) = Len(s) - n
           /\ \A i \in 1..(Len(s) - n) : SubSeq(s, n + 1, Len(s))[i] = s[n + i]
  OBVIOUS

(* The first element of a set of positions is its least.                   *)
LEMMA LeastIsIn ==
    ASSUME NEW T, T \subseteq Nat, T # {}
    PROVE  Min(T) \in T /\ \A k \in T : Min(T) <= k
<1>1. \E n \in T : \A m \in T : n <= m
  BY LeastNatural
<1> QED  BY <1>1 DEF Min

LEMMA FirstIsAccepted ==
    ASSUME peers \in Seq(Peers)
    PROVE  First = None \/ First \in Accepted
<1> DEFINE at == {i \in DOMAIN peers : peers[i] \in pollin \cup pollout}
<1>1. CASE at = {}
  BY <1>1 DEF First
<1>2. CASE at # {}
  <2>1. at \subseteq DOMAIN peers /\ at \subseteq Nat
    OBVIOUS
  <2>2. Min(at) \in at
    <3> HIDE DEF at
    <3> QED  BY <1>2, <2>1, LeastIsIn
  <2>3. First = peers[Min(at)]
    BY <1>2, Zenon DEF First
  <2> QED  BY <2>1, <2>2, <2>3 DEF Accepted
<1> QED  BY <1>1, <1>2

(* What is dispatched is the beginning of the read buffer.                 *)
LEMMA DispatchFacts ==
    ASSUME TypeOK, ServingOK, TalkDispatch
    PROVE  LET p == serving
               end == Min(CommandEnds(serving))
           IN  /\ p \in Peers /\ p \in Accepted /\ rbuf[p] \in Seq(Nat)
               /\ end \in 1..Len(rbuf[p])
               /\ end \in CommandEnds(p) /\ \A k \in CommandEnds(p) : end <= k
               /\ SubSeq(rbuf[p], 1, end) \in Seq(Nat)
               /\ Rest(p, end) \in Seq(Nat) /\ Len(Rest(p, end)) <= ReadLimit
<1> DEFINE p == serving
           end == Min(CommandEnds(serving))
<1>0. serving \in Peers /\ serving \in Accepted
  BY ServedIsPeer DEF TalkDispatch
<1>1. CommandEnds(p) \subseteq DOMAIN rbuf[p] /\ CommandEnds(p) # {}
  BY DEF TalkDispatch, CommandEnds
<1>2. rbuf[p] \in Seq(Nat) /\ Len(rbuf[p]) <= ReadLimit /\ ReadLimit \in Nat
  BY <1>0, LimitsAssumption DEF TypeOK
<1>3. CommandEnds(p) \subseteq Nat /\ DOMAIN rbuf[p] = 1..Len(rbuf[p])
  BY <1>1, <1>2
<1>4. end \in CommandEnds(p) /\ \A k \in CommandEnds(p) : end <= k
  <2> DEFINE T == CommandEnds(p)
  <2> HIDE DEF T
  <2>1. Min(T) \in T /\ \A k \in T : Min(T) <= k
    BY <1>1, <1>3, LeastIsIn DEF T
  <2> QED  BY <2>1 DEF T
<1>5. end \in 1..Len(rbuf[p])
  BY <1>1, <1>3, <1>4
<1>6. SubSeq(rbuf[p], 1, end) \in Seq(Nat) /\ Rest(p, end) \in Seq(Nat)
      /\ Len(Rest(p, end)) <= ReadLimit
  <2> DEFINE s == rbuf[p]
             e == end
  <2>1. s \in Seq(Nat) /\ e \in 1..Len(s) /\ Len(s) <= ReadLimit /\ ReadLimit \in Nat
    BY <1>2, <1>5
  <2> HIDE DEF s, e
  <2>2. SubSeq(s, 1, e) \in Seq(Nat) /\ SubSeq(s, e + 1, Len(s)) \in Seq(Nat)
        /\ Len(SubSeq(s, e + 1, Len(s))) <= ReadLimit
    BY <2>1
  <2> QED  BY <2>2 DEF s, e, Rest
<1> QED  BY <1>0, <1>2, <1>4, <1>5, <1>6

(* What a call of send_response_to_peer() does to what has a type.         *)
LEMMA RespondType ==
    ASSUME TypeOK, NEW p \in Peers, NEW size \in Nat, Respond(p, size)
    PROVE  /\ owing' \in [Peers -> Nat]
           /\ wbuf' \in [Peers -> Seq(Nat)]
           /\ answered' \in [Peers -> Nat]
           /\ wake' \in BOOLEAN
<1>0. owing \in [Peers -> Nat] /\ answered \in [Peers -> Nat]
  BY DEF TypeOK
<1>1. owing' \in [Peers -> Nat]
  <2>1. owing' = owing \/ owing' = [owing EXCEPT ![p] = IF @ > 0 THEN @ - 1 ELSE @]
    BY DEF Respond
  <2> QED  BY <1>0, <2>1
<1>2. wake' \in BOOLEAN
  BY DEF Respond, TypeOK, WakeTalkLoop
<1>3. answered' \in [Peers -> Nat]
  <2>1. answered' = answered \/ answered' = [answered EXCEPT ![p] = @ + size]
    BY DEF Respond
  <2> QED  BY <1>0, <2>1
<1>4. wbuf' \in [Peers -> Seq(Nat)]
  <2> DEFINE data == [i \in 1..size |-> answered[p] + i]
  <2>1. data \in Seq(Nat)
    <3>1. \A i \in 1..size : answered[p] + i \in Nat
      BY <1>0
    <3> QED  BY <3>1, IsASeq
  <2>2. wbuf[p] \o data \in Seq(Nat)
    BY <2>1 DEF TypeOK
  <2>3. wbuf' = wbuf \/ wbuf' = [wbuf EXCEPT ![p] = wbuf[p] \o data]
    BY DEF Respond, Extended
  <2> QED  BY <2>2, <2>3 DEF TypeOK
<1> QED  BY <1>1, <1>2, <1>3, <1>4

LEMMA NextType == TypeOK /\ ServingOK /\ [Next]_vars => TypeOK'
<1> SUFFICES ASSUME TypeOK, ServingOK, [Next]_vars PROVE TypeOK'
  OBVIOUS
<1> USE PeersAssumption, LimitsAssumption DEF wire, shared, turn, main
<1>0. Accepted \subseteq Peers /\ (tpc \in {"read", "dispatch", "send"} => serving \in Accepted /\ serving \in Peers)
  BY ServedIsPeer
<1>1. CASE TalkTop
  <2>1. Pruned \in Seq(Peers) /\ Len(Pruned) <= Len(peers)
    BY PrunedKeeps DEF TypeOK
  <2>2. peers' \in Seq(Peers) /\ Len(peers') <= PeerLimit
    BY <1>1, <2>1 DEF TalkTop, TypeOK
  <2> QED  BY <1>0, <1>1, <2>2 DEF TalkTop, TypeOK
<1>2. CASE TalkExit
  BY <1>2 DEF TalkExit, TypeOK
<1>3. CASE TalkPoll
  <2>1. First \in Peers \cup {None}
    BY <1>0, FirstIsAccepted DEF TypeOK
  <2>2. ready' \subseteq {"in", "out"}
    BY <1>3 DEF TalkPoll, Revents
  <2>3. tpc' \in {"accept", "read", "send", "top"}
    BY <1>3 DEF TalkPoll, Serve
  <2> QED  BY <1>3, <2>1, <2>2, <2>3 DEF TalkPoll, TypeOK
<1>4. CASE TalkReadFails
  BY <1>0, <1>4 DEF TalkReadFails, AfterRead, TypeOK
<1>5. CASE TalkReadEnds
  <2>1. [peer |-> serving, body |-> rbuf[serving]] \in Message
    BY <1>0, <1>5 DEF TalkReadEnds, Message, TypeOK
  <2>2. msgs' \in Seq(Message)
    BY <1>5, <2>1 DEF TalkReadEnds, Queue, TypeOK
  <2>3. rbuf' \in [Peers -> Seq(Nat)] /\ \A p \in Peers : Len(rbuf'[p]) <= ReadLimit
    BY <1>0, <1>5 DEF TalkReadEnds, TypeOK
  <2>4. owing' \in [Peers -> Nat]
    <3>1. owing \in [Peers -> Nat] /\ serving \in Peers
      BY <1>0, <1>5 DEF TypeOK, TalkReadEnds
    <3>2. owing' = [owing EXCEPT ![serving] = @ + 1]
      BY <1>5 DEF TalkReadEnds, Queue
    <3> QED  BY <3>1, <3>2
  <2> QED  BY <1>0, <1>5, <2>2, <2>3, <2>4 DEF TalkReadEnds, AfterRead, Queue, TypeOK
<1>6. CASE TalkDispatch
  <2> DEFINE p == serving
             end == Min(CommandEnds(serving))
  <2>1. p \in Peers /\ end \in 1..Len(rbuf[p]) /\ rbuf[p] \in Seq(Nat)
    BY <1>6, DispatchFacts
  <2>2. SubSeq(rbuf[p], 1, end) \in Seq(Nat) /\ Rest(p, end) \in Seq(Nat)
        /\ Len(Rest(p, end)) <= ReadLimit
    BY <1>6, DispatchFacts
  <2>3. msgs' = Append(msgs, [peer |-> p, body |-> SubSeq(rbuf[p], 1, end)])
        /\ owing' = [owing EXCEPT ![p] = @ + 1] /\ mainwake' = TRUE
        /\ rbuf' = [rbuf EXCEPT ![p] = Rest(p, end)]
    BY <1>6, Zenon DEF TalkDispatch, Queue
  <2> HIDE DEF end
  <2>4. [peer |-> p, body |-> SubSeq(rbuf[p], 1, end)] \in Message
    BY <2>1, <2>2 DEF Message
  <2>5. msgs' \in Seq(Message)
    BY <2>3, <2>4 DEF TypeOK
  <2>6. rbuf' \in [Peers -> Seq(Nat)] /\ \A r \in Peers : Len(rbuf'[r]) <= ReadLimit
    BY <2>1, <2>2, <2>3 DEF TypeOK
  <2>7. owing' \in [Peers -> Nat] /\ mainwake' \in BOOLEAN
    <3>1. owing \in [Peers -> Nat]
      BY DEF TypeOK
    <3> QED  BY <2>1, <2>3, <3>1
  <2> QED  BY <1>6, <2>5, <2>6, <2>7 DEF TalkDispatch, TypeOK
<1>7. CASE TalkDispatched
  BY <1>7 DEF TalkDispatched, AfterRead, TypeOK
<1>8. CASE TalkSend
  <2> DEFINE p == serving
             left == Len(wbuf[p]) - done
             n == IF room[p] < left THEN room[p] ELSE left
  <2>1. p \in Peers /\ wbuf[p] \in Seq(Nat) /\ done \in 0..Len(wbuf[p]) /\ received[p] \in Seq(Nat)
        /\ room[p] \in 0..Room /\ Room \in Nat
    BY <1>0, <1>8 DEF TalkSend, TypeOK, ServingOK
  <2>2. left \in Nat /\ n \in 0..left /\ n \in 0..room[p]
    BY <2>1
  <2>3. SubSeq(wbuf[p], done + 1, done + n) \in Seq(Nat) /\ Unsent(p, done + n) \in Seq(Nat)
    <3> DEFINE s == wbuf[p]
               k == n
    <3>1. s \in Seq(Nat) /\ done \in Nat /\ k \in 0..(Len(s) - done)
      BY <2>1, <2>2
    <3> HIDE DEF s, k
    <3>2. SubSeq(s, done + 1, done + k) \in Seq(Nat) /\ SubSeq(s, 1, Len(s) - (done + k)) \in Seq(Nat)
      BY <3>1
    <3> QED  BY <3>2 DEF s, k, Unsent
  <2>4. /\ received' = [received EXCEPT ![p] = @ \o SubSeq(wbuf[p], done + 1, done + n)]
        /\ room' = [room EXCEPT ![p] = @ - n]
        /\ \/ wbuf' = [wbuf EXCEPT ![p] = Unsent(p, done + n)] /\ done' = 0 /\ tpc' = "top"
           \/ done' = done + n /\ UNCHANGED <<wbuf, tpc>>
    BY <1>8, Zenon DEF TalkSend
  <2> HIDE DEF n, left
  <2>5. received' \in [Peers -> Seq(Nat)] /\ room' \in [Peers -> 0..Room]
    <3>1. received[p] \o SubSeq(wbuf[p], done + 1, done + n) \in Seq(Nat)
      BY <2>1, <2>3
    <3>2. room[p] - n \in 0..Room
      BY <2>1, <2>2
    <3> QED  BY <2>1, <2>4, <3>1, <3>2 DEF TypeOK
  <2>6. wbuf' \in [Peers -> Seq(Nat)] /\ done' \in Nat
        /\ tpc' \in {"top", "poll", "accept", "read", "dispatch", "send", "done"}
    <3>1. wbuf \in [Peers -> Seq(Nat)] /\ done \in Nat /\ tpc = "send"
      BY <1>8 DEF TypeOK, TalkSend
    <3>2. done + n \in Nat
      BY <2>2, <3>1
    <3>3. CASE wbuf' = [wbuf EXCEPT ![p] = Unsent(p, done + n)] /\ done' = 0 /\ tpc' = "top"
      BY <2>1, <2>3, <3>1, <3>3
    <3>4. CASE done' = done + n /\ UNCHANGED <<wbuf, tpc>>
      BY <3>1, <3>2, <3>4
    <3> QED  BY <2>4, <3>3, <3>4
  <2> QED  BY <1>8, <2>5, <2>6 DEF TalkSend, TypeOK
<1>9. CASE TalkSendFails
  <2>1. serving \in Peers /\ wbuf[serving] \in Seq(Nat) /\ done \in 0..Len(wbuf[serving])
    BY <1>0, <1>9 DEF TalkSendFails, TypeOK, ServingOK
  <2>2. Unsent(serving, done) \in Seq(Nat)
    BY <2>1 DEF Unsent
  <2>3. wbuf' \in [Peers -> Seq(Nat)]
    BY <1>9, <2>1, <2>2 DEF TalkSendFails, TypeOK
  <2> QED  BY <1>9, <2>1, <2>3 DEF TalkSendFails, TypeOK
<1>10. ASSUME NEW p \in Peers, TalkAccept(p) PROVE TypeOK'
  <2>1. peers' \in Seq(Peers) /\ Len(peers') <= PeerLimit
    <3>1. peers \in Seq(Peers) /\ Len(peers) <= PeerLimit /\ PeerLimit \in Nat
      BY DEF TypeOK
    <3>2. peers' = peers \/ (peers' = Append(peers, p) /\ Len(peers) < PeerLimit)
      BY <1>10 DEF TalkAccept, RoomForPeer
    <3> QED  BY <3>1, <3>2
  <2> QED  BY <1>10, <2>1 DEF TalkAccept, Serve, TypeOK
<1>11. ASSUME NEW n \in 1..ReadLimit, TalkRead(n) PROVE TypeOK'
  <2> DEFINE p == serving
  <2>1. p \in Peers /\ net[p] \in Seq(Nat) /\ rbuf[p] \in Seq(Nat) /\ n \in 0..Len(net[p])
        /\ n <= ReadLimit - Len(rbuf[p])
    BY <1>0, <1>11 DEF TalkRead, TypeOK, Space
  <2>2. SubSeq(net[p], 1, n) \in Seq(Nat) /\ Len(SubSeq(net[p], 1, n)) = n
        /\ SubSeq(net[p], n + 1, Len(net[p])) \in Seq(Nat)
    <3> DEFINE s == net[p]
    <3>1. s \in Seq(Nat) /\ n \in 0..Len(s)
      BY <2>1
    <3> HIDE DEF s
    <3>2. SubSeq(s, 1, n) \in Seq(Nat) /\ Len(SubSeq(s, 1, n)) = n
      BY <3>1, CutFront
    <3>3. SubSeq(s, n + 1, Len(s)) \in Seq(Nat)
      BY <3>1, CutRest
    <3> QED  BY <3>2, <3>3 DEF s
  <2>3. rbuf[p] \o SubSeq(net[p], 1, n) \in Seq(Nat)
        /\ Len(rbuf[p] \o SubSeq(net[p], 1, n)) <= ReadLimit
    BY <2>1, <2>2
  <2>4. rbuf' \in [Peers -> Seq(Nat)] /\ \A r \in Peers : Len(rbuf'[r]) <= ReadLimit
    BY <1>11, <2>1, <2>3 DEF TalkRead, TypeOK
  <2>5. net' \in [Peers -> Seq(Nat)]
    BY <1>11, <2>1, <2>2 DEF TalkRead, TypeOK
  <2> QED  BY <1>11, <2>4, <2>5 DEF TalkRead, TypeOK
<1>12. CASE MainTake
  BY <1>12 DEF MainTake, TypeOK
<1>13. CASE MainHandle
  <2> DEFINE m == Head(batch)
  <2>1. m \in Message /\ Tail(batch) \in Seq(Message)
    BY <1>13 DEF MainHandle, TypeOK
  <2>2. m.peer \in Peers /\ m.body \in Seq(Nat)
    BY <2>1 DEF Message
  <2>3. told' \in [Peers -> Seq(Seq(Nat))]
    <3>1. told' = [told EXCEPT ![m.peer] = Append(@, m.body)]
      BY <1>13 DEF MainHandle
    <3>2. told \in [Peers -> Seq(Seq(Nat))]
      BY DEF TypeOK
    <3> HIDE DEF m
    <3>3. told[m.peer] \in Seq(Seq(Nat))
      BY <2>2, <3>2
    <3>4. Append(told[m.peer], m.body) \in Seq(Seq(Nat))
      BY <2>2, <3>3
    <3> QED  BY <2>2, <3>1, <3>2, <3>4
  <2>4. /\ owing' \in [Peers -> Nat] /\ wbuf' \in [Peers -> Seq(Nat)]
        /\ answered' \in [Peers -> Nat] /\ wake' \in BOOLEAN /\ later' \in [Peers -> Nat]
    <3>1. ASSUME NEW size \in Nat, Respond(m.peer, size), UNCHANGED later
          PROVE  /\ owing' \in [Peers -> Nat] /\ wbuf' \in [Peers -> Seq(Nat)]
                 /\ answered' \in [Peers -> Nat] /\ wake' \in BOOLEAN /\ later' \in [Peers -> Nat]
      <4>1. later' \in [Peers -> Nat]
        BY <3>1 DEF TypeOK
      <4> DEFINE r == m.peer
      <4>2. r \in Peers /\ Respond(r, size)
        BY <2>2, <3>1
      <4> HIDE DEF r
      <4> QED  BY <4>1, <4>2, RespondType
    <3>2. CASE UNCHANGED later /\ Respond(m.peer, 0)
      BY <3>1, <3>2
    <3>3. CASE UNCHANGED later /\ \E size \in Answers : Respond(m.peer, size)
      <4>1. PICK size \in Answers : Respond(m.peer, size)
        BY <3>3
      <4>2. size \in Nat
        BY <4>1
      <4> HIDE DEF m
      <4> QED  BY <3>1, <3>3, <4>1, <4>2
    <3>4. CASE later' = [later EXCEPT ![m.peer] = @ + 1] /\ UNCHANGED <<owing, wake, wbuf, answered>>
      <4> HIDE DEF m
      <4>1. later \in [Peers -> Nat]
        BY DEF TypeOK
      <4>2. later' \in [Peers -> Nat]
        BY <2>2, <3>4, <4>1
      <4> QED  BY <3>4, <4>2 DEF TypeOK
    <3> QED  BY <1>13, <3>2, <3>3, <3>4 DEF MainHandle
  <2>5. batch' \in Seq(Message)
    BY <1>13, <2>1 DEF MainHandle
  <2> QED  BY <1>13, <2>3, <2>4, <2>5 DEF MainHandle, TypeOK
<1>14. ASSUME NEW p \in Peers, MainAnswersLater(p) PROVE TypeOK'
  <2>1. PICK size \in Nat : Respond(p, size)
    BY <1>14 DEF MainAnswersLater
  <2>2. /\ owing' \in [Peers -> Nat] /\ wbuf' \in [Peers -> Seq(Nat)]
        /\ answered' \in [Peers -> Nat] /\ wake' \in BOOLEAN
    BY <2>1, RespondType
  <2>3. later' \in [Peers -> Nat]
    <3>1. later \in [Peers -> Nat]
      BY DEF TypeOK
    <3> QED  BY <1>14, <3>1 DEF MainAnswersLater
  <2> QED  BY <1>14, <2>2, <2>3 DEF MainAnswersLater, TypeOK
<1>15. CASE MainShutdown
  BY <1>15 DEF MainShutdown, WakeTalkLoop, TypeOK
<1>16. ASSUME NEW p \in Peers, PeerConnects(p) \/ PeerSends(p) \/ PeerReads(p) \/ PeerEnds(p) \/ PeerCloses(p)
       PROVE  TypeOK'
  <2>1. CASE PeerConnects(p)
    BY <2>1 DEF PeerConnects, TypeOK
  <2>2. CASE PeerSends(p)
    <3>1. sent'[p] \in Nat /\ sent' \in [Peers -> Nat]
      <4>1. sent \in [Peers -> Nat]
        BY DEF TypeOK
      <4> QED  BY <2>2, <4>1 DEF PeerSends
    <3>2. net' \in [Peers -> Seq(Nat)]
      BY <2>2, <3>1 DEF PeerSends, TypeOK
    <3> QED  BY <2>2, <3>1, <3>2 DEF PeerSends, TypeOK
  <2>3. CASE PeerReads(p)
    <3>0. Room \in 0..Room
      OBVIOUS
    <3>1. room \in [Peers -> 0..Room] /\ Room \in 0..Room
      BY <3>0 DEF TypeOK
    <3>2. room' \in [Peers -> 0..Room]
      BY <2>3, <3>1 DEF PeerReads
    <3> QED  BY <2>3, <3>2 DEF PeerReads, TypeOK
  <2>4. CASE PeerEnds(p)
    BY <2>4 DEF PeerEnds, TypeOK
  <2>5. CASE PeerCloses(p)
    BY <2>5 DEF PeerCloses, TypeOK
  <2> QED  BY <1>16, <2>1, <2>2, <2>3, <2>4, <2>5
<1>17. CASE UNCHANGED vars
  BY <1>17 DEF vars, TypeOK
<1> QED
  BY <1>1, <1>2, <1>3, <1>4, <1>5, <1>6, <1>7, <1>8, <1>9, <1>10, <1>11, <1>12, <1>13, <1>14,
     <1>15, <1>16, <1>17 DEF Next, TalkThread, MainThread
-----------------------------------------------------------------------------
(* What the actions do to the array of peers and with an answer.           *)

LEMMA AcceptedSame ==
    ASSUME UNCHANGED peers
    PROVE  Accepted' = Accepted
  BY DEF Accepted

LEMMA AcceptedTop ==
    ASSUME TypeOK, TalkTop
    PROVE  Accepted' = {p \in Accepted : ~Idle(p)}
<1>1. Pruned \in Seq(Peers) /\ Range(Pruned) = {p \in Accepted : ~Idle(p)}
  BY PrunedKeeps DEF TypeOK
<1>2. peers' = Pruned
  BY DEF TalkTop
<1>3. Accepted' = Range(peers')
  BY DEF Accepted, Range
<1> QED  BY <1>1, <1>2, <1>3

LEMMA AcceptedMore ==
    ASSUME TypeOK, NEW p \in Peers, TalkAccept(p)
    PROVE  \/ Accepted' = Accepted \cup {p} /\ life' = life
           \/ Accepted' = Accepted /\ life' = [life EXCEPT ![p] = "refused"]
<1>1. CASE peers' = Append(peers, p) /\ life' = life
  <2> DEFINE q == peers
             n == Len(peers)
  <2>1. q \in Seq(Peers) /\ n \in Nat /\ n = Len(q)
    BY DEF TypeOK
  <2>2. DOMAIN q = 1..n /\ DOMAIN Append(q, p) = (1..n) \cup {n + 1}
        /\ Append(q, p)[n + 1] = p /\ \A i \in 1..n : Append(q, p)[i] = q[i]
    <3> HIDE DEF q, n
    <3> QED  BY <2>1
  <2>3. {Append(q, p)[i] : i \in DOMAIN Append(q, p)} = {q[i] : i \in DOMAIN q} \cup {p}
    <3> HIDE DEF q, n
    <3> QED  BY <2>2
  <2> QED  BY <1>1, <2>3 DEF Accepted
<1>2. CASE peers' = peers /\ life' = [life EXCEPT ![p] = "refused"]
  BY <1>2, AcceptedSame
<1> QED  BY <1>1, <1>2 DEF TalkAccept

LEMMA RespondShape ==
    ASSUME TypeOK, NEW p \in Peers, NEW size \in Nat, Respond(p, size)
    PROVE  /\ done = 0
           /\ \A r \in Peers \ {p} :
                owing'[r] = owing[r] /\ wbuf'[r] = wbuf[r] /\ answered'[r] = answered[r]
           /\ owing'[p] = IF p \in Accepted /\ owing[p] > 0 THEN owing[p] - 1 ELSE owing[p]
           /\ IF p \in Accepted /\ p \notin failed
              THEN /\ wbuf'[p] = wbuf[p] \o [i \in 1..size |-> answered[p] + i]
                   /\ answered'[p] = answered[p] + size
              ELSE wbuf'[p] = wbuf[p] /\ answered'[p] = answered[p]
           /\ p \in Accepted => wake'
           /\ p \notin Accepted => UNCHANGED <<owing, wake, wbuf, answered>>
<1>1. owing \in [Peers -> Nat] /\ wbuf \in [Peers -> Seq(Nat)] /\ answered \in [Peers -> Nat]
  BY DEF TypeOK
<1>2. done = 0
  BY DEF Respond, LockFree
<1>3. CASE p \notin Accepted
  BY <1>1, <1>2, <1>3 DEF Respond
<1>4. CASE p \in Accepted
  <2>1. owing' = [owing EXCEPT ![p] = IF @ > 0 THEN @ - 1 ELSE @] /\ wake' = TRUE
    BY <1>4 DEF Respond, WakeTalkLoop
  <2>2. CASE p \in failed
    <3>1. wbuf' = wbuf /\ answered' = answered
      BY <2>2 DEF Respond
    <3> QED  BY <1>1, <1>2, <1>4, <2>1, <2>2, <3>1
  <2>3. CASE p \notin failed
    <3>1. wbuf' = [wbuf EXCEPT ![p] = wbuf[p] \o [i \in 1..size |-> answered[p] + i]]
          /\ answered' = [answered EXCEPT ![p] = @ + size]
      BY <1>4, <2>3 DEF Respond, Extended
    <3> QED  BY <1>1, <1>2, <1>4, <2>1, <2>3, <3>1
  <2> QED  BY <2>2, <2>3
<1> QED  BY <1>3, <1>4

(* The main thread handles a message: it answers now, or will later.       *)
HandleNow(p) == UNCHANGED later /\ \E size \in Nat : Respond(p, size)
HandleLater(p) == later' = [later EXCEPT ![p] = @ + 1] /\ UNCHANGED <<owing, wake, wbuf, answered>>

LEMMA HandleShape ==
    ASSUME TypeOK, MainHandle
    PROVE  /\ batch # <<>> /\ batch' = Tail(batch)
           /\ Head(batch) \in Message /\ Head(batch).peer \in Peers /\ Head(batch).body \in Seq(Nat)
           /\ told' = [told EXCEPT ![Head(batch).peer] = Append(@, Head(batch).body)]
           /\ HandleNow(Head(batch).peer) \/ HandleLater(Head(batch).peer)
           /\ UNCHANGED <<wire, peers, rbuf, finished, failed, msgs, turn, mainwake, shutting>>
<1> DEFINE m == Head(batch)
<1>1. m \in Message
  BY DEF MainHandle, TypeOK
<1>2. m.peer \in Peers /\ m.body \in Seq(Nat)
  BY <1>1 DEF Message
<1>3. HandleNow(m.peer) \/ HandleLater(m.peer)
  <2> HIDE DEF m
  <2>1. Answers \subseteq Nat /\ 0 \in Nat
    BY LimitsAssumption
  <2>2. \/ Respond(m.peer, 0) /\ UNCHANGED later
        \/ UNCHANGED later /\ \E size \in Answers : Respond(m.peer, size)
        \/ HandleLater(m.peer)
    BY Zenon DEF MainHandle, HandleLater, m
  <2> QED  BY <2>1, <2>2 DEF HandleNow
<1> QED  BY <1>1, <1>2, <1>3 DEF MainHandle

LEMMA LaterShape ==
    ASSUME NEW p \in Peers, MainAnswersLater(p)
    PROVE  /\ \E size \in Nat : Respond(p, size)
           /\ later[p] > 0 /\ later' = [later EXCEPT ![p] = @ - 1]
           /\ UNCHANGED <<wire, peers, rbuf, finished, failed, msgs, turn, batch, mainwake, shutting,
                          told>>
  BY LimitsAssumption DEF MainAnswersLater
-----------------------------------------------------------------------------
(* Who is served, and where each peer is.                                  *)

(* The talk thread stays where it is and the array of peers too.           *)
LEMMA ServingSame ==
    ASSUME ServingOK, UNCHANGED peers, UNCHANGED turn, done = 0 \/ UNCHANGED wbuf
    PROVE  ServingOK'
  BY AcceptedSame DEF ServingOK, turn

LEMMA NextServing == TypeOK /\ ServingOK /\ [Next]_vars => ServingOK'
<1> SUFFICES ASSUME TypeOK, ServingOK, [Next]_vars PROVE ServingOK'
  OBVIOUS
<1>1. CASE TalkTop
  <2>1. Accepted' = {p \in Accepted : ~Idle(p)}
    BY <1>1, AcceptedTop
  <2>2. pollin' \cup pollout' \subseteq {p \in Accepted : ~Idle(p)}
    BY <1>1 DEF TalkTop
  <2>3. tpc' = "poll" /\ done' = 0
    BY <1>1 DEF TalkTop, ServingOK
  <2> QED  BY <2>1, <2>2, <2>3 DEF ServingOK
<1>2. CASE TalkExit
  BY <1>2, AcceptedSame DEF TalkExit, ServingOK, shared
<1>3. CASE TalkPoll
  <2>1. First = None \/ First \in Accepted
    BY FirstIsAccepted DEF TypeOK
  <2>2. Accepted' = Accepted
    BY <1>3, AcceptedSame DEF TalkPoll, shared
  <2>3. ready' # {} => serving' \in Accepted
    BY <1>3, <2>1 DEF TalkPoll
  <2>4. tpc' = "accept" \/ (tpc' = "read" /\ "in" \in ready') \/ (tpc' = "send" /\ "out" \in ready') \/ tpc' = "top"
    BY <1>3 DEF TalkPoll, Serve
  <2>5. done' = 0 /\ pollin' = {} /\ pollout' = {}
    BY <1>3 DEF TalkPoll, ServingOK
  <2> QED  BY <2>2, <2>3, <2>4, <2>5 DEF ServingOK
<1>4. CASE TalkReadFails
  <2>1. done' = 0 /\ (tpc' = "top" \/ (tpc' = "send" /\ "out" \in ready'))
    BY <1>4 DEF TalkReadFails, AfterRead, ServingOK
  <2> QED  BY <1>4, <2>1, AcceptedSame DEF TalkReadFails, ServingOK
<1>5. CASE TalkReadEnds
  <2>1. done' = 0 /\ (tpc' = "top" \/ (tpc' = "send" /\ "out" \in ready'))
    BY <1>5 DEF TalkReadEnds, AfterRead, ServingOK
  <2> QED  BY <1>5, <2>1, AcceptedSame DEF TalkReadEnds, ServingOK
<1>6. CASE TalkDispatch
  <2>1. UNCHANGED <<peers, turn, wbuf>>
    BY <1>6 DEF TalkDispatch
  <2> QED  BY <2>1, ServingSame
<1>7. CASE TalkDispatched
  <2>1. done' = 0 /\ (tpc' = "top" \/ (tpc' = "send" /\ "out" \in ready'))
    BY <1>7 DEF TalkDispatched, AfterRead, ServingOK
  <2> QED  BY <1>7, <2>1, AcceptedSame DEF TalkDispatched, ServingOK, shared
<1>8. CASE TalkSend
  <2> DEFINE left == Len(wbuf[serving]) - done
             n == IF room[serving] < left THEN room[serving] ELSE left
  <2>1. Accepted' = Accepted
    BY <1>8, AcceptedSame DEF TalkSend
  <2>2. done' # 0 => tpc' = "send" /\ done' <= Len(wbuf'[serving])
    <3>1. serving \in Peers /\ wbuf[serving] \in Seq(Nat) /\ done \in 0..Len(wbuf[serving])
          /\ room[serving] \in Nat
      BY <1>8, SendFacts DEF TalkSend
    <3>2. done + n <= Len(wbuf[serving])
      BY <3>1
    <3>3. done' = 0 \/ (done' = done + n /\ UNCHANGED <<wbuf, tpc>>)
      BY <1>8, Zenon DEF TalkSend
    <3>4. tpc = "send"
      BY <1>8 DEF TalkSend
    <3> HIDE DEF n
    <3> QED  BY <3>2, <3>3, <3>4
  <2>3. UNCHANGED <<ready, serving, pollin, pollout>> /\ tpc = "send" /\ tpc' \in {"send", "top"}
    <3>1. UNCHANGED <<ready, serving, pollin, pollout>> /\ tpc = "send"
      BY <1>8 DEF TalkSend
    <3>2. tpc' = "top" \/ UNCHANGED <<wbuf, tpc>>
      BY <1>8, Zenon DEF TalkSend
    <3> QED  BY <3>1, <3>2
  <2> QED  BY <2>1, <2>2, <2>3 DEF ServingOK
<1>9. CASE TalkSendFails
  BY <1>9, AcceptedSame DEF TalkSendFails, ServingOK
<1>10. ASSUME NEW p \in Peers, TalkAccept(p) PROVE ServingOK'
  <2>1. Accepted \subseteq Accepted'
    BY <1>10, AcceptedMore
  <2>2. done' = 0
    BY <1>10 DEF TalkAccept, ServingOK
  <2>3. (tpc' = "read" /\ "in" \in ready') \/ (tpc' = "send" /\ "out" \in ready') \/ tpc' = "top"
    BY <1>10 DEF TalkAccept, Serve
  <2> QED  BY <1>10, <2>1, <2>2, <2>3 DEF TalkAccept, ServingOK
<1>11. ASSUME NEW n \in 1..ReadLimit, TalkRead(n) PROVE ServingOK'
  <2>1. done' = 0
    BY <1>11 DEF TalkRead, ServingOK
  <2> QED  BY <1>11, <2>1, AcceptedSame DEF TalkRead, ServingOK
<1>12. CASE MainTake
  <2>1. UNCHANGED <<peers, turn, wbuf>>
    BY <1>12 DEF MainTake
  <2> QED  BY <2>1, ServingSame
<1>13. CASE MainHandle
  <2>1. UNCHANGED <<peers, turn>>
    BY <1>13 DEF MainHandle
  <2>2. done = 0 \/ UNCHANGED wbuf
    BY <1>13, HandleShape DEF HandleNow, HandleLater, Respond, LockFree
  <2> QED  BY <2>1, <2>2, ServingSame
<1>14. ASSUME NEW p \in Peers, MainAnswersLater(p) PROVE ServingOK'
  <2>1. UNCHANGED <<peers, turn>> /\ done = 0
    BY <1>14 DEF MainAnswersLater, Respond, LockFree
  <2> QED  BY <2>1, ServingSame
<1>15. CASE MainShutdown
  <2>1. UNCHANGED <<peers, turn, wbuf>>
    BY <1>15 DEF MainShutdown, shared
  <2> QED  BY <2>1, ServingSame
<1>16. ASSUME NEW p \in Peers, PeerConnects(p) \/ PeerSends(p) \/ PeerReads(p) \/ PeerEnds(p) \/ PeerCloses(p)
       PROVE  ServingOK'
  <2>1. UNCHANGED <<peers, turn, wbuf>>
    BY <1>16 DEF PeerConnects, PeerSends, PeerReads, PeerEnds, PeerCloses, shared
  <2> QED  BY <2>1, ServingSame
<1>17. CASE UNCHANGED vars
  <2>1. UNCHANGED <<peers, turn, wbuf>>
    BY <1>17 DEF vars, shared
  <2> QED  BY <2>1, ServingSame
<1> QED
  BY <1>1, <1>2, <1>3, <1>4, <1>5, <1>6, <1>7, <1>8, <1>9, <1>10, <1>11, <1>12, <1>13, <1>14,
     <1>15, <1>16, <1>17 DEF Next, TalkThread, MainThread

(* PlacesOK for one peer, and what keeps it.                               *)
PlaceOK(p) ==
    /\ life[p] = "none" => p \notin backlog \cup Accepted
    /\ p \in backlog => p \notin Accepted
    /\ life[p] = "none" \/ p \in backlog => received[p] = <<>> /\ answered[p] = 0 /\ p \notin failed
    /\ wbuf[p] # <<>> => p \in Accepted

LEMMA PlaceSame ==
    ASSUME NEW p \in Peers, PlaceOK(p), UNCHANGED <<life, backlog, peers, failed>>,
           received'[p] = received[p] \/ p \in Accepted,
           answered'[p] = answered[p] \/ p \in Accepted,
           wbuf'[p] = wbuf[p] \/ p \in Accepted
    PROVE  PlaceOK(p)'
<1>1. Accepted' = Accepted
  BY AcceptedSame
<1> QED  BY <1>1 DEF PlaceOK

LEMMA PlaceResponded ==
    ASSUME TypeOK, NEW p \in Peers, PlaceOK(p), NEW r \in Peers, NEW size \in Nat, Respond(r, size),
           UNCHANGED <<life, backlog, peers, failed, received>>
    PROVE  PlaceOK(p)'
<1>1. wbuf'[p] = wbuf[p] \/ p \in Accepted
  BY RespondShape
<1>2. answered'[p] = answered[p] \/ p \in Accepted
  BY RespondShape
<1> QED  BY <1>1, <1>2, PlaceSame

LEMMA NextPlaces == TypeOK /\ ServingOK /\ PlacesOK /\ [Next]_vars => PlacesOK'
<1> SUFFICES ASSUME TypeOK, ServingOK, PlacesOK, [Next]_vars, NEW p \in Peers PROVE PlaceOK(p)'
  BY DEF PlacesOK, PlaceOK
<1>0. PlaceOK(p)
  BY DEF PlacesOK, PlaceOK
<1>1. CASE TalkTop
  <2>1. Accepted' = {r \in Accepted : ~Idle(r)}
    BY <1>1, AcceptedTop
  <2>2. UNCHANGED <<life, backlog, received, answered, failed, wbuf>>
    BY <1>1 DEF TalkTop, wire, main
  <2>3. wbuf[p] # <<>> => ~Idle(p)
    BY DEF Idle
  <2> QED  BY <1>0, <2>1, <2>2, <2>3 DEF PlaceOK
<1>2. CASE TalkExit \/ TalkPoll \/ TalkReadFails \/ TalkReadEnds \/ TalkDispatch \/ TalkDispatched
           \/ \E n \in 1..ReadLimit : TalkRead(n)
  <2>1. UNCHANGED <<life, backlog, peers, failed, received, answered, wbuf>>
    BY <1>2 DEF TalkExit, TalkPoll, TalkReadFails, TalkReadEnds, TalkDispatch, TalkDispatched,
                TalkRead, wire, shared, main
  <2> QED  BY <1>0, <2>1, PlaceSame
<1>3. CASE TalkSend
  <2>1. serving \in Peers /\ serving \in Accepted /\ received \in [Peers -> Seq(Nat)]
        /\ wbuf \in [Peers -> Seq(Nat)]
    BY <1>3, SendFacts DEF TalkSend, TypeOK
  <2>2. UNCHANGED <<life, backlog, peers, failed, answered>>
    BY <1>3 DEF TalkSend, main
  <2>3. p # serving => received'[p] = received[p] /\ wbuf'[p] = wbuf[p]
    BY <1>3, <2>1, Zenon DEF TalkSend
  <2> QED  BY <1>0, <2>1, <2>2, <2>3, PlaceSame
<1>4. CASE TalkSendFails
  <2>1. serving \in Peers /\ serving \in Accepted /\ wbuf \in [Peers -> Seq(Nat)]
    BY <1>4, SendFacts DEF TalkSendFails, TypeOK
  <2>2. UNCHANGED <<life, backlog, peers, received, answered>>
    BY <1>4 DEF TalkSendFails, wire, main
  <2>3. p # serving => wbuf'[p] = wbuf[p] /\ (p \in failed' => p \in failed)
    BY <1>4, <2>1 DEF TalkSendFails
  <2>4. Accepted' = Accepted
    BY <2>2, AcceptedSame
  <2> QED  BY <1>0, <2>1, <2>2, <2>3, <2>4 DEF PlaceOK
<1>5. ASSUME NEW r \in Peers, TalkAccept(r) PROVE PlaceOK(p)'
  <2>1. \/ Accepted' = Accepted \cup {r} /\ life' = life
        \/ Accepted' = Accepted /\ life' = [life EXCEPT ![r] = "refused"]
    BY <1>5, AcceptedMore
  <2>2. backlog' = backlog \ {r} /\ r \in backlog /\ UNCHANGED <<received, answered, failed, wbuf>>
    BY <1>5 DEF TalkAccept, main
  <2>3. life \in [Peers -> {"none", "open", "ended", "closed", "refused"}]
    BY DEF TypeOK
  <2>4. life'[p] = "none" => life[p] = "none" /\ (p = r => Accepted' = Accepted \cup {r})
    BY <2>1, <2>3
  <2>5. PlaceOK(r)
    BY DEF PlacesOK, PlaceOK
  <2> QED  BY <1>0, <2>1, <2>2, <2>4, <2>5 DEF PlaceOK
<1>6. CASE MainTake \/ MainShutdown
  <2>1. UNCHANGED <<life, backlog, peers, failed, received, answered, wbuf>>
    BY <1>6 DEF MainTake, MainShutdown, wire, shared
  <2> QED  BY <1>0, <2>1, PlaceSame
<1>7. CASE MainHandle
  <2> DEFINE r == Head(batch).peer
  <2>1. UNCHANGED <<life, backlog, peers, failed, received>> /\ r \in Peers
        /\ (HandleNow(r) \/ HandleLater(r))
    BY <1>7, HandleShape DEF wire
  <2> HIDE DEF r
  <2>2. CASE HandleNow(r)
    BY <1>0, <2>1, <2>2, PlaceResponded DEF HandleNow
  <2>3. CASE HandleLater(r)
    BY <1>0, <2>1, <2>3, PlaceSame DEF HandleLater
  <2> QED  BY <2>1, <2>2, <2>3
<1>8. ASSUME NEW r \in Peers, MainAnswersLater(r) PROVE PlaceOK(p)'
  <2>1. UNCHANGED <<life, backlog, peers, failed, received>> /\ \E size \in Nat : Respond(r, size)
    BY <1>8, LaterShape DEF wire
  <2> QED  BY <1>0, <2>1, PlaceResponded
<1>9. ASSUME NEW r \in Peers, PeerConnects(r) PROVE PlaceOK(p)'
  <2>1. life[r] = "none" /\ life' = [life EXCEPT ![r] = "open"] /\ backlog' = backlog \cup {r}
        /\ UNCHANGED <<peers, received, answered, failed, wbuf>>
    BY <1>9 DEF PeerConnects, shared, main
  <2>2. Accepted' = Accepted
    BY <2>1, AcceptedSame
  <2>3. PlaceOK(r) /\ life \in [Peers -> {"none", "open", "ended", "closed", "refused"}]
    BY DEF PlacesOK, PlaceOK, TypeOK
  <2> QED  BY <1>0, <2>1, <2>2, <2>3 DEF PlaceOK
<1>10. ASSUME NEW r \in Peers, PeerSends(r) \/ PeerReads(r) PROVE PlaceOK(p)'
  <2>1. UNCHANGED <<life, backlog, peers, failed, received, answered, wbuf>>
    BY <1>10 DEF PeerSends, PeerReads, shared, main
  <2> QED  BY <1>0, <2>1, PlaceSame
<1>11. ASSUME NEW r \in Peers, PeerEnds(r) \/ PeerCloses(r) PROVE PlaceOK(p)'
  <2>1. life' = [life EXCEPT ![r] = "ended"] \/ life' = [life EXCEPT ![r] = "closed"]
    BY <1>11 DEF PeerEnds, PeerCloses
  <2>2. UNCHANGED <<backlog, peers, received, answered, failed, wbuf>>
    BY <1>11 DEF PeerEnds, PeerCloses, shared, main
  <2>3. Accepted' = Accepted
    BY <2>2, AcceptedSame
  <2>4. life'[p] = "none" => life[p] = "none"
    BY <2>1 DEF TypeOK
  <2> QED  BY <1>0, <2>2, <2>3, <2>4 DEF PlaceOK
<1>12. CASE UNCHANGED vars
  <2>1. UNCHANGED <<life, backlog, peers, failed, received, answered, wbuf>>
    BY <1>12 DEF vars, wire, shared, main
  <2> QED  BY <1>0, <2>1, PlaceSame
<1> QED
  BY <1>1, <1>2, <1>3, <1>4, <1>5, <1>6, <1>7, <1>8, <1>9, <1>10, <1>11, <1>12
  DEF Next, TalkThread, MainThread
-----------------------------------------------------------------------------
(* The talk thread sleeps with its eyes on every answer.                   *)

LEMMA SleepsResponded ==
    ASSUME TypeOK, SleepsWatching, NEW p \in Peers, NEW size \in Nat, Respond(p, size),
           UNCHANGED <<tpc, shutting, peers, finished, pollout>>
    PROVE  SleepsWatching'
<1>1. Accepted' = Accepted
  BY AcceptedSame
<1>2. CASE p \in Accepted
  <2>1. wake'
    BY <1>2, RespondShape
  <2> QED  BY <2>1 DEF SleepsWatching
<1>3. CASE p \notin Accepted
  <2>1. UNCHANGED <<owing, wake, wbuf>>
    BY <1>3, RespondShape
  <2> QED  BY <1>1, <2>1 DEF SleepsWatching, Idle
<1> QED  BY <1>2, <1>3

LEMMA SleepsSame ==
    ASSUME SleepsWatching, UNCHANGED <<tpc, shutting, peers, finished, pollout, owing, wbuf, wake>>
    PROVE  SleepsWatching'
<1>1. Accepted' = Accepted
  BY AcceptedSame
<1> QED  BY <1>1 DEF SleepsWatching, Idle

LEMMA NextSleeps == TypeOK /\ SleepsWatching /\ [Next]_vars => SleepsWatching'
<1> SUFFICES ASSUME TypeOK, SleepsWatching, [Next]_vars PROVE SleepsWatching'
  OBVIOUS
<1>1. CASE TalkTop
  <2>1. Accepted' = {p \in Accepted : ~Idle(p)}
    BY <1>1, AcceptedTop
  <2>2. ~shutting /\ UNCHANGED <<shutting, finished, owing, wbuf>>
        /\ pollout' = {p \in Accepted : ~Idle(p) /\ wbuf[p] # <<>>}
    BY <1>1 DEF TalkTop, main
  <2>3. \A p : Idle(p)' <=> Idle(p)
    BY <2>2 DEF Idle
  <2> QED  BY <2>1, <2>2, <2>3 DEF SleepsWatching
<1>2. CASE TalkExit
  BY <1>2 DEF TalkExit, SleepsWatching
<1>3. CASE TalkPoll
  BY <1>3 DEF TalkPoll, Serve, SleepsWatching
<1>4. CASE TalkReadFails \/ TalkReadEnds \/ TalkDispatched
  <2>1. tpc' # "poll"
    BY <1>4 DEF TalkReadFails, TalkReadEnds, TalkDispatched, AfterRead
  <2> QED  BY <2>1 DEF SleepsWatching
<1>5. CASE TalkDispatch \/ TalkSend \/ TalkSendFails \/ \E n \in 1..ReadLimit : TalkRead(n)
  <2>1. CASE TalkSend
    <3>1. tpc = "send" /\ (tpc' = "top" \/ UNCHANGED <<wbuf, tpc>>)
      BY <2>1, Zenon DEF TalkSend
    <3> QED  BY <3>1 DEF SleepsWatching
  <2>2. CASE TalkDispatch
    BY <2>2 DEF TalkDispatch, SleepsWatching, turn
  <2>3. CASE TalkSendFails
    BY <2>3 DEF TalkSendFails, SleepsWatching
  <2>4. CASE \E n \in 1..ReadLimit : TalkRead(n)
    BY <2>4 DEF TalkRead, SleepsWatching
  <2> QED  BY <1>5, <2>1, <2>2, <2>3, <2>4
<1>6. ASSUME NEW p \in Peers, TalkAccept(p) PROVE SleepsWatching'
  BY <1>6 DEF TalkAccept, Serve, SleepsWatching
<1>7. CASE MainTake
  <2>1. UNCHANGED <<tpc, shutting, peers, finished, pollout, owing, wbuf, wake>>
    BY <1>7 DEF MainTake, turn
  <2> QED  BY <2>1, SleepsSame
<1>8. CASE MainHandle
  <2> DEFINE r == Head(batch).peer
  <2>1. UNCHANGED <<tpc, shutting, peers, finished, pollout>> /\ r \in Peers
        /\ (HandleNow(r) \/ HandleLater(r))
    BY <1>8, HandleShape DEF turn
  <2> HIDE DEF r
  <2>2. CASE HandleNow(r)
    BY <2>1, <2>2, SleepsResponded DEF HandleNow
  <2>3. CASE HandleLater(r)
    BY <2>1, <2>3, SleepsSame DEF HandleLater
  <2> QED  BY <2>1, <2>2, <2>3
<1>9. ASSUME NEW p \in Peers, MainAnswersLater(p) PROVE SleepsWatching'
  <2>1. UNCHANGED <<tpc, shutting, peers, finished, pollout>> /\ \E size \in Nat : Respond(p, size)
    BY <1>9, LaterShape DEF turn
  <2> QED  BY <2>1, SleepsResponded
<1>10. CASE MainShutdown
  BY <1>10 DEF MainShutdown, WakeTalkLoop, SleepsWatching
<1>11. ASSUME NEW p \in Peers, PeerConnects(p) \/ PeerSends(p) \/ PeerReads(p) \/ PeerEnds(p) \/ PeerCloses(p)
       PROVE  SleepsWatching'
  <2>1. UNCHANGED <<tpc, shutting, peers, finished, pollout, owing, wbuf, wake>>
    BY <1>11 DEF PeerConnects, PeerSends, PeerReads, PeerEnds, PeerCloses, shared, turn, main
  <2> QED  BY <2>1, SleepsSame
<1>12. CASE UNCHANGED vars
  <2>1. UNCHANGED <<tpc, shutting, peers, finished, pollout, owing, wbuf, wake>>
    BY <1>12 DEF vars, shared, turn, main
  <2> QED  BY <2>1, SleepsSame
<1> QED
  BY <1>1, <1>2, <1>3, <1>4, <1>5, <1>6, <1>7, <1>8, <1>9, <1>10, <1>11, <1>12
  DEF Next, TalkThread, MainThread
-----------------------------------------------------------------------------
(* The counter of a peer.                                                  *)

Owed(p) == owing[p] = Waiting(msgs, p) + Waiting(batch, p) + later[p] /\ (owing[p] > 0 => p \in Accepted)

LEMMA OwedIsOwed == OwedPeerStays <=> \A p \in Peers : Owed(p)
  BY DEF OwedPeerStays, Owed

LEMMA OwedSame ==
    ASSUME NEW p \in Peers, Owed(p), UNCHANGED <<owing, msgs, batch, later>>,
           p \in Accepted => p \in Accepted'
    PROVE  Owed(p)'
  BY DEF Owed

LEMMA OwedTypes ==
    ASSUME TypeOK, NEW p \in Peers
    PROVE  /\ Waiting(msgs, p) \in Nat /\ Waiting(batch, p) \in Nat
           /\ later[p] \in Nat /\ owing[p] \in Nat /\ Len(told[p]) \in Nat
<1> DEFINE q == msgs
           r == batch
<1>1. q \in Seq(Message) /\ r \in Seq(Message)
  BY DEF TypeOK
<1>2. Waiting(q, p) \in Nat /\ Waiting(r, p) \in Nat
  <2> HIDE DEF q, r
  <2> QED  BY <1>1, WaitingIsCount
<1>3. later[p] \in Nat /\ owing[p] \in Nat /\ told[p] \in Seq(Seq(Nat))
  BY DEF TypeOK
<1> QED  BY <1>2, <1>3

(* queue_peer_message() and its effect on the counts.                      *)
LEMMA QueueShape ==
    ASSUME TypeOK, NEW r \in Peers, NEW body \in Seq(Nat), Queue(r, body)
    PROVE  /\ msgs' = Append(msgs, [peer |-> r, body |-> body])
           /\ [peer |-> r, body |-> body] \in Message
           /\ \A p \in Peers :
                /\ Waiting(msgs', p) = Waiting(msgs, p) + (IF p = r THEN 1 ELSE 0)
                /\ owing'[p] = owing[p] + (IF p = r THEN 1 ELSE 0)
<1> DEFINE q == msgs
           q2 == msgs'
           m == [peer |-> r, body |-> body]
<1>1. m \in Message /\ m.peer = r /\ q \in Seq(Message) /\ q2 = Append(q, m)
  BY DEF Message, TypeOK, Queue
<1>2. ASSUME NEW p \in Peers PROVE Waiting(q2, p) = Waiting(q, p) + (IF p = r THEN 1 ELSE 0)
  <2> HIDE DEF q, q2, m
  <2>1. Waiting(q2, p) = Waiting(q, p) + One(m, p)
    BY <1>1, WaitingAdded
  <2>2. One(m, p) = IF p = r THEN 1 ELSE 0
    BY <1>1 DEF One
  <2> QED  BY <2>1, <2>2
<1>3. ASSUME NEW p \in Peers PROVE owing'[p] = owing[p] + (IF p = r THEN 1 ELSE 0)
  <2>1. owing \in [Peers -> Nat] /\ owing' = [owing EXCEPT ![r] = @ + 1]
    BY DEF TypeOK, Queue
  <2> QED  BY <2>1
<1> QED  BY <1>1, <1>2, <1>3

LEMMA OwedQueued ==
    ASSUME TypeOK, NEW p \in Peers, Owed(p), NEW r \in Peers, r \in Accepted, NEW body \in Seq(Nat),
           Queue(r, body), UNCHANGED <<batch, later, peers>>
    PROVE  Owed(p)'
<1>1. Accepted' = Accepted
  BY AcceptedSame
<1>2. /\ Waiting(msgs', p) = Waiting(msgs, p) + (IF p = r THEN 1 ELSE 0)
      /\ owing'[p] = owing[p] + (IF p = r THEN 1 ELSE 0)
  BY QueueShape
<1>3. Waiting(msgs, p) \in Nat /\ Waiting(batch, p) \in Nat /\ later[p] \in Nat /\ owing[p] \in Nat
  BY OwedTypes
<1>4. Waiting(msgs, p)' = Waiting(msgs', p) /\ Waiting(batch, p)' = Waiting(batch, p)
  BY DEF Waiting
<1>5. CASE p = r
  BY <1>1, <1>2, <1>3, <1>4, <1>5 DEF Owed
<1>6. CASE p # r
  BY <1>1, <1>2, <1>3, <1>4, <1>6 DEF Owed
<1> QED  BY <1>5, <1>6

(* One less is to be done for r, and r is answered.                        *)
LEMMA OwedAnswered ==
    ASSUME TypeOK, NEW p \in Peers, Owed(p), NEW r \in Peers, NEW size \in Nat, Respond(r, size),
           UNCHANGED peers,
           Waiting(msgs', p) + Waiting(batch', p) + later'[p]
             = Waiting(msgs, p) + Waiting(batch, p) + later[p] - (IF p = r THEN 1 ELSE 0),
           p = r => Waiting(msgs, p) + Waiting(batch, p) + later[p] > 0
    PROVE  Owed(p)'
<1>1. Accepted' = Accepted
  BY AcceptedSame
<1>2. owing'[p] = IF p = r /\ p \in Accepted /\ owing[p] > 0 THEN owing[p] - 1 ELSE owing[p]
  <2>1. CASE p = r
    BY <2>1, RespondShape
  <2>2. CASE p # r
    BY <2>2, RespondShape
  <2> QED  BY <2>1, <2>2
<1>3. Waiting(msgs, p) \in Nat /\ Waiting(batch, p) \in Nat /\ later[p] \in Nat /\ owing[p] \in Nat
  BY OwedTypes
<1>4. Waiting(msgs, p)' = Waiting(msgs', p) /\ Waiting(batch, p)' = Waiting(batch', p)
  BY DEF Waiting
<1>5. CASE p = r
  <2>1. owing[p] > 0 /\ p \in Accepted
    BY <1>5 DEF Owed
  <2> QED  BY <1>1, <1>2, <1>3, <1>4, <1>5, <2>1 DEF Owed
<1>6. CASE p # r
  BY <1>1, <1>2, <1>3, <1>4, <1>6 DEF Owed
<1> QED  BY <1>5, <1>6

LEMMA BatchTaken ==
    ASSUME TypeOK, MainHandle, NEW p \in Peers
    PROVE  Waiting(batch, p) = Waiting(batch', p) + (IF p = Head(batch).peer THEN 1 ELSE 0)
           /\ Waiting(batch', p) \in Nat
<1> DEFINE q == batch
           q2 == batch'
<1>1. q \in Seq(Message) /\ q # <<>> /\ q2 = Tail(q)
  BY HandleShape DEF TypeOK
<1>2. Waiting(q, p) = Waiting(q2, p) + (IF p = Head(q).peer THEN 1 ELSE 0) /\ Waiting(q2, p) \in Nat
  <2> HIDE DEF q, q2
  <2>1. Waiting(q, p) = Waiting(q2, p) + One(Head(q), p)
    BY <1>1, WaitingTaken
  <2>2. q2 \in Seq(Message)
    BY <1>1
  <2> QED  BY <2>1, <2>2, WaitingIsCount DEF One
<1> QED  BY <1>2

LEMMA NextOwed == TypeOK /\ ServingOK /\ OwedPeerStays /\ [Next]_vars => OwedPeerStays'
<1> SUFFICES ASSUME TypeOK, ServingOK, OwedPeerStays, [Next]_vars, NEW p \in Peers PROVE Owed(p)'
  BY OwedIsOwed DEF OwedPeerStays, Owed
<1>0. Owed(p)
  BY OwedIsOwed
<1>00. tpc \in {"read", "dispatch"} => serving \in Peers /\ serving \in Accepted
  BY ServedIsPeer
<1>1. CASE TalkTop
  <2>1. Accepted' = {r \in Accepted : ~Idle(r)}
    BY <1>1, AcceptedTop
  <2>2. UNCHANGED <<owing, msgs, batch, later>>
    BY <1>1 DEF TalkTop, main
  <2>3. owing[p] > 0 => ~Idle(p)
    BY DEF Idle
  <2> QED  BY <1>0, <2>1, <2>2, <2>3 DEF Owed
<1>2. CASE TalkExit \/ TalkPoll \/ TalkReadFails \/ TalkDispatched \/ TalkSend \/ TalkSendFails
           \/ \E n \in 1..ReadLimit : TalkRead(n)
  <2>1. UNCHANGED <<owing, msgs, batch, later, peers>>
    BY <1>2 DEF TalkExit, TalkPoll, TalkReadFails, TalkDispatched, TalkSend, TalkSendFails, TalkRead,
                shared, main
  <2> QED  BY <1>0, <2>1, AcceptedSame, OwedSame
<1>3. CASE TalkReadEnds
  <2>1. UNCHANGED <<batch, later, peers>> /\ Queue(serving, rbuf[serving])
        /\ serving \in Peers /\ serving \in Accepted
    BY <1>00, <1>3 DEF TalkReadEnds
  <2> DEFINE r == serving
             body == rbuf[serving]
  <2>2. r \in Peers /\ r \in Accepted /\ body \in Seq(Nat) /\ Queue(r, body)
    BY <2>1 DEF TypeOK
  <2> HIDE DEF r, body
  <2> QED  BY <1>0, <2>1, <2>2, OwedQueued
<1>4. CASE TalkDispatch
  <2> DEFINE r == serving
             end == Min(CommandEnds(serving))
             body == SubSeq(rbuf[serving], 1, end)
  <2>1. UNCHANGED <<batch, later, peers>> /\ Queue(r, body) /\ r \in Peers /\ r \in Accepted
    BY <1>00, <1>4 DEF TalkDispatch
  <2>2. body \in Seq(Nat)
    BY <1>4, DispatchFacts
  <2> HIDE DEF r, body
  <2> QED  BY <1>0, <2>1, <2>2, OwedQueued
<1>5. ASSUME NEW r \in Peers, TalkAccept(r) PROVE Owed(p)'
  <2>1. UNCHANGED <<owing, msgs, batch, later>>
    BY <1>5 DEF TalkAccept, main
  <2>2. Accepted \subseteq Accepted'
    BY <1>5, AcceptedMore
  <2> QED  BY <1>0, <2>1, <2>2, OwedSame
<1>6. CASE MainTake
  <2>1. batch = <<>> /\ msgs' = <<>> /\ batch' = msgs /\ UNCHANGED <<owing, later, peers>>
    BY <1>6 DEF MainTake
  <2>2. Waiting(batch, p) = 0 /\ Waiting(msgs, p)' = 0 /\ Waiting(batch, p)' = Waiting(msgs, p)
    BY <2>1, WaitingNone DEF Waiting
  <2>3. Accepted' = Accepted
    BY <2>1, AcceptedSame
  <2> QED  BY <1>0, <2>1, <2>2, <2>3, OwedTypes DEF Owed
<1>7. CASE MainHandle
  <2> DEFINE r == Head(batch).peer
  <2>1. UNCHANGED <<msgs, peers>> /\ r \in Peers /\ (HandleNow(r) \/ HandleLater(r))
    BY <1>7, HandleShape
  <2>2. Waiting(batch, p) = Waiting(batch', p) + (IF p = r THEN 1 ELSE 0) /\ Waiting(batch', p) \in Nat
    BY <1>7, BatchTaken
  <2>3. Waiting(msgs', p) = Waiting(msgs, p) /\ Waiting(msgs, p) \in Nat /\ later[p] \in Nat
    BY <2>1, OwedTypes
  <2> HIDE DEF r
  <2>4. CASE HandleNow(r)
    <3>1. PICK size \in Nat : Respond(r, size)
      BY <2>4 DEF HandleNow
    <3>2. later'[p] = later[p]
      BY <2>4 DEF HandleNow
    <3>3. Waiting(msgs', p) + Waiting(batch', p) + later'[p]
             = Waiting(msgs, p) + Waiting(batch, p) + later[p] - (IF p = r THEN 1 ELSE 0)
      BY <2>2, <2>3, <3>2
    <3>4. p = r => Waiting(msgs, p) + Waiting(batch, p) + later[p] > 0
      BY <2>2, <2>3
    <3> QED  BY <1>0, <2>1, <3>1, <3>3, <3>4, OwedAnswered
  <2>5. CASE HandleLater(r)
    <3>1. later \in [Peers -> Nat]
      BY DEF TypeOK
    <3>2. later'[p] = later[p] + (IF p = r THEN 1 ELSE 0) /\ UNCHANGED owing
      BY <2>1, <2>5, <3>1 DEF HandleLater
    <3>3. Accepted' = Accepted
      BY <2>1, AcceptedSame
    <3>4. Waiting(msgs, p)' = Waiting(msgs', p) /\ Waiting(batch, p)' = Waiting(batch', p)
      BY DEF Waiting
    <3> QED  BY <1>0, <2>2, <2>3, <3>2, <3>3, <3>4 DEF Owed
  <2> QED  BY <2>1, <2>4, <2>5
<1>8. ASSUME NEW r \in Peers, MainAnswersLater(r) PROVE Owed(p)'
  <2>1. PICK size \in Nat : Respond(r, size)
    BY <1>8, LaterShape
  <2>2. UNCHANGED <<msgs, batch, peers>> /\ later[r] > 0 /\ later' = [later EXCEPT ![r] = @ - 1]
    BY <1>8, LaterShape
  <2>3. later \in [Peers -> Nat]
    BY DEF TypeOK
  <2>4. Waiting(msgs, p) \in Nat /\ Waiting(batch, p) \in Nat /\ later[p] \in Nat
    BY OwedTypes
  <2>5. later'[p] = later[p] - (IF p = r THEN 1 ELSE 0) /\ (p = r => later[p] > 0)
    BY <2>2, <2>3
  <2>6. Waiting(msgs', p) = Waiting(msgs, p) /\ Waiting(batch', p) = Waiting(batch, p)
    BY <2>2
  <2> QED  BY <1>0, <2>1, <2>2, <2>4, <2>5, <2>6, OwedAnswered
<1>9. CASE MainShutdown
  <2>1. UNCHANGED <<owing, msgs, batch, later, peers>>
    BY <1>9 DEF MainShutdown, shared
  <2> QED  BY <1>0, <2>1, AcceptedSame, OwedSame
<1>10. ASSUME NEW r \in Peers, PeerConnects(r) \/ PeerSends(r) \/ PeerReads(r) \/ PeerEnds(r) \/ PeerCloses(r)
       PROVE  Owed(p)'
  <2>1. UNCHANGED <<owing, msgs, batch, later, peers>>
    BY <1>10 DEF PeerConnects, PeerSends, PeerReads, PeerEnds, PeerCloses, shared, main
  <2> QED  BY <1>0, <2>1, AcceptedSame, OwedSame
<1>11. CASE UNCHANGED vars
  <2>1. UNCHANGED <<owing, msgs, batch, later, peers>>
    BY <1>11 DEF vars, shared, main
  <2> QED  BY <1>0, <2>1, AcceptedSame, OwedSame
<1> QED
  BY <1>1, <1>2, <1>3, <1>4, <1>5, <1>6, <1>7, <1>8, <1>9, <1>10, <1>11
  DEF Next, TalkThread, MainThread
-----------------------------------------------------------------------------
(* The messages of a peer, from the queue to the main thread.              *)

LEMMA FitsLonger ==
    ASSUME NEW fin, NEW fin2, fin \subseteq fin2, NEW p, NEW n, NEW body, Fits(fin, p, n, body)
    PROVE  Fits(fin2, p, n, body)
  BY DEF Fits

LEMMA OrderedLonger ==
    ASSUME NEW fin, NEW fin2, fin \subseteq fin2, NEW q, NEW p, NEW n, Ordered(fin, q, p, n)
    PROVE  Ordered(fin2, q, p, n)
  BY FitsLonger DEF Ordered

LEMMA ToldLonger ==
    ASSUME NEW fin, NEW fin2, fin \subseteq fin2, NEW t, NEW p, AllTold(fin, t, p)
    PROVE  AllTold(fin2, t, p)
  BY FitsLonger DEF AllTold

LEMMA OrderedAdded ==
    ASSUME NEW fin, NEW q \in Seq(Message), NEW m \in Message, NEW p, NEW n \in Nat,
           Ordered(fin, q, p, n),
           m.peer = p => Fits(fin, p, n + Waiting(q, p) + 1, m.body)
    PROVE  Ordered(fin, Append(q, m), p, n)
<1> DEFINE r == Append(q, m)
           k == Len(q)
<1>1. /\ \A i \in 1..k : UpTo(r, p, i) = UpTo(q, p, i)
      /\ UpTo(r, p, k + 1) = Waiting(q, p) + One(m, p)
  BY WaitingAdded
<1>2. k \in Nat /\ DOMAIN q = 1..k /\ DOMAIN r = 1..(k + 1) /\ r[k + 1] = m /\ \A i \in 1..k : r[i] = q[i]
  OBVIOUS
<1> HIDE DEF r, k
<1>3. ASSUME NEW i \in 1..k, r[i].peer = p PROVE Fits(fin, p, n + UpTo(r, p, i), r[i].body)
  <2>1. q[i].peer = p /\ i \in DOMAIN q
    BY <1>2, <1>3
  <2>2. Fits(fin, p, n + UpTo(q, p, i), q[i].body)
    BY <2>1 DEF Ordered
  <2> QED  BY <1>1, <1>2, <2>2
<1>4. ASSUME m.peer = p PROVE Fits(fin, p, n + UpTo(r, p, k + 1), m.body)
  <2>1. One(m, p) = 1 /\ Waiting(q, p) \in Nat
    BY <1>4, WaitingIsCount DEF One
  <2>2. n + UpTo(r, p, k + 1) = n + Waiting(q, p) + 1
    BY <1>1, <2>1
  <2> QED  BY <1>4, <2>2
<1>5. ASSUME NEW i \in DOMAIN r, r[i].peer = p PROVE Fits(fin, p, n + UpTo(r, p, i), r[i].body)
  <2>1. i \in 1..k \/ i = k + 1
    BY <1>2
  <2> QED  BY <1>2, <1>3, <1>4, <1>5, <2>1
<1> QED  BY <1>5 DEF r, Ordered

LEMMA OrderedTaken ==
    ASSUME NEW fin, NEW q \in Seq(Message), q # <<>>, NEW p, NEW n \in Nat, Ordered(fin, q, p, n)
    PROVE  /\ Ordered(fin, Tail(q), p, n + One(Head(q), p))
           /\ Head(q).peer = p => Fits(fin, p, n + 1, Head(q).body)
<1> DEFINE r == Tail(q)
           k == Len(Tail(q))
           h == One(Head(q), p)
<1>1. \A i \in 0..k : UpTo(q, p, i + 1) = UpTo(r, p, i) + h
  BY WaitingTaken
<1>2. k \in Nat /\ DOMAIN q = 1..(k + 1) /\ DOMAIN r = 1..k /\ q[1] = Head(q) /\ \A i \in 1..k : r[i] = q[i + 1]
  OBVIOUS
<1>3. h \in Nat /\ (Head(q).peer = p => h = 1)
  BY DEF One
<1> HIDE DEF r, k, h
<1>4. ASSUME NEW i \in DOMAIN r, r[i].peer = p PROVE Fits(fin, p, (n + h) + UpTo(r, p, i), r[i].body)
  <2>1. i \in 1..k /\ i \in 0..k /\ i \in Nat /\ i + 1 \in DOMAIN q /\ q[i + 1].peer = p
    BY <1>2, <1>4
  <2>2. Fits(fin, p, n + UpTo(q, p, i + 1), q[i + 1].body)
    BY <2>1 DEF Ordered
  <2>3. n + UpTo(q, p, i + 1) = (n + h) + UpTo(r, p, i)
    <3>1. UpTo(r, p, i) \in Nat
      BY <2>1, CountIsNat
    <3> QED  BY <1>1, <1>3, <2>1, <3>1
  <2> QED  BY <1>2, <2>1, <2>2, <2>3
<1>5. ASSUME Head(q).peer = p PROVE Fits(fin, p, n + 1, Head(q).body)
  <2>1. 1 \in DOMAIN q /\ q[1].peer = p
    BY <1>2, <1>5
  <2>2. Fits(fin, p, n + UpTo(q, p, 1), q[1].body)
    BY <2>1 DEF Ordered
  <2>3. UpTo(q, p, 1) = 1
    <3>1. UpTo(q, p, 0 + 1) = UpTo(r, p, 0) + h
      BY <1>1, <1>2
    <3> QED  BY <1>3, <1>5, <3>1, CountNone
  <2> QED  BY <1>2, <2>2, <2>3
<1>6. Ordered(fin, r, p, n + h)
  BY <1>4 DEF Ordered
<1> QED  BY <1>5, <1>6 DEF r, h

LEMMA OrderedNone ==
    ASSUME NEW fin, NEW p, NEW n
    PROVE  Ordered(fin, <<>>, p, n)
  BY DEF Ordered

LEMMA ToldAdded ==
    ASSUME NEW fin, NEW t \in Seq(Seq(Nat)), NEW b \in Seq(Nat), NEW p,
           AllTold(fin, t, p), Fits(fin, p, Len(t) + 1, b)
    PROVE  AllTold(fin, Append(t, b), p)
<1> DEFINE u == Append(t, b)
           k == Len(t)
<1>1. k \in Nat /\ DOMAIN t = 1..k /\ DOMAIN u = 1..(k + 1) /\ u[k + 1] = b /\ \A i \in 1..k : u[i] = t[i]
  OBVIOUS
<1>2. Fits(fin, p, k + 1, b)
  OBVIOUS
<1> HIDE DEF u, k
<1>3. ASSUME NEW i \in DOMAIN u PROVE Fits(fin, p, i, u[i])
  <2>1. i \in 1..k \/ i = k + 1
    BY <1>1
  <2>2. CASE i \in 1..k
    BY <1>1, <2>2 DEF AllTold
  <2> QED  BY <1>1, <1>2, <2>1, <2>2
<1> QED  BY <1>3 DEF AllTold, u
-----------------------------------------------------------------------------
(* The stream of a peer, from the peer to the queue.                       *)
Ends(r) == {i \in DOMAIN r : r[i] % 2 = 0}

LEMMA FlowSent ==
    ASSUME NEW n \in Nat, NEW r \in Seq(Nat), NEW s \in Seq(Nat), NEW k \in Nat, Flowing(n, r, s, k)
    PROVE  Flowing(n, r, Append(s, k + 1), k + 1)
<1> DEFINE t == Append(s, k + 1)
<1>1. Len(r) \in Nat /\ Len(s) \in Nat /\ DOMAIN s = 1..Len(s) /\ DOMAIN t = 1..(Len(s) + 1)
      /\ Len(t) = Len(s) + 1 /\ t[Len(s) + 1] = k + 1 /\ \A i \in 1..Len(s) : t[i] = s[i]
  OBVIOUS
<1> HIDE DEF t
<1>2. k = 2 * n + Len(r) + Len(s) /\ \A i \in 1..Len(s) : s[i] = 2 * n + Len(r) + i
  BY <1>1 DEF Flowing
<1>3. ASSUME NEW i \in DOMAIN t PROVE t[i] = 2 * n + Len(r) + i
  <2>1. i \in 1..Len(s) \/ i = Len(s) + 1
    BY <1>1
  <2>2. CASE i \in 1..Len(s)
    BY <1>1, <1>2, <2>2
  <2>3. CASE i = Len(s) + 1
    <3>1. t[i] = k + 1
      BY <1>1, <2>3
    <3> QED  BY <1>1, <1>2, <2>3, <3>1
  <2> QED  BY <2>1, <2>2, <2>3
<1>4. k + 1 = 2 * n + Len(r) + Len(t)
  BY <1>1, <1>2
<1>5. \A i \in DOMAIN r : r[i] = 2 * n + i
  BY DEF Flowing
<1> QED  BY <1>3, <1>4, <1>5 DEF Flowing, t

LEMMA FlowRead ==
    ASSUME NEW n \in Nat, NEW r \in Seq(Nat), NEW s \in Seq(Nat), NEW k \in Nat, Flowing(n, r, s, k),
           NEW j \in 1..Len(s)
    PROVE  Flowing(n, r \o SubSeq(s, 1, j), SubSeq(s, j + 1, Len(s)), k)
<1> DEFINE a == SubSeq(s, 1, j)
           b == SubSeq(s, j + 1, Len(s))
           c == r \o a
           x == Len(r)
           y == Len(s)
<1>1. j \in 0..y /\ y \in Nat /\ x \in Nat /\ j \in Nat /\ 1 <= j /\ j <= y
  OBVIOUS
<1>2. a \in Seq(Nat) /\ Len(a) = j /\ b \in Seq(Nat) /\ Len(b) = y - j
      /\ (\A i \in 1..j : a[i] = s[i]) /\ (\A i \in 1..(y - j) : b[i] = s[j + i])
  <2>1. a \in Seq(Nat) /\ Len(a) = j /\ \A i \in 1..j : a[i] = s[i]
    BY <1>1, CutFront
  <2>2. b \in Seq(Nat) /\ Len(b) = y - j /\ \A i \in 1..(y - j) : b[i] = s[j + i]
    BY <1>1, CutRest
  <2> QED  BY <2>1, <2>2
<1> HIDE DEF a, b
<1>3. c \in Seq(Nat) /\ Len(c) = x + Len(a)
      /\ \A i \in 1..(x + Len(a)) : c[i] = IF i <= x THEN r[i] ELSE a[i - x]
  BY <1>2, ConcatProperties
<1>31. DOMAIN c = 1..(x + j)
  BY <1>2, <1>3
<1>4. DOMAIN r = 1..x /\ DOMAIN s = 1..y /\ DOMAIN b = 1..(y - j)
  BY <1>2
<1>5. /\ \A i \in 1..x : r[i] = 2 * n + i
      /\ \A i \in 1..y : s[i] = 2 * n + x + i
      /\ k = 2 * n + x + y
  BY <1>4 DEF Flowing
<1> HIDE DEF c, x, y
<1>6. ASSUME NEW i \in DOMAIN c PROVE c[i] = 2 * n + i
  <2>1. i \in Nat /\ 1 <= i /\ i <= x + j
    BY <1>1, <1>31
  <2>2. c[i] = IF i <= x THEN r[i] ELSE a[i - x]
    BY <1>2, <1>3, <1>31
  <2>3. CASE i <= x
    <3>1. i \in 1..x
      BY <1>1, <2>1, <2>3
    <3> QED  BY <1>5, <2>2, <2>3, <3>1
  <2>4. CASE ~(i <= x)
    <3>1. i - x \in 1..j
      <4>1. i - x \in Int /\ 1 <= i - x /\ i - x <= j
        BY <1>1, <2>1, <2>4
      <4> QED  BY <1>1, <4>1
    <3>2. i - x \in 1..y
      BY <1>1, <3>1
    <3>3. c[i] = s[i - x]
      BY <1>2, <2>2, <2>4, <3>1
    <3>4. s[i - x] = 2 * n + x + (i - x)
      BY <1>5, <3>2
    <3>5. 2 * n + x + (i - x) = 2 * n + i
      BY <1>1, <2>1
    <3> QED  BY <3>3, <3>4, <3>5
  <2> QED  BY <2>3, <2>4
<1>7. ASSUME NEW i \in DOMAIN b PROVE b[i] = 2 * n + Len(c) + i
  <2>1. i \in 1..(y - j)
    BY <1>4
  <2>2. i \in Nat /\ j + i \in 1..y
    BY <1>1, <2>1
  <2>3. b[i] = s[j + i] /\ s[j + i] = 2 * n + x + (j + i)
    BY <1>2, <1>5, <2>1, <2>2
  <2>4. Len(c) = x + j
    BY <1>2, <1>3
  <2>5. 2 * n + x + (j + i) = 2 * n + (x + j) + i
    BY <1>1, <2>2
  <2> QED  BY <2>3, <2>4, <2>5
<1>8. k = 2 * n + Len(c) + Len(b)
  BY <1>1, <1>2, <1>3, <1>5
<1>9. Flowing(n, c, b, k)
  BY <1>6, <1>7, <1>8 DEF Flowing
<1> QED  BY <1>9 DEF a, b, c

(* The first command in the read buffer is its first two tokens.           *)
LEMMA FlowDispatched ==
    ASSUME NEW n \in Nat, NEW r \in Seq(Nat), NEW s \in Seq(Nat), NEW k \in Nat, Flowing(n, r, s, k),
           NEW e \in Ends(r), \A i \in Ends(r) : e <= i
    PROVE  /\ SubSeq(r, 1, e) = <<2 * (n + 1) - 1, 2 * (n + 1)>>
           /\ Flowing(n + 1, SubSeq(r, e + 1, Len(r)), s, k)
<1>1. DOMAIN r = 1..Len(r) /\ Len(r) \in Nat /\ Len(s) \in Nat /\ DOMAIN s = 1..Len(s)
  OBVIOUS
<1>2. /\ \A i \in 1..Len(r) : r[i] = 2 * n + i
      /\ \A i \in 1..Len(s) : s[i] = 2 * n + Len(r) + i
      /\ k = 2 * n + Len(r) + Len(s)
  BY <1>1 DEF Flowing
<1>3. e \in 1..Len(r) /\ (2 * n + e) % 2 = 0
  BY <1>1, <1>2 DEF Ends
<1>4. e # 1
  BY <1>3
<1>5. Len(r) >= 2
  BY <1>1, <1>3, <1>4
<1>6. 2 \in Ends(r)
  <2>1. r[2] = 2 * n + 2 /\ (2 * n + 2) % 2 = 0
    BY <1>1, <1>2, <1>5
  <2> QED  BY <1>1, <1>5, <2>1 DEF Ends
<1>7. e = 2
  <2>1. e <= 2
    BY <1>6
  <2> QED  BY <1>3, <1>4, <2>1
<1>8. SubSeq(r, 1, 2) = <<2 * (n + 1) - 1, 2 * (n + 1)>>
  <2> DEFINE a == SubSeq(r, 1, 2)
  <2>1. a \in Seq(Nat) /\ Len(a) = 2 /\ a[1] = r[1] /\ a[2] = r[2]
    BY <1>1, <1>5
  <2>2. r[1] = 2 * (n + 1) - 1 /\ r[2] = 2 * (n + 1)
    BY <1>1, <1>2, <1>5
  <2> HIDE DEF a
  <2>3. a = <<a[1], a[2]>>
    BY <2>1
  <2> QED  BY <2>1, <2>2, <2>3 DEF a
<1>9. Flowing(n + 1, SubSeq(r, 3, Len(r)), s, k)
  <2> DEFINE b == SubSeq(r, 3, Len(r))
  <2>1. b \in Seq(Nat) /\ Len(b) = Len(r) - 2 /\ \A i \in 1..(Len(r) - 2) : b[i] = r[2 + i]
    <3>1. 2 \in 0..Len(r)
      BY <1>1, <1>5
    <3>2. SubSeq(r, 2 + 1, Len(r)) = b
      OBVIOUS
    <3> HIDE DEF b
    <3>3. /\ SubSeq(r, 2 + 1, Len(r)) \in Seq(Nat) /\ Len(SubSeq(r, 2 + 1, Len(r))) = Len(r) - 2
          /\ \A i \in 1..(Len(r) - 2) : SubSeq(r, 2 + 1, Len(r))[i] = r[2 + i]
      BY <3>1, CutRest
    <3> QED  BY <3>2, <3>3
  <2> HIDE DEF b
  <2>2. ASSUME NEW i \in DOMAIN b PROVE b[i] = 2 * (n + 1) + i
    <3>1. i \in 1..(Len(r) - 2) /\ 2 + i \in 1..Len(r)
      <4>1. DOMAIN b = 1..(Len(r) - 2)
        BY <2>1
      <4> DEFINE y == Len(r)
      <4>2. y \in Nat /\ i \in 1..(y - 2)
        BY <1>1, <4>1
      <4> HIDE DEF y
      <4>3. 2 + i \in 1..y
        BY <4>2
      <4> QED  BY <4>2, <4>3 DEF y
    <3>2. b[i] = r[2 + i] /\ r[2 + i] = 2 * n + (2 + i)
      BY <1>2, <2>1, <3>1
    <3> QED  BY <3>1, <3>2
  <2>3. ASSUME NEW i \in DOMAIN s PROVE s[i] = 2 * (n + 1) + Len(b) + i
    BY <1>1, <1>2, <1>5, <2>1
  <2>4. k = 2 * (n + 1) + Len(b) + Len(s)
    BY <1>1, <1>2, <1>5, <2>1
  <2> QED  BY <2>2, <2>3, <2>4 DEF Flowing, b
<1> QED  BY <1>7, <1>8, <1>9

(* Without a whole command there is at most half of one.                   *)
LEMMA FlowEnded ==
    ASSUME NEW n \in Nat, NEW r \in Seq(Nat), NEW s, NEW k, Flowing(n, r, s, k), Ends(r) = {}
    PROVE  r \in {<<2 * (n + 1) - 1>>, <<>>}
<1>1. DOMAIN r = 1..Len(r) /\ Len(r) \in Nat /\ \A i \in 1..Len(r) : r[i] = 2 * n + i
  BY DEF Flowing
<1>2. ~(Len(r) >= 2)
  <2> SUFFICES ASSUME Len(r) >= 2 PROVE FALSE
    OBVIOUS
  <2>1. r[2] = 2 * n + 2 /\ (2 * n + 2) % 2 = 0 /\ 2 \in DOMAIN r
    BY <1>1
  <2> QED  BY <2>1 DEF Ends
<1>3. CASE Len(r) = 0
  BY <1>3
<1>4. CASE Len(r) = 1
  <2>1. r[1] = 2 * (n + 1) - 1
    BY <1>1, <1>4
  <2>2. r = <<r[1]>>
    BY <1>4
  <2> QED  BY <2>1, <2>2
<1> QED  BY <1>1, <1>2, <1>3, <1>4
-----------------------------------------------------------------------------
(* The steps that cut a message from the stream.                           *)
StreamAt(p) ==
    /\ \/ Flowing(Queued(p), rbuf[p], net[p], sent[p])
       \/ p \in finished /\ net[p] = <<>> /\ rbuf[p] = <<>>
    /\ p \in finished => net[p] = <<>> \/ Len(rbuf[p]) >= ReadLimit
    /\ IF tpc = "dispatch" /\ serving = p THEN p \notin finished ELSE CommandEnds(p) = {}

MessagesAt(p) ==
    /\ AllTold(finished, told[p], p)
    /\ Ordered(finished, batch, p, Len(told[p]))
    /\ Ordered(finished, msgs, p, Taken(p))

LEMMA StreamTypes ==
    ASSUME TypeOK, NEW p \in Peers
    PROVE  /\ Queued(p) \in Nat /\ Taken(p) \in Nat /\ Len(told[p]) \in Nat /\ told[p] \in Seq(Seq(Nat))
           /\ rbuf[p] \in Seq(Nat) /\ net[p] \in Seq(Nat) /\ sent[p] \in Nat
           /\ Queued(p) = Taken(p) + Waiting(msgs, p) /\ Waiting(msgs, p) \in Nat
<1>1. Waiting(msgs, p) \in Nat /\ Waiting(batch, p) \in Nat /\ Len(told[p]) \in Nat
  BY OwedTypes
<1>2. Queued(p) \in Nat /\ Taken(p) \in Nat /\ Queued(p) = Taken(p) + Waiting(msgs, p)
  <2>1. Taken(p) = Len(told[p]) + Waiting(batch, p) /\ Queued(p) = Taken(p) + Waiting(msgs, p)
    BY DEF Queued, Taken
  <2> QED  BY <1>1, <2>1
<1>3. rbuf[p] \in Seq(Nat) /\ net[p] \in Seq(Nat) /\ sent[p] \in Nat /\ told[p] \in Seq(Seq(Nat))
  BY DEF TypeOK
<1> QED  BY <1>1, <1>2, <1>3

LEMMA DispatchedCommand ==
    ASSUME TypeOK, ServingOK, TalkDispatch, serving \in Peers \ Raw => StreamAt(serving)
    PROVE  LET p == serving
               end == Min(CommandEnds(serving))
           IN  /\ p \in Peers \ Raw
               /\ SubSeq(rbuf[p], 1, end) = <<2 * (Queued(p) + 1) - 1, 2 * (Queued(p) + 1)>>
               /\ Flowing(Queued(p) + 1, Rest(p, end), net[p], sent[p])
               /\ p \notin finished
<1> DEFINE p == serving
           end == Min(CommandEnds(serving))
<1>1. p \in Peers /\ end \in CommandEnds(p) /\ \A k \in CommandEnds(p) : end <= k
  BY DispatchFacts
<1>2. p \notin Raw /\ CommandEnds(p) = Ends(rbuf[p])
  BY <1>1 DEF CommandEnds, Ends
<1>3. p \notin finished /\ Flowing(Queued(p), rbuf[p], net[p], sent[p])
  BY <1>1, <1>2 DEF StreamAt, TalkDispatch
<1>4. Queued(p) \in Nat /\ rbuf[p] \in Seq(Nat) /\ net[p] \in Seq(Nat) /\ sent[p] \in Nat
  BY <1>1, StreamTypes
<1> DEFINE n == Queued(p)
           r == rbuf[p]
           s == net[p]
           k == sent[p]
           e == end
<1>5. n \in Nat /\ r \in Seq(Nat) /\ s \in Seq(Nat) /\ k \in Nat /\ Flowing(n, r, s, k)
      /\ e \in Ends(r) /\ \A i \in Ends(r) : e <= i
  BY <1>1, <1>2, <1>3, <1>4
<1>6. SubSeq(r, 1, e) = <<2 * (n + 1) - 1, 2 * (n + 1)>> /\ Flowing(n + 1, SubSeq(r, e + 1, Len(r)), s, k)
  <2> HIDE DEF n, r, s, k, e
  <2> QED  BY <1>5, FlowDispatched
<1> QED  BY <1>1, <1>2, <1>3, <1>6 DEF Rest

LEMMA EndedMessage ==
    ASSUME TypeOK, NEW p \in Peers \ Raw, StreamAt(p), tpc = "read"
    PROVE  rbuf[p] \in {<<2 * (Queued(p) + 1) - 1>>, <<>>}
<1>1. CommandEnds(p) = {} /\ CommandEnds(p) = Ends(rbuf[p])
  BY DEF StreamAt, CommandEnds, Ends
<1>2. CASE rbuf[p] = <<>>
  BY <1>2
<1>3. CASE Flowing(Queued(p), rbuf[p], net[p], sent[p])
  <2> DEFINE n == Queued(p)
             r == rbuf[p]
             s == net[p]
             k == sent[p]
  <2>1. n \in Nat /\ r \in Seq(Nat) /\ Flowing(n, r, s, k) /\ Ends(r) = {}
    BY <1>1, <1>3, StreamTypes
  <2>2. r \in {<<2 * (n + 1) - 1>>, <<>>}
    <3> HIDE DEF n, r, s, k
    <3> QED  BY <2>1, FlowEnded
  <2> QED  BY <2>2
<1> QED  BY <1>2, <1>3 DEF StreamAt
-----------------------------------------------------------------------------
(* The messages stay in order.                                             *)

LEMMA MessagesSame ==
    ASSUME NEW p \in Peers, MessagesAt(p), UNCHANGED <<told, batch, msgs>>, finished \subseteq finished'
    PROVE  MessagesAt(p)'
<1> DEFINE f == finished
           g == finished'
           t == told[p]
           b == batch
           m == msgs
           n == Len(told[p])
           k == Taken(p)
<1>1. AllTold(f, t, p) /\ Ordered(f, b, p, n) /\ Ordered(f, m, p, k) /\ f \subseteq g
  BY DEF MessagesAt
<1>2. AllTold(g, t, p) /\ Ordered(g, b, p, n) /\ Ordered(g, m, p, k)
  <2> HIDE DEF f, g, t, b, m, n, k
  <2> QED  BY <1>1, ToldLonger, OrderedLonger
<1>3. told'[p] = told[p] /\ batch' = batch /\ msgs' = msgs /\ Taken(p)' = Taken(p)
  BY DEF Taken, Waiting
<1> QED  BY <1>2, <1>3 DEF MessagesAt

LEMMA MessagesQueued ==
    ASSUME TypeOK, NEW p \in Peers, MessagesAt(p), NEW r \in Peers, NEW body \in Seq(Nat),
           Queue(r, body), UNCHANGED <<told, batch>>, finished \subseteq finished',
           p = r => Fits(finished', p, Queued(p) + 1, body)
    PROVE  MessagesAt(p)'
<1> DEFINE f == finished
           g == finished'
           t == told[p]
           b == batch
           q == msgs
           q2 == msgs'
           n == Len(told[p])
           k == Taken(p)
           m == [peer |-> r, body |-> body]
<1>1. AllTold(f, t, p) /\ Ordered(f, b, p, n) /\ Ordered(f, q, p, k) /\ f \subseteq g
  BY DEF MessagesAt
<1>2. q \in Seq(Message) /\ m \in Message /\ q2 = Append(q, m) /\ k \in Nat
      /\ m.peer = r /\ m.body = body
  BY QueueShape, StreamTypes DEF TypeOK
<1>3. m.peer = p => Fits(g, p, k + Waiting(q, p) + 1, m.body)
  <2>1. Queued(p) = k + Waiting(q, p)
    BY StreamTypes
  <2> QED  BY <1>2, <2>1
<1>4. AllTold(g, t, p) /\ Ordered(g, b, p, n) /\ Ordered(g, q2, p, k)
  <2> HIDE DEF f, g, t, b, q, q2, m, n, k
  <2>1. Ordered(g, q, p, k)
    BY <1>1, OrderedLonger
  <2>2. Ordered(g, q2, p, k)
    BY <1>2, <1>3, <2>1, OrderedAdded
  <2> QED  BY <1>1, <2>2, ToldLonger, OrderedLonger
<1>5. told'[p] = told[p] /\ batch' = batch /\ Taken(p)' = Taken(p)
  BY DEF Taken, Waiting
<1> QED  BY <1>4, <1>5 DEF MessagesAt

LEMMA NextMessages ==
    TypeOK /\ ServingOK /\ MessagesOK /\ StreamOK /\ [Next]_vars => MessagesOK'
<1> SUFFICES ASSUME TypeOK, ServingOK, MessagesOK, StreamOK, [Next]_vars, NEW p \in Peers \ Raw
             PROVE  MessagesAt(p)'
  BY DEF MessagesOK, MessagesAt
<1>0. MessagesAt(p) /\ p \in Peers /\ \A r \in Peers \ Raw : StreamAt(r)
  BY DEF MessagesOK, MessagesAt, StreamOK, StreamAt
<1>1. CASE TalkTop \/ TalkExit \/ TalkPoll \/ TalkReadFails \/ TalkDispatched \/ TalkSend \/ TalkSendFails
           \/ \E n \in 1..ReadLimit : TalkRead(n)
  <2>1. UNCHANGED <<told, batch, msgs>>
    BY <1>1 DEF TalkTop, TalkExit, TalkPoll, TalkReadFails, TalkDispatched, TalkSend, TalkSendFails,
                TalkRead, shared, main
  <2>2. finished \subseteq finished'
    BY <1>1 DEF TalkTop, TalkExit, TalkPoll, TalkReadFails, TalkDispatched, TalkSend, TalkSendFails,
                TalkRead, shared
  <2> QED  BY <1>0, <2>1, <2>2, MessagesSame
<1>2. CASE TalkReadEnds
  <2> DEFINE r == serving
             body == rbuf[serving]
  <2>1. UNCHANGED <<told, batch>> /\ Queue(r, body) /\ finished' = finished \cup {r} /\ tpc = "read"
    BY <1>2 DEF TalkReadEnds
  <2>2. r \in Peers /\ body \in Seq(Nat)
    BY <2>1, ServedIsPeer DEF TypeOK
  <2>3. p = r => Fits(finished', p, Queued(p) + 1, body)
    <3> SUFFICES ASSUME p = r PROVE Fits(finished', p, Queued(p) + 1, body)
      OBVIOUS
    <3>1. rbuf[p] \in {<<2 * (Queued(p) + 1) - 1>>, <<>>}
      BY <1>0, <2>1, EndedMessage
    <3> QED  BY <2>1, <3>1 DEF Fits
  <2>4. finished \subseteq finished'
    BY <2>1
  <2> HIDE DEF r, body
  <2> QED  BY <1>0, <2>1, <2>2, <2>3, <2>4, MessagesQueued
<1>3. CASE TalkDispatch
  <2> DEFINE r == serving
             end == Min(CommandEnds(serving))
             body == SubSeq(rbuf[serving], 1, end)
  <2>1. UNCHANGED <<told, batch, finished>> /\ Queue(r, body)
    BY <1>3 DEF TalkDispatch
  <2>2. r \in Peers /\ body \in Seq(Nat)
    BY <1>3, DispatchFacts
  <2>3. body = <<2 * (Queued(r) + 1) - 1, 2 * (Queued(r) + 1)>>
    BY <1>0, <1>3, DispatchedCommand
  <2> HIDE DEF r, body
  <2>4. p = r => Fits(finished', p, Queued(p) + 1, body)
    BY <2>3 DEF Fits
  <2>5. finished \subseteq finished'
    BY <2>1
  <2> QED  BY <1>0, <2>1, <2>2, <2>4, <2>5, MessagesQueued
<1>4. CASE MainTake
  <2> DEFINE f == finished
             q == msgs
             n == Len(told[p])
  <2>1. batch = <<>> /\ msgs' = <<>> /\ batch' = msgs /\ UNCHANGED <<told, finished>>
    BY <1>4 DEF MainTake, main
  <2>2. Waiting(batch, p) = 0 /\ Len(told[p]) \in Nat
    BY <2>1, WaitingNone, StreamTypes
  <2>3. Taken(p) = n
    BY <2>2 DEF Taken
  <2>4. AllTold(f, told[p], p) /\ Ordered(f, q, p, n)
    BY <1>0, <2>3 DEF MessagesAt
  <2>5. Ordered(f, <<>>, p, Taken(p)')
    BY DEF Ordered
  <2> QED  BY <2>1, <2>4, <2>5 DEF MessagesAt
<1>5. CASE MainHandle
  <2> DEFINE f == finished
             q == batch
             q2 == batch'
             h == Head(batch)
             t == told[p]
             n == Len(told[p])
             m == msgs
             k == Taken(p)
  <2>1. q # <<>> /\ q2 = Tail(q) /\ q \in Seq(Message) /\ h = Head(q) /\ h \in Message /\ h.body \in Seq(Nat)
        /\ told' = [told EXCEPT ![h.peer] = Append(@, h.body)] /\ h.peer \in Peers
        /\ UNCHANGED <<finished, msgs>>
    BY <1>5, HandleShape DEF TypeOK
  <2>2. AllTold(f, t, p) /\ Ordered(f, q, p, n) /\ Ordered(f, m, p, k) /\ n \in Nat /\ t \in Seq(Seq(Nat))
        /\ n = Len(t)
    BY <1>0, StreamTypes DEF MessagesAt
  <2>3. told'[p] = IF h.peer = p THEN Append(t, h.body) ELSE t
    <3>1. told \in [Peers -> Seq(Seq(Nat))]
      BY DEF TypeOK
    <3> HIDE DEF h
    <3> QED  BY <1>0, <2>1, <3>1
  <2>4. Ordered(f, q2, p, n + One(h, p)) /\ (h.peer = p => Fits(f, p, n + 1, h.body))
    <3> HIDE DEF f, q, q2, h, n
    <3> QED  BY <2>1, <2>2, OrderedTaken
  <2>5. AllTold(f, told'[p], p)
    <3>1. CASE h.peer = p
      <4> DEFINE t2 == told'[p]
      <4>1. t2 = Append(t, h.body) /\ Fits(f, p, Len(t) + 1, h.body)
        BY <2>2, <2>3, <2>4, <3>1
      <4> HIDE DEF f, t, h, t2
      <4>2. AllTold(f, t2, p)
        BY <2>1, <2>2, <4>1, ToldAdded
      <4> QED  BY <4>2 DEF t2
    <3>2. CASE h.peer # p
      BY <2>2, <2>3, <3>2
    <3> QED  BY <3>1, <3>2
  <2>6. Len(told'[p]) = n + One(h, p)
    <3>1. CASE h.peer = p
      <4>1. told'[p] = Append(t, h.body) /\ One(h, p) = 1
        BY <2>3, <3>1 DEF One
      <4> QED  BY <2>1, <2>2, <4>1
    <3>2. CASE h.peer # p
      <4>1. told'[p] = t /\ One(h, p) = 0
        BY <2>3, <3>2 DEF One
      <4> QED  BY <2>2, <4>1
    <3> QED  BY <3>1, <3>2
  <2>7. Taken(p)' = Taken(p)
    <3>1. Waiting(batch, p) = Waiting(batch', p) + One(h, p) /\ Waiting(batch', p) \in Nat
      <4>1. Waiting(batch, p) = Waiting(batch', p) + (IF p = Head(batch).peer THEN 1 ELSE 0)
            /\ Waiting(batch', p) \in Nat
        BY <1>0, <1>5, BatchTaken
      <4> QED  BY <4>1 DEF One
    <3>2. Waiting(batch, p)' = Waiting(batch', p) /\ One(h, p) \in Nat
      BY DEF Waiting, One
    <3> HIDE DEF h
    <3> QED  BY <2>2, <2>6, <3>1, <3>2 DEF Taken
  <2> QED  BY <2>1, <2>2, <2>4, <2>5, <2>6, <2>7 DEF MessagesAt
<1>6. CASE MainShutdown
  <2>1. UNCHANGED <<told, batch, msgs, finished>>
    BY <1>6 DEF MainShutdown, shared
  <2> QED  BY <1>0, <2>1, MessagesSame
<1>7. ASSUME NEW r \in Peers, MainAnswersLater(r) \/ TalkAccept(r)
      PROVE  MessagesAt(p)'
  <2>1. UNCHANGED <<told, batch, msgs, finished>>
    BY <1>7 DEF MainAnswersLater, TalkAccept, main
  <2> QED  BY <1>0, <2>1, MessagesSame
<1>8. ASSUME NEW r \in Peers, PeerConnects(r) \/ PeerSends(r) \/ PeerReads(r) \/ PeerEnds(r) \/ PeerCloses(r)
      PROVE  MessagesAt(p)'
  <2>1. UNCHANGED <<told, batch, msgs, finished>>
    BY <1>8 DEF PeerConnects, PeerSends, PeerReads, PeerEnds, PeerCloses, shared, main
  <2> QED  BY <1>0, <2>1, MessagesSame
<1>9. CASE UNCHANGED vars
  <2>1. UNCHANGED <<told, batch, msgs, finished>>
    BY <1>9 DEF vars, shared, main
  <2> QED  BY <1>0, <2>1, MessagesSame
<1> QED
  BY <1>1, <1>2, <1>3, <1>4, <1>5, <1>6, <1>7, <1>8, <1>9 DEF Next, TalkThread, MainThread
-----------------------------------------------------------------------------
(* The stream stays whole.                                                 *)

LEMMA StreamSame ==
    ASSUME NEW p \in Peers, StreamAt(p), Queued(p)' = Queued(p), rbuf'[p] = rbuf[p], net'[p] = net[p],
           sent'[p] = sent[p], p \in finished' <=> p \in finished,
           \/ UNCHANGED <<tpc, serving>>
           \/ CommandEnds(p) = {} /\ tpc' # "dispatch"
    PROVE  StreamAt(p)'
<1>1. CommandEnds(p)' = CommandEnds(p)
  BY DEF CommandEnds
<1>2. IF tpc' = "dispatch" /\ serving' = p THEN p \notin finished' ELSE CommandEnds(p)' = {}
  <2>1. CASE UNCHANGED <<tpc, serving>>
    BY <1>1, <2>1 DEF StreamAt
  <2>2. CASE CommandEnds(p) = {} /\ tpc' # "dispatch"
    BY <1>1, <2>2
  <2> QED  BY <2>1, <2>2
<1>3. p \in finished' => net'[p] = <<>> \/ Len(rbuf'[p]) >= ReadLimit
  BY DEF StreamAt
<1>4. \/ Flowing(Queued(p)', rbuf'[p], net'[p], sent'[p])
      \/ p \in finished' /\ net'[p] = <<>> /\ rbuf'[p] = <<>>
  BY DEF StreamAt
<1> QED  BY <1>2, <1>3, <1>4 DEF StreamAt

LEMMA QueuedSame ==
    ASSUME NEW p, UNCHANGED <<told, batch, msgs>>
    PROVE  Queued(p)' = Queued(p)
  BY DEF Queued, Taken, Waiting

LEMMA QueuedMore ==
    ASSUME TypeOK, NEW p \in Peers, NEW r \in Peers, NEW body \in Seq(Nat), Queue(r, body),
           UNCHANGED <<told, batch>>
    PROVE  Queued(p)' = Queued(p) + (IF p = r THEN 1 ELSE 0)
<1>1. Waiting(msgs', p) = Waiting(msgs, p) + (IF p = r THEN 1 ELSE 0)
  BY QueueShape
<1>2. Waiting(msgs, p)' = Waiting(msgs', p) /\ Taken(p)' = Taken(p)
  BY DEF Waiting, Taken
<1>3. Taken(p) \in Nat /\ Waiting(msgs, p) \in Nat
  BY StreamTypes
<1> QED  BY <1>1, <1>2, <1>3 DEF Queued

LEMMA QueuedHandled ==
    ASSUME TypeOK, NEW p \in Peers, MainHandle
    PROVE  Queued(p)' = Queued(p)
<1> DEFINE h == Head(batch)
<1>1. told' = [told EXCEPT ![h.peer] = Append(@, h.body)] /\ h.peer \in Peers /\ h.body \in Seq(Nat)
      /\ UNCHANGED msgs
  BY HandleShape
<1>2. told \in [Peers -> Seq(Seq(Nat))] /\ told[p] \in Seq(Seq(Nat))
  BY DEF TypeOK
<1>3. Len(told'[p]) = Len(told[p]) + (IF p = h.peer THEN 1 ELSE 0)
  <2> HIDE DEF h
  <2>1. told'[p] = IF p = h.peer THEN Append(told[p], h.body) ELSE told[p]
    BY <1>1, <1>2
  <2>2. Len(Append(told[p], h.body)) = Len(told[p]) + 1 /\ Len(told[p]) \in Nat
    BY <1>1, <1>2
  <2>3. CASE p = h.peer
    BY <2>1, <2>2, <2>3
  <2>4. CASE p # h.peer
    <3>1. told'[p] = told[p]
      BY <2>1, <2>4
    <3> QED  BY <2>2, <2>4, <3>1
  <2> QED  BY <2>3, <2>4
<1>4. Waiting(batch, p) = Waiting(batch', p) + (IF p = h.peer THEN 1 ELSE 0) /\ Waiting(batch', p) \in Nat
  BY BatchTaken
<1>5. Waiting(msgs, p)' = Waiting(msgs, p) /\ Waiting(batch, p)' = Waiting(batch', p)
  BY <1>1 DEF Waiting
<1>6. Len(told[p]) \in Nat /\ Waiting(msgs, p) \in Nat
  BY StreamTypes
<1> HIDE DEF h
<1>7. Taken(p)' = Taken(p)
  <2>1. Taken(p)' = Len(told'[p]) + Waiting(batch', p) /\ Taken(p) = Len(told[p]) + Waiting(batch, p)
    BY <1>5 DEF Taken
  <2>2. CASE p = h.peer
    BY <1>3, <1>4, <1>6, <2>1, <2>2
  <2>3. CASE p # h.peer
    BY <1>3, <1>4, <1>6, <2>1, <2>3
  <2> QED  BY <2>2, <2>3
<1> QED  BY <1>5, <1>7 DEF Queued

LEMMA NextStream ==
    TypeOK /\ ServingOK /\ StreamOK /\ [Next]_vars => StreamOK'
<1> SUFFICES ASSUME TypeOK, ServingOK, StreamOK, [Next]_vars, NEW p \in Peers \ Raw
             PROVE  StreamAt(p)'
  BY DEF StreamOK, StreamAt
<1>0. StreamAt(p) /\ p \in Peers /\ \A r \in Peers \ Raw : StreamAt(r)
  BY DEF StreamOK, StreamAt
<1>00. tpc # "dispatch" => CommandEnds(p) = {}
  BY <1>0 DEF StreamAt
<1>000. /\ rbuf \in [Peers -> Seq(Nat)] /\ net \in [Peers -> Seq(Nat)] /\ sent \in [Peers -> Nat]
        /\ Queued(p) \in Nat
        /\ tpc \in {"read", "dispatch", "send"} => serving \in Peers
  BY ServedIsPeer, StreamTypes DEF TypeOK
<1>1. CASE TalkTop \/ TalkExit \/ TalkPoll \/ \E r \in Peers : TalkAccept(r)
  <2>1. UNCHANGED <<told, batch, msgs, rbuf, net, sent, finished>>
    BY <1>1 DEF TalkTop, TalkExit, TalkPoll, TalkAccept, wire, shared, main
  <2>2. tpc # "dispatch" /\ tpc' # "dispatch"
    BY <1>1 DEF TalkTop, TalkExit, TalkPoll, TalkAccept, Serve
  <2> QED  BY <1>0, <1>00, <2>1, <2>2, StreamSame, QueuedSame
<1>2. CASE TalkSend \/ TalkSendFails
  <2>1. UNCHANGED <<told, batch, msgs, rbuf, net, sent, finished>>
    BY <1>2 DEF TalkSend, TalkSendFails, wire, main
  <2>2. tpc = "send"
    BY <1>2 DEF TalkSend, TalkSendFails
  <2>3. tpc' # "dispatch"
    <3>1. CASE TalkSend
      <4>1. tpc' = "top" \/ UNCHANGED <<wbuf, tpc>>
        BY <3>1, Zenon DEF TalkSend
      <4> QED  BY <2>2, <4>1
    <3>2. CASE TalkSendFails
      BY <3>2 DEF TalkSendFails
    <3> QED  BY <1>2, <3>1, <3>2
  <2> QED  BY <1>0, <1>00, <2>1, <2>2, <2>3, StreamSame, QueuedSame
<1>3. CASE TalkDispatched
  <2>1. UNCHANGED <<told, batch, msgs, rbuf, net, sent, finished>> /\ tpc' # "dispatch"
    BY <1>3 DEF TalkDispatched, AfterRead, wire, shared, main
  <2>2. CommandEnds(p) = {}
    BY <1>0, <1>3 DEF TalkDispatched, StreamAt
  <2> QED  BY <1>0, <2>1, <2>2, StreamSame, QueuedSame
<1>4. CASE TalkReadFails
  <2>1. UNCHANGED <<told, batch, msgs, rbuf, net, sent>> /\ tpc' # "dispatch" /\ tpc = "read"
        /\ finished' = finished \cup {serving}
        /\ (net[serving] = <<>> \/ Len(rbuf[serving]) >= ReadLimit)
    BY <1>4 DEF TalkReadFails, AfterRead, wire, main
  <2>2. Queued(p)' = Queued(p) /\ CommandEnds(p)' = CommandEnds(p)
    BY <2>1, QueuedSame DEF CommandEnds
  <2>3. p \in finished' => net'[p] = <<>> \/ Len(rbuf'[p]) >= ReadLimit
    BY <1>0, <2>1 DEF StreamAt
  <2>4. \/ Flowing(Queued(p)', rbuf'[p], net'[p], sent'[p])
        \/ p \in finished' /\ net'[p] = <<>> /\ rbuf'[p] = <<>>
    BY <1>0, <2>1, <2>2 DEF StreamAt
  <2> QED  BY <1>00, <2>1, <2>2, <2>3, <2>4 DEF StreamAt
<1>5. CASE TalkReadEnds
  <2> DEFINE r == serving
             body == rbuf[serving]
  <2>1. UNCHANGED <<told, batch, net, sent>> /\ tpc' # "dispatch" /\ tpc = "read"
        /\ finished' = finished \cup {r} /\ net[r] = <<>> /\ rbuf' = [rbuf EXCEPT ![r] = <<>>]
        /\ Queue(r, body)
    BY <1>5 DEF TalkReadEnds, AfterRead, wire
  <2>2. r \in Peers /\ body \in Seq(Nat)
    BY <1>000, <2>1
  <2>3. CASE p = r
    <3>1. rbuf'[p] = <<>> /\ net'[p] = <<>> /\ p \in finished'
      BY <1>000, <2>1, <2>3
    <3>2. CommandEnds(p)' = {}
      BY <3>1 DEF CommandEnds
    <3> QED  BY <2>1, <3>1, <3>2 DEF StreamAt
  <2>4. CASE p # r
    <3>1. Queued(p)' = Queued(p)
      <4> HIDE DEF r, body
      <4>1. Queued(p)' = Queued(p) + 0
        BY <1>0, <2>1, <2>2, <2>4, QueuedMore
      <4> QED  BY <1>000, <4>1
    <3>2. rbuf'[p] = rbuf[p] /\ (p \in finished' <=> p \in finished)
      BY <1>000, <2>1, <2>4
    <3> QED  BY <1>0, <1>00, <2>1, <3>1, <3>2, StreamSame
  <2> QED  BY <2>3, <2>4
<1>6. CASE TalkDispatch
  <2> DEFINE r == serving
             end == Min(CommandEnds(serving))
             body == SubSeq(rbuf[serving], 1, end)
  <2>1. UNCHANGED <<told, batch, net, sent, finished, tpc, serving>> /\ tpc = "dispatch"
        /\ rbuf' = [rbuf EXCEPT ![r] = Rest(r, end)] /\ Queue(r, body)
    BY <1>6 DEF TalkDispatch, wire, turn
  <2>2. r \in Peers /\ body \in Seq(Nat)
    BY <1>6, DispatchFacts
  <2>3. r \in Peers \ Raw /\ Flowing(Queued(r) + 1, Rest(r, end), net[r], sent[r]) /\ r \notin finished
    BY <1>0, <1>6, DispatchedCommand
  <2>4. CASE p = r
    <3>1. Queued(p)' = Queued(p) + 1
      <4> HIDE DEF r, body
      <4> QED  BY <1>0, <2>1, <2>2, <2>4, QueuedMore
    <3>2. rbuf'[p] = Rest(p, end)
      BY <1>000, <2>1, <2>4
    <3>3. Flowing(Queued(p)', rbuf'[p], net'[p], sent'[p])
      <4> HIDE DEF end
      <4> QED  BY <2>1, <2>3, <2>4, <3>1, <3>2
    <3>4. p \notin finished' /\ tpc' = "dispatch" /\ serving' = p
      BY <2>1, <2>3, <2>4
    <3> HIDE DEF end
    <3> QED  BY <3>3, <3>4 DEF StreamAt
  <2>5. CASE p # r
    <3>1. Queued(p)' = Queued(p)
      <4> HIDE DEF r, body
      <4>1. Queued(p)' = Queued(p) + 0
        BY <1>0, <2>1, <2>2, <2>5, QueuedMore
      <4> QED  BY <1>000, <4>1
    <3>2. rbuf'[p] = rbuf[p]
      <4> HIDE DEF end
      <4> QED  BY <1>000, <2>1, <2>5
    <3> QED  BY <1>0, <2>1, <3>1, <3>2, StreamSame
  <2> QED  BY <2>4, <2>5
<1>7. ASSUME NEW n \in 1..ReadLimit, TalkRead(n) PROVE StreamAt(p)'
  <2> DEFINE r == serving
  <2>1. UNCHANGED <<told, batch, msgs, sent, finished, serving>> /\ tpc = "read" /\ tpc' = "dispatch"
        /\ n <= Len(net[r]) /\ n <= ReadLimit - Len(rbuf[r])
        /\ rbuf' = [rbuf EXCEPT ![r] = @ \o SubSeq(net[r], 1, n)]
        /\ net' = [net EXCEPT ![r] = SubSeq(@, n + 1, Len(@))]
    BY <1>7 DEF TalkRead, Space, main
  <2>2. r \in Peers /\ Queued(p)' = Queued(p)
    BY <1>000, <2>1, QueuedSame
  <2>3. CASE p = r
    <3>1. p \notin finished
      <4>1. net[p] # <<>>
        BY <1>000, <2>1, <2>2, <2>3
      <4>2. ~(Len(rbuf[p]) >= ReadLimit)
        <5>1. Len(rbuf[p]) \in Nat /\ ReadLimit \in Nat /\ n \in Nat /\ n >= 1
          BY <1>000, LimitsAssumption
        <5> QED  BY <2>1, <2>3, <5>1
      <4> QED  BY <1>0, <4>1, <4>2 DEF StreamAt
    <3>2. Flowing(Queued(p), rbuf[p], net[p], sent[p])
      BY <1>0, <3>1 DEF StreamAt
    <3>3. Flowing(Queued(p), rbuf[p] \o SubSeq(net[p], 1, n), SubSeq(net[p], n + 1, Len(net[p])), sent[p])
      <4> DEFINE k == Queued(p)
                 a == rbuf[p]
                 b == net[p]
                 c == sent[p]
      <4>1. k \in Nat /\ a \in Seq(Nat) /\ b \in Seq(Nat) /\ c \in Nat /\ Flowing(k, a, b, c)
            /\ n \in 1..Len(b)
        BY <1>000, <2>1, <2>3, <3>2
      <4>2. Flowing(k, a \o SubSeq(b, 1, n), SubSeq(b, n + 1, Len(b)), c)
        <5> HIDE DEF k, a, b, c
        <5> QED  BY <4>1, FlowRead
      <4> QED  BY <4>2
    <3>4. rbuf'[p] = rbuf[p] \o SubSeq(net[p], 1, n) /\ net'[p] = SubSeq(net[p], n + 1, Len(net[p]))
      BY <1>000, <2>1, <2>3
    <3>5. Flowing(Queued(p)', rbuf'[p], net'[p], sent'[p])
      BY <2>1, <2>2, <3>3, <3>4
    <3> QED  BY <2>1, <2>3, <3>1, <3>5 DEF StreamAt
  <2>4. CASE p # r
    <3>1. rbuf'[p] = rbuf[p] /\ net'[p] = net[p]
      BY <1>000, <2>1, <2>4
    <3>2. CommandEnds(p)' = {}
      BY <1>00, <2>1, <3>1 DEF CommandEnds
    <3>3. Flowing(Queued(p)', rbuf'[p], net'[p], sent'[p])
          \/ (p \in finished' /\ net'[p] = <<>> /\ rbuf'[p] = <<>>)
      BY <1>0, <2>1, <2>2, <3>1 DEF StreamAt
    <3>4. p \in finished' => net'[p] = <<>> \/ Len(rbuf'[p]) >= ReadLimit
      BY <1>0, <2>1, <3>1 DEF StreamAt
    <3> QED  BY <2>1, <2>4, <3>2, <3>3, <3>4 DEF StreamAt
  <2> QED  BY <2>3, <2>4
<1>8. CASE MainTake
  <2>1. UNCHANGED <<told, rbuf, net, sent, finished, tpc, serving>> /\ batch = <<>> /\ msgs' = <<>> /\ batch' = msgs
    BY <1>8 DEF MainTake, wire, turn
  <2>2. Waiting(batch, p) = 0 /\ Waiting(msgs, p)' = 0 /\ Waiting(batch, p)' = Waiting(msgs, p)
    BY <2>1, WaitingNone DEF Waiting
  <2>3. Queued(p)' = Queued(p)
    <3>1. Len(told[p]) \in Nat /\ Waiting(msgs, p) \in Nat
      BY StreamTypes
    <3> QED  BY <2>1, <2>2, <3>1 DEF Queued, Taken
  <2> QED  BY <1>0, <2>1, <2>3, StreamSame
<1>9. CASE MainHandle
  <2>1. UNCHANGED <<rbuf, net, sent, finished, tpc, serving>>
    BY <1>9 DEF MainHandle, wire, turn
  <2> QED  BY <1>0, <1>9, <2>1, StreamSame, QueuedHandled
<1>10. CASE MainShutdown \/ \E r \in Peers : MainAnswersLater(r)
  <2>1. UNCHANGED <<told, batch, msgs, rbuf, net, sent, finished, tpc, serving>>
    BY <1>10 DEF MainShutdown, MainAnswersLater, wire, shared, turn
  <2> QED  BY <1>0, <2>1, StreamSame, QueuedSame
<1>11. ASSUME NEW r \in Peers, PeerSends(r) PROVE StreamAt(p)'
  <2>1. UNCHANGED <<told, batch, msgs, rbuf, finished, tpc, serving>> /\ r \notin finished
        /\ sent' = [sent EXCEPT ![r] = @ + 1] /\ net' = [net EXCEPT ![r] = Append(@, sent'[r])]
    BY <1>11 DEF PeerSends, shared, turn, main
  <2>2. Queued(p)' = Queued(p) /\ CommandEnds(p)' = CommandEnds(p)
    BY <2>1, QueuedSame DEF CommandEnds
  <2>3. CASE p = r
    <3>1. Flowing(Queued(p), rbuf[p], net[p], sent[p])
      BY <1>0, <2>1, <2>3 DEF StreamAt
    <3>2. Flowing(Queued(p), rbuf[p], Append(net[p], sent[p] + 1), sent[p] + 1)
      <4> DEFINE k == Queued(p)
                 a == rbuf[p]
                 b == net[p]
                 c == sent[p]
      <4>1. k \in Nat /\ a \in Seq(Nat) /\ b \in Seq(Nat) /\ c \in Nat /\ Flowing(k, a, b, c)
        BY <1>000, <3>1
      <4>2. Flowing(k, a, Append(b, c + 1), c + 1)
        <5> HIDE DEF k, a, b, c
        <5> QED  BY <4>1, FlowSent
      <4> QED  BY <4>2
    <3>3. sent'[p] = sent[p] + 1 /\ net'[p] = Append(net[p], sent[p] + 1)
      BY <1>000, <2>1, <2>3
    <3>4. Flowing(Queued(p)', rbuf'[p], net'[p], sent'[p])
      BY <2>1, <2>2, <3>2, <3>3
    <3> QED  BY <1>0, <2>1, <2>2, <2>3, <3>4 DEF StreamAt
  <2>4. CASE p # r
    <3>1. sent'[p] = sent[p] /\ net'[p] = net[p]
      BY <1>000, <2>1, <2>4
    <3> QED  BY <1>0, <2>1, <2>2, <3>1, StreamSame
  <2> QED  BY <2>3, <2>4
<1>12. ASSUME NEW r \in Peers, PeerConnects(r) \/ PeerReads(r) \/ PeerEnds(r) \/ PeerCloses(r)
       PROVE  StreamAt(p)'
  <2>1. UNCHANGED <<told, batch, msgs, rbuf, net, sent, finished, tpc, serving>>
    BY <1>12 DEF PeerConnects, PeerReads, PeerEnds, PeerCloses, shared, turn, main
  <2> QED  BY <1>0, <2>1, StreamSame, QueuedSame
<1>13. CASE UNCHANGED vars
  <2>1. UNCHANGED <<told, batch, msgs, rbuf, net, sent, finished, tpc, serving>>
    BY <1>13 DEF vars, wire, shared, turn, main
  <2> QED  BY <1>0, <2>1, StreamSame, QueuedSame
<1> QED
  BY <1>1, <1>2, <1>3, <1>4, <1>5, <1>6, <1>7, <1>8, <1>9, <1>10, <1>11, <1>12, <1>13
  DEF Next, TalkThread, MainThread
-----------------------------------------------------------------------------
(* The answers stay in order.                                              *)
AnswersAt(p) ==
    /\ \A i \in DOMAIN received[p] : received[p][i] = i
    /\ life[p] # "closed" =>
        /\ p \notin failed
        /\ \A i \in DOMAIN wbuf[p] : wbuf[p][i] = Heard(p) + i
        /\ answered[p] = Heard(p) + Len(wbuf[p])

(* The same for what was heard and what waits, as values.                  *)
Continues(w, h, n) == (\A i \in DOMAIN w : w[i] = h + i) /\ n = h + Len(w)

LEMMA ContinuesMore ==
    ASSUME NEW w \in Seq(Nat), NEW h \in Int, NEW n \in Nat, NEW size \in Nat, Continues(w, h, n)
    PROVE  Continues(w \o [i \in 1..size |-> n + i], h, n + size)
<1> DEFINE d == [i \in 1..size |-> n + i]
           x == Len(w)
           u == w \o d
<1>1. d \in Seq(Nat) /\ Len(d) = size /\ x \in Nat
  <2>1. \A i \in 1..size : n + i \in Nat
    OBVIOUS
  <2>2. d \in Seq(Nat)
    BY <2>1, IsASeq
  <2>3. DOMAIN d = 1..size
    OBVIOUS
  <2> QED  BY <2>2, <2>3
<1>2. \A i \in 1..size : d[i] = n + i
  OBVIOUS
<1>3. n = h + x /\ \A i \in 1..x : w[i] = h + i
  BY DEF Continues
<1> HIDE DEF d
<1>4. u \in Seq(Nat) /\ Len(u) = x + Len(d)
      /\ \A i \in 1..(x + Len(d)) : u[i] = IF i <= x THEN w[i] ELSE d[i - x]
  BY <1>1, ConcatProperties
<1>5. DOMAIN u = 1..(x + size)
  BY <1>1, <1>4
<1> HIDE DEF u, x
<1>6. ASSUME NEW i \in DOMAIN u PROVE u[i] = h + i
  <2>1. i \in Nat /\ 1 <= i /\ i <= x + size
    BY <1>1, <1>5
  <2>2. u[i] = IF i <= x THEN w[i] ELSE d[i - x]
    BY <1>1, <1>4, <1>5
  <2>3. CASE i <= x
    <3>1. i \in 1..x
      BY <1>1, <2>1, <2>3
    <3> QED  BY <1>3, <2>2, <2>3, <3>1
  <2>4. CASE ~(i <= x)
    <3>1. i - x \in 1..size
      <4>1. i - x \in Int /\ 1 <= i - x /\ i - x <= size
        BY <1>1, <2>1, <2>4
      <4> QED  BY <4>1
    <3>2. u[i] = n + (i - x)
      BY <1>2, <2>2, <2>4, <3>1
    <3>3. n + (i - x) = h + i
      BY <1>1, <1>3, <2>1
    <3> QED  BY <3>2, <3>3
  <2> QED  BY <2>3, <2>4
<1>7. n + size = h + Len(u)
  BY <1>1, <1>3, <1>4
<1> QED  BY <1>6, <1>7 DEF Continues, u, d

(* A part of the write buffer follows what the peer has.                   *)
LEMMA HeardMore ==
    ASSUME NEW v \in Seq(Nat), \A i \in DOMAIN v : v[i] = i,
           NEW w \in Seq(Nat), NEW d \in 0..Len(w), NEW k \in 0..(Len(w) - d),
           \A i \in DOMAIN w : w[i] = (Len(v) - d) + i
    PROVE  LET u == v \o SubSeq(w, d + 1, d + k)
           IN  u \in Seq(Nat) /\ Len(u) = Len(v) + k /\ \A i \in DOMAIN u : u[i] = i
<1> DEFINE a == SubSeq(w, d + 1, d + k)
           u == v \o a
           x == Len(v)
           y == Len(w)
<1>1. x \in Nat /\ y \in Nat /\ d \in Nat /\ k \in Nat /\ d + k <= y
  OBVIOUS
<1>2. a \in Seq(Nat) /\ Len(a) = k
  <2>1. a \in Seq(Nat)
    BY <1>1
  <2>2. Len(a) = IF d + 1 <= d + k THEN (d + k) - (d + 1) + 1 ELSE 0
    BY <1>1
  <2> HIDE DEF a
  <2> QED  BY <1>1, <2>1, <2>2
<1>3. ASSUME NEW i \in 1..k PROVE a[i] = w[d + i]
  <2>1. i \in Nat /\ i \in 1..((d + k) - (d + 1) + 1) /\ (d + 1) + i - 1 = d + i
    BY <1>1
  <2>2. a[i] = w[(d + 1) + i - 1]
    <3>1. d + 1 \in Int /\ d + k \in Int /\ \A l \in (d + 1)..(d + k) : w[l] \in Nat
      BY <1>1
    <3> QED  BY <2>1, <3>1, SubSeqProperties
  <2> QED  BY <2>1, <2>2
<1>4. (\A i \in 1..x : v[i] = i) /\ (\A i \in 1..y : w[i] = (x - d) + i)
  OBVIOUS
<1> HIDE DEF a
<1>5. u \in Seq(Nat) /\ Len(u) = x + Len(a)
      /\ \A i \in 1..(x + Len(a)) : u[i] = IF i <= x THEN v[i] ELSE a[i - x]
  BY <1>2, ConcatProperties
<1>6. DOMAIN u = 1..(x + k)
  BY <1>2, <1>5
<1> HIDE DEF u, x, y
<1>7. ASSUME NEW i \in DOMAIN u PROVE u[i] = i
  <2>1. i \in Nat /\ 1 <= i /\ i <= x + k
    BY <1>1, <1>6
  <2>2. u[i] = IF i <= x THEN v[i] ELSE a[i - x]
    BY <1>2, <1>5, <1>6
  <2>3. CASE i <= x
    <3>1. i \in 1..x
      BY <1>1, <2>1, <2>3
    <3> QED  BY <1>4, <2>2, <2>3, <3>1
  <2>4. CASE ~(i <= x)
    <3>0. i - x \in Int /\ 1 <= i - x /\ i - x <= k
      BY <1>1, <2>1, <2>4
    <3> DEFINE j == i - x
    <3>1. j \in Int /\ 1 <= j /\ j <= k /\ i = x + j
      BY <1>1, <2>1, <3>0
    <3>2. u[i] = a[j]
      BY <2>2, <2>4
    <3> HIDE DEF j
    <3>3. j \in 1..k /\ d + j \in Int /\ 1 <= d + j /\ d + j <= y
      BY <1>1, <3>1
    <3>4. d + j \in 1..y
      BY <1>1, <3>3
    <3>5. u[i] = w[d + j]
      BY <1>3, <3>2, <3>3
    <3>6. w[d + j] = (x - d) + (d + j)
      BY <1>4, <3>4
    <3>7. (x - d) + (d + j) = i
      BY <1>1, <3>1
    <3> QED  BY <3>5, <3>6, <3>7
  <2> QED  BY <2>3, <2>4
<1>8. Len(u) = x + k
  BY <1>2, <1>5
<1> QED  BY <1>5, <1>7, <1>8 DEF u, a, x

LEMMA AnswersAsValues ==
    ASSUME NEW p
    PROVE  AnswersAt(p) <=>
            /\ \A i \in DOMAIN received[p] : received[p][i] = i
            /\ life[p] # "closed" => p \notin failed /\ Continues(wbuf[p], Heard(p), answered[p])
  BY DEF AnswersAt, Continues

LEMMA AnswersSame ==
    ASSUME NEW p \in Peers, AnswersAt(p), received'[p] = received[p], wbuf'[p] = wbuf[p],
           answered'[p] = answered[p], p \in failed' => p \in failed, Heard(p)' = Heard(p),
           life'[p] # "closed" => life[p] # "closed"
    PROVE  AnswersAt(p)'
  BY DEF AnswersAt

LEMMA HeardSame ==
    ASSUME NEW p \in Peers, received'[p] = received[p],
           UNCHANGED <<serving, done>> \/ (done = 0 /\ done' = 0)
    PROVE  Heard(p)' = Heard(p)
  BY DEF Heard, Sending

LEMMA AnswersResponded ==
    ASSUME TypeOK, NEW p \in Peers, AnswersAt(p), NEW r \in Peers, NEW size \in Nat, Respond(r, size),
           UNCHANGED <<received, failed, serving, done, life>>
    PROVE  AnswersAt(p)'
<1>1. Heard(p)' = Heard(p)
  BY HeardSame
<1>2. CASE p = r /\ p \in Accepted /\ p \notin failed
  <2>1. wbuf'[p] = wbuf[p] \o [i \in 1..size |-> answered[p] + i] /\ answered'[p] = answered[p] + size
    BY <1>2, RespondShape
  <2>2. CASE life[p] = "closed"
    BY <2>2 DEF AnswersAt
  <2>3. CASE life[p] # "closed"
    <3> DEFINE w == wbuf[p]
               h == Heard(p)
               n == answered[p]
    <3>1. w \in Seq(Nat) /\ n \in Nat /\ h \in Int /\ Continues(w, h, n)
      <4>1. w \in Seq(Nat) /\ n \in Nat /\ received[p] \in Seq(Nat) /\ done \in Nat
        BY DEF TypeOK
      <4>2. h \in Int
        BY <4>1 DEF Heard, Sending
      <4> QED  BY <2>3, <4>1, <4>2 DEF AnswersAt, Continues
    <3>2. Continues(w \o [i \in 1..size |-> n + i], h, n + size)
      <4> HIDE DEF w, h, n
      <4> QED  BY <3>1, ContinuesMore
    <3>3. Continues(wbuf'[p], Heard(p)', answered'[p])
      BY <1>1, <2>1, <3>2
    <3>4. (\A i \in DOMAIN received[p] : received[p][i] = i) /\ p \notin failed'
      BY <1>2 DEF AnswersAt
    <3> QED  BY <3>3, <3>4 DEF AnswersAt, Continues
  <2> QED  BY <2>2, <2>3
<1>3. CASE ~(p = r /\ p \in Accepted /\ p \notin failed)
  <2>1. wbuf'[p] = wbuf[p] /\ answered'[p] = answered[p]
    BY <1>3, RespondShape
  <2> QED  BY <1>1, <2>1, AnswersSame
<1> QED  BY <1>2, <1>3

LEMMA AnswersSent1 ==
    ASSUME TypeOK, ServingOK, NEW p \in Peers, AnswersAt(p), TalkSend
    PROVE  AnswersAt(p)'
<1> DEFINE r == serving
           left == Len(wbuf[r]) - done
           n == IF room[r] < left THEN room[r] ELSE left
<1>1. tpc = "send" /\ life[r] # "closed" /\ UNCHANGED <<life, failed, answered, serving>>
      /\ received' = [received EXCEPT ![r] = @ \o SubSeq(wbuf[r], done + 1, done + n)]
      /\ \/ n = left /\ wbuf' = [wbuf EXCEPT ![r] = Unsent(r, done + n)] /\ done' = 0
         \/ done' = done + n /\ UNCHANGED wbuf
  <2>1. tpc = "send" /\ life[r] # "closed" /\ UNCHANGED <<life, failed, answered, serving>>
    BY DEF TalkSend, main
  <2>2. received' = [received EXCEPT ![r] = @ \o SubSeq(wbuf[r], done + 1, done + n)]
    BY Zenon DEF TalkSend
  <2>3. \/ n = left /\ wbuf' = [wbuf EXCEPT ![r] = Unsent(r, done + n)] /\ done' = 0
        \/ done' = done + n /\ UNCHANGED <<wbuf, tpc>>
    BY Zenon DEF TalkSend
  <2> HIDE DEF n, left
  <2> QED  BY <2>1, <2>2, <2>3
<1>2. r \in Peers /\ wbuf[r] \in Seq(Nat) /\ done \in 0..Len(wbuf[r]) /\ received[r] \in Seq(Nat)
      /\ room[r] \in Nat
  BY <1>1, SendFacts
<1>3. received \in [Peers -> Seq(Nat)] /\ wbuf \in [Peers -> Seq(Nat)] /\ answered[p] \in Nat
  BY DEF TypeOK
<1>4. CASE p # r
  <2>1. received'[p] = received[p] /\ wbuf'[p] = wbuf[p]
    <3> HIDE DEF n, left
    <3> QED  BY <1>1, <1>2, <1>3, <1>4
  <2>2. Heard(p)' = Heard(p)
    BY <1>1, <1>4, <2>1 DEF Heard, Sending
  <2> QED  BY <1>1, <2>1, <2>2, AnswersSame
<1>5. CASE p = r
  <2> DEFINE v == received[p]
             w == wbuf[p]
             d == done
             u == v \o SubSeq(w, d + 1, d + n)
  <2>1. left \in Nat /\ n \in 0..left /\ left = Len(w) - d
    BY <1>2, <1>5
  <2>2. Heard(p) = Len(v) - d
    BY <1>5 DEF Heard, Sending
  <2>3. (\A i \in DOMAIN v : v[i] = i) /\ (\A i \in DOMAIN w : w[i] = (Len(v) - d) + i)
        /\ p \notin failed /\ answered[p] = (Len(v) - d) + Len(w)
    BY <1>1, <1>5, <2>2 DEF AnswersAt
  <2>4. v \in Seq(Nat) /\ w \in Seq(Nat) /\ d \in 0..Len(w) /\ n \in 0..(Len(w) - d)
    BY <1>2, <1>5, <2>1
  <2> HIDE DEF n, left
  <2>5. u \in Seq(Nat) /\ Len(u) = Len(v) + n /\ \A i \in DOMAIN u : u[i] = i
    <3> HIDE DEF v, w, d
    <3> QED  BY <2>3, <2>4, HeardMore
  <2>6. received'[p] = u
    BY <1>1, <1>2, <1>3, <1>5
  <2>7. CASE n = left /\ wbuf' = [wbuf EXCEPT ![r] = Unsent(r, d + n)] /\ done' = 0
    <3>1. Len(w) - (d + n) = 0
      BY <2>1, <2>4, <2>7
    <3>2. wbuf'[p] = Unsent(p, d + n)
      BY <1>2, <1>3, <1>5, <2>7
    <3>3. Unsent(p, d + n) = <<>>
      BY <2>4, <3>1 DEF Unsent
    <3>4. Heard(p)' = Len(u)
      BY <2>5, <2>6, <2>7 DEF Heard, Sending
    <3>5. answered[p] = Len(u)
      <4> DEFINE x == Len(v)
                 y == Len(w)
                 z == Len(u)
      <4>1. x \in Nat /\ y \in Nat /\ d \in Nat /\ n \in Nat
        BY <2>1, <2>4
      <4>2. answered[p] = (x - d) + y /\ n = y - d /\ z = x + n
        BY <2>1, <2>3, <2>5, <2>7
      <4> HIDE DEF x, y, z, d
      <4>3. answered[p] = z
        BY <4>1, <4>2
      <4> QED  BY <4>3 DEF z
    <3> HIDE DEF u
    <3>6. answered'[p] = Heard(p)' + Len(wbuf'[p]) /\ DOMAIN wbuf'[p] = {}
      BY <1>1, <1>3, <3>2, <3>3, <3>4, <3>5
    <3> QED  BY <1>1, <2>3, <2>5, <2>6, <3>6 DEF AnswersAt
  <2>8. CASE done' = d + n /\ UNCHANGED wbuf
    <3>1. Heard(p)' = Len(u) - (d + n)
      BY <1>1, <1>5, <2>6, <2>8 DEF Heard, Sending
    <3>2. Len(u) - (d + n) = Len(v) - d
      <4> DEFINE x == Len(v)
                 z == Len(u)
      <4>1. x \in Nat /\ d \in Nat /\ n \in Nat
        BY <2>1, <2>4
      <4>3. z = x + n
        BY <2>5, Zenon
      <4> HIDE DEF x, z, d
      <4>2. z - (d + n) = x - d
        BY <4>1, <4>3
      <4> QED  BY <4>2 DEF x, z
    <3> HIDE DEF u
    <3>3. Heard(p)' = Heard(p)
      BY <2>2, <3>1, <3>2
    <3> QED  BY <1>1, <2>2, <2>3, <2>5, <2>6, <2>8, <3>3 DEF AnswersAt
  <2> QED  BY <1>1, <2>7, <2>8
<1> QED  BY <1>4, <1>5

LEMMA NextAnswers ==
    TypeOK /\ ServingOK /\ PlacesOK /\ AnswersOK /\ [Next]_vars => AnswersOK'
<1> SUFFICES ASSUME TypeOK, ServingOK, PlacesOK, AnswersOK, [Next]_vars, NEW p \in Peers
             PROVE  AnswersAt(p)'
  BY DEF AnswersOK, AnswersAt
<1>0. AnswersAt(p)
  BY DEF AnswersOK, AnswersAt
<1>00. tpc # "send" => done = 0
  BY DEF ServingOK
<1>1. CASE TalkTop \/ TalkExit \/ TalkReadFails \/ TalkReadEnds \/ TalkDispatch \/ TalkDispatched
           \/ \E n \in 1..ReadLimit : TalkRead(n)
  <2>1. UNCHANGED <<received, wbuf, answered, failed, life, serving, done>>
    BY <1>1 DEF TalkTop, TalkExit, TalkReadFails, TalkReadEnds, TalkDispatch, TalkDispatched, TalkRead,
                wire, shared, turn, main
  <2> QED  BY <1>0, <2>1, HeardSame, AnswersSame
<1>2. CASE TalkPoll
  <2>1. UNCHANGED <<received, wbuf, answered, failed, life, done>> /\ tpc = "poll"
    BY <1>2 DEF TalkPoll, wire, shared, main
  <2> QED  BY <1>0, <1>00, <2>1, HeardSame, AnswersSame
<1>3. CASE TalkSend
  BY <1>0, <1>3, AnswersSent1
<1>4. CASE TalkSendFails
  <2>1. serving \in Peers /\ life[serving] = "closed" /\ done' = 0 /\ wbuf \in [Peers -> Seq(Nat)]
        /\ UNCHANGED <<received, answered, life, serving>>
    BY <1>4, SendFacts DEF TalkSendFails, TypeOK, wire, main
  <2>2. CASE p = serving
    BY <1>0, <2>1, <2>2 DEF AnswersAt
  <2>3. CASE p # serving
    <3>1. wbuf'[p] = wbuf[p] /\ (p \in failed' => p \in failed)
      BY <1>4, <2>1, <2>3 DEF TalkSendFails
    <3>2. Heard(p)' = Heard(p)
      BY <2>1, <2>3 DEF Heard, Sending
    <3> QED  BY <1>0, <2>1, <3>1, <3>2, AnswersSame
  <2> QED  BY <2>2, <2>3
<1>5. ASSUME NEW r \in Peers, TalkAccept(r) PROVE AnswersAt(p)'
  <2>1. UNCHANGED <<received, wbuf, answered, failed, serving, done>> /\ tpc = "accept" /\ r \in backlog
    BY <1>5 DEF TalkAccept, main
  <2>2. life' = life \/ life' = [life EXCEPT ![r] = "refused"]
    BY <1>5 DEF TalkAccept
  <2>3. Heard(p)' = Heard(p) /\ done = 0
    BY <1>00, <2>1, HeardSame
  <2>4. CASE p = r
    <3>1. received[p] = <<>> /\ answered[p] = 0 /\ p \notin failed /\ wbuf[p] = <<>>
      BY <2>1, <2>4 DEF PlacesOK
    <3>2. Heard(p) = 0
      BY <2>3, <3>1 DEF Heard, Sending
    <3> QED  BY <2>1, <2>3, <3>1, <3>2 DEF AnswersAt
  <2>5. CASE p # r
    <3>1. life'[p] = life[p]
      BY <2>2, <2>5 DEF TypeOK
    <3> QED  BY <1>0, <2>1, <2>3, <3>1, AnswersSame
  <2> QED  BY <2>4, <2>5
<1>6. CASE MainTake \/ MainShutdown
  <2>1. UNCHANGED <<received, wbuf, answered, failed, life, serving, done>>
    BY <1>6 DEF MainTake, MainShutdown, wire, shared, turn
  <2> QED  BY <1>0, <2>1, HeardSame, AnswersSame
<1>7. CASE MainHandle
  <2> DEFINE r == Head(batch).peer
  <2>1. UNCHANGED <<received, failed, serving, done, life>> /\ r \in Peers
        /\ (HandleNow(r) \/ HandleLater(r))
    BY <1>7, HandleShape DEF wire, turn
  <2> HIDE DEF r
  <2>2. CASE HandleNow(r)
    BY <1>0, <2>1, <2>2, AnswersResponded DEF HandleNow
  <2>3. CASE HandleLater(r)
    BY <1>0, <2>1, <2>3, HeardSame, AnswersSame DEF HandleLater
  <2> QED  BY <2>1, <2>2, <2>3
<1>8. ASSUME NEW r \in Peers, MainAnswersLater(r) PROVE AnswersAt(p)'
  <2>1. UNCHANGED <<received, failed, serving, done, life>> /\ \E size \in Nat : Respond(r, size)
    BY <1>8, LaterShape DEF wire, turn
  <2> QED  BY <1>0, <2>1, AnswersResponded
<1>9. ASSUME NEW r \in Peers, PeerConnects(r) \/ PeerSends(r) \/ PeerReads(r) \/ PeerEnds(r) \/ PeerCloses(r)
       PROVE  AnswersAt(p)'
  <2>1. UNCHANGED <<received, wbuf, answered, failed, serving, done>>
    BY <1>9 DEF PeerConnects, PeerSends, PeerReads, PeerEnds, PeerCloses, shared, turn, main
  <2>2. life'[p] # "closed" => life[p] # "closed"
    <3>1. life \in [Peers -> {"none", "open", "ended", "closed", "refused"}]
      BY DEF TypeOK
    <3>2. \/ life' = life
          \/ life[r] = "none" /\ life' = [life EXCEPT ![r] = "open"]
          \/ life[r] = "open" /\ life' = [life EXCEPT ![r] = "ended"]
          \/ life' = [life EXCEPT ![r] = "closed"]
      BY <1>9 DEF PeerConnects, PeerSends, PeerReads, PeerEnds, PeerCloses
    <3> QED  BY <3>1, <3>2
  <2> QED  BY <1>0, <2>1, <2>2, HeardSame, AnswersSame
<1>10. CASE UNCHANGED vars
  <2>1. UNCHANGED <<received, wbuf, answered, failed, life, serving, done>>
    BY <1>10 DEF vars, wire, shared, turn, main
  <2> QED  BY <1>0, <2>1, HeardSame, AnswersSame
<1> QED
  BY <1>1, <1>2, <1>3, <1>4, <1>5, <1>6, <1>7, <1>8, <1>9, <1>10 DEF Next, TalkThread, MainThread
-----------------------------------------------------------------------------
(* The theorems.                                                           *)

LEMMA InitInv == Init => Inv
<1> SUFFICES ASSUME Init PROVE Inv
  OBVIOUS
<1> USE DEF Init
<1>0. Accepted = {}
  BY DEF Accepted
<1>1. TypeOK
  <2>0. {PeerLimit, ReadLimit, Room} \subseteq Nat
    BY LimitsAssumption
  <2>1. <<>> \in Seq(Peers) /\ <<>> \in Seq(Message) /\ <<>> \in Seq(Nat) /\ <<>> \in Seq(Seq(Nat))
        /\ Len(<<>>) = 0
    OBVIOUS
  <2>2. Room \in 0..Room /\ 0 <= PeerLimit /\ 0 <= ReadLimit
    BY <2>0
  <2>3. life \in [Peers -> {"none", "open", "ended", "closed", "refused"}] /\ backlog \subseteq Peers
    OBVIOUS
  <2>4. /\ sent \in [Peers -> Nat] /\ owing \in [Peers -> Nat] /\ later \in [Peers -> Nat]
        /\ answered \in [Peers -> Nat] /\ room \in [Peers -> 0..Room] /\ done \in Nat
    BY <2>2
  <2>5. /\ net \in [Peers -> Seq(Nat)] /\ received \in [Peers -> Seq(Nat)]
        /\ rbuf \in [Peers -> Seq(Nat)] /\ wbuf \in [Peers -> Seq(Nat)]
        /\ told \in [Peers -> Seq(Seq(Nat))]
    BY <2>1
  <2>6. peers \in Seq(Peers) /\ Len(peers) <= PeerLimit /\ msgs \in Seq(Message) /\ batch \in Seq(Message)
        /\ \A p \in Peers : Len(rbuf[p]) <= ReadLimit
    BY <2>1, <2>2
  <2>7. /\ tpc \in {"top", "poll", "accept", "read", "dispatch", "send", "done"}
        /\ {wake, mainwake, shutting} \subseteq BOOLEAN
        /\ serving \in Peers \cup {None} /\ ready \subseteq {"in", "out"}
        /\ finished \subseteq Peers /\ failed \subseteq Peers /\ pollin \subseteq Peers /\ pollout \subseteq Peers
    OBVIOUS
  <2> QED  BY <2>3, <2>4, <2>5, <2>6, <2>7, Zenon DEF TypeOK
<1>2. ServingOK
  BY <1>0 DEF ServingOK
<1>3. PlacesOK
  BY <1>0 DEF PlacesOK
<1>4. MessagesOK
  BY DEF MessagesOK, AllTold, Ordered
<1>5. ASSUME NEW p \in Peers PROVE Waiting(msgs, p) = 0 /\ Waiting(batch, p) = 0
  BY WaitingNone
<1>6. OwedPeerStays
  BY <1>5, OwedIsOwed DEF Owed
<1>7. StreamOK
  <2> SUFFICES ASSUME NEW p \in Peers \ Raw PROVE StreamAt(p)
    BY DEF StreamOK, StreamAt
  <2>1. Queued(p) = 0
    BY <1>5 DEF Queued, Taken
  <2>2. rbuf[p] = <<>> /\ net[p] = <<>> /\ sent[p] = 0 /\ finished = {} /\ tpc # "dispatch"
    OBVIOUS
  <2>3. Flowing(0, <<>>, <<>>, 0)
    BY DEF Flowing
  <2>4. CommandEnds(p) = {}
    BY <2>2 DEF CommandEnds
  <2> QED  BY <2>1, <2>2, <2>3, <2>4 DEF StreamAt
<1>8. AnswersOK
  BY DEF AnswersOK, Heard, Sending
<1>9. SleepsWatching
  BY DEF SleepsWatching
<1> QED  BY <1>1, <1>2, <1>3, <1>4, <1>6, <1>7, <1>8, <1>9 DEF Inv

LEMMA NextInv == Inv /\ [Next]_vars => Inv'
  BY NextType, NextServing, NextPlaces, NextMessages, NextStream, NextAnswers, NextOwed, NextSleeps DEF Inv

LEMMA InvAlways == Spec => []Inv
<1>1. Init => Inv
  BY InitInv
<1>2. Inv /\ [Next]_vars => Inv'
  BY NextInv
<1> QED  BY <1>1, <1>2, PTL DEF Spec

(* talk_loop(), read_from_peer(), accept_peer(): with any number of peers  *)
(* the array stays within PEER_LIMIT and each read buffer within its       *)
(* limit, and every variable has its type.                                 *)
THEOREM TalkTyped == Spec => []TypeOK
<1>1. Inv => TypeOK
  BY DEF Inv
<1> QED  BY <1>1, InvAlways, PTL

(* has_complete_peer_command(), dispatch_peer_command(), write_to_peer():  *)
(* however recv() and send() cut the streams, the main thread sees the     *)
(* commands of every peer whole and in order, and a peer gets its answers  *)
(* in order, each byte once.                                               *)
THEOREM StreamsAreWhole == Spec => []StreamsWhole
<1>1. Inv => StreamsWhole
  <2> SUFFICES ASSUME Inv PROVE StreamsWhole
    OBVIOUS
  <2>1. CommandsWhole
    BY DEF Inv, MessagesOK, AllTold, Fits, CommandsWhole
  <2>2. AnswersInOrder
    BY DEF Inv, AnswersOK, AnswersInOrder
  <2> QED  BY <2>1, <2>2 DEF StreamsWhole
<1> QED  BY <1>1, InvAlways, PTL

(* queue_peer_message(), send_response_to_peer(), prune_peers(): the       *)
(* counter of a peer is the number of its messages that are queued, taken  *)
(* or promised an answer, and such a peer is not freed.                    *)
THEOREM OwedPeersStay == Spec => []OwedPeerStays
<1>1. Inv => OwedPeerStays
  BY DEF Inv
<1> QED  BY <1>1, InvAlways, PTL

(* talk_loop(), wakeup_talk_loop(): when the talk thread waits in poll()   *)
(* with no wake-up pending there is no answer it does not watch the socket *)
(* for, no peer to free and no shutdown.                                   *)
THEOREM TalkThreadWatches == Spec => []SleepsWatching
<1>1. Inv => SleepsWatching
  BY DEF Inv
<1> QED  BY <1>1, InvAlways, PTL
=============================================================================
