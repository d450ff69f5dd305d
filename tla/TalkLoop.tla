------------------------------ MODULE TalkLoop -------------------------------
(***************************************************************************)
(* The remote control sockets of smelly/child-monitor.c.  The talk thread  *)
(* accepts peers, cuts what they send into commands and queues these for   *)
(* the main thread; the main thread answers each of them, at once or       *)
(* later, into the write buffer of the peer, which the talk thread sends.  *)
(*                                                                         *)
(* A command is two tokens on the wire, the k-th token of a peer is k and  *)
(* even tokens end a command.  A Raw peer sends something else (the data   *)
(* of another smelly instance), which is one message that ends when the    *)
(* peer stops sending.  Answers are numbered in the same way.  A wake-up   *)
(* is one step with the critical section it follows.                       *)
(***************************************************************************)
EXTENDS Integers, Sequences, FiniteSetsExt

CONSTANTS
    Peers,
    Raw,         \* peers that send no commands
    Sends,       \* [Peers -> Nat], bound on the tokens a peer sends
    MayClose,    \* peers that may close the socket at any time
    PeerLimit,   \* PEER_LIMIT
    ReadLimit,   \* 64 KB, what a message may have
    Room,        \* what a socket takes before the peer reads
    Answers,     \* sizes of an answer
    None         \* no peer

ASSUME PeersAssumption ==
    Raw \subseteq Peers /\ MayClose \subseteq Peers /\ None \notin Peers /\ Sends \in [Peers -> Nat]
ASSUME LimitsAssumption ==
    {PeerLimit, ReadLimit, Room} \subseteq Nat \ {0} /\ Answers \subseteq Nat \ {0}

VARIABLES
    \* the peers and the kernel
    life,      \* of the peer's end: "ended" sends no more, "refused" by PEER_LIMIT
    backlog,   \* connected, not yet accepted
    sent,      \* tokens sent so far
    net,       \* of these, not yet received
    room,      \* what the socket still takes
    received,  \* what the peer was sent
    \* talk_data, read.* is the talk thread's own, the rest under talk_lock
    peers,     \* the array, in the order of acceptance
    rbuf,      \* read.data
    finished,  \* peers with read.finished
    owing,     \* num_of_unresponded_messages_sent_to_main_thread
    wbuf,      \* write.data
    failed,    \* peers with write.failed
    msgs,      \* self->messages
    \* the talk thread
    tpc,       \* control point
    pollin, pollout, \* peers with an fd_array_idx, by their events
    serving,   \* the peer whose events it handles
    ready,     \* those events
    done,      \* bytes that the running send() has sent
    wake,      \* the event fd of talk_data is readable
    \* the main thread
    batch,     \* messages it has taken
    later,     \* answers it will give later, by peer
    mainwake,  \* an empty event was posted
    shutting,  \* shutting_down
    \* history
    told,      \* messages of each peer that the main thread handled
    answered   \* tokens put in each write buffer

wire == <<life, backlog, sent, net, room, received>>
shared == <<peers, rbuf, finished, owing, wbuf, failed, msgs>>
turn == <<tpc, pollin, pollout, serving, ready, done>>
main == <<batch, later, mainwake, shutting, told, answered>>
vars == <<wire, shared, turn, wake, main>>

Message == [peer : Peers, body : Seq(Nat)]

Accepted == {peers[i] : i \in DOMAIN peers}

TypeOK ==
    /\ life \in [Peers -> {"none", "open", "ended", "closed", "refused"}] /\ backlog \subseteq Peers
    /\ sent \in [Peers -> Nat] /\ net \in [Peers -> Seq(Nat)]
    /\ room \in [Peers -> 0..Room] /\ received \in [Peers -> Seq(Nat)]
    /\ peers \in Seq(Peers) /\ Len(peers) <= PeerLimit
    /\ rbuf \in [Peers -> Seq(Nat)] /\ \A p \in Peers : Len(rbuf[p]) <= ReadLimit
    /\ finished \subseteq Peers /\ failed \subseteq Peers
    /\ owing \in [Peers -> Nat]
    /\ wbuf \in [Peers -> Seq(Nat)]
    /\ msgs \in Seq(Message) /\ batch \in Seq(Message)
    /\ tpc \in {"top", "poll", "accept", "read", "dispatch", "send", "done"}
    /\ pollin \subseteq Peers /\ pollout \subseteq Peers
    /\ serving \in Peers \cup {None} /\ ready \subseteq {"in", "out"}
    /\ done \in Nat
    /\ {wake, mainwake, shutting} \subseteq BOOLEAN
    /\ later \in [Peers -> Nat]
    /\ told \in [Peers -> Seq(Seq(Nat))] /\ answered \in [Peers -> Nat]

Init ==
    /\ life = [p \in Peers |-> "none"] /\ backlog = {} /\ sent = [p \in Peers |-> 0]
    /\ net = [p \in Peers |-> <<>>] /\ room = [p \in Peers |-> Room]
    /\ received = [p \in Peers |-> <<>>]
    /\ peers = <<>> /\ rbuf = [p \in Peers |-> <<>>] /\ finished = {}
    /\ owing = [p \in Peers |-> 0] /\ wbuf = [p \in Peers |-> <<>>] /\ failed = {}
    /\ msgs = <<>> /\ batch = <<>>
    /\ tpc = "top" /\ pollin = {} /\ pollout = {}
    /\ serving = None /\ ready = {} /\ done = 0 /\ wake = FALSE
    /\ later = [p \in Peers |-> 0] /\ mainwake = FALSE /\ shutting = FALSE
    /\ told = [p \in Peers |-> <<>>] /\ answered = [p \in Peers |-> 0]
-----------------------------------------------------------------------------
(* The peers.  What a peer sends once it is finished stays in the kernel.  *)

PeerConnects(p) ==
    /\ life[p] = "none"
    /\ life' = [life EXCEPT ![p] = "open"]
    /\ backlog' = backlog \cup {p}
    /\ UNCHANGED <<sent, net, room, received, shared, turn, wake, main>>

PeerSends(p) ==
    /\ life[p] = "open" /\ p \notin finished /\ sent[p] < Sends[p]
    /\ sent' = [sent EXCEPT ![p] = @ + 1]
    /\ net' = [net EXCEPT ![p] = Append(@, sent'[p])]
    /\ UNCHANGED <<life, backlog, room, received, shared, turn, wake, main>>

PeerReads(p) ==
    /\ life[p] \in {"open", "ended"} /\ room[p] < Room
    /\ room' = [room EXCEPT ![p] = Room]
    /\ UNCHANGED <<life, backlog, sent, net, received, shared, turn, wake, main>>

(* shutdown(SHUT_WR): the peer still reads.  PeerCloses is close().        *)
PeerEnds(p) ==
    /\ life[p] = "open"
    /\ life' = [life EXCEPT ![p] = "ended"]
    /\ UNCHANGED <<backlog, sent, net, room, received, shared, turn, wake, main>>

PeerCloses(p) ==
    /\ p \in MayClose /\ life[p] \in {"open", "ended"}
    /\ life' = [life EXCEPT ![p] = "closed"]
    /\ UNCHANGED <<backlog, sent, net, room, received, shared, turn, wake, main>>
-----------------------------------------------------------------------------
(* The talk thread: one turn.                                              *)

(* prune_peers() frees a peer that is owed nothing.                        *)
IdleThoughOwed(p) == p \in finished /\ wbuf[p] = <<>>
Idle(p) == p \in finished /\ owing[p] = 0 /\ wbuf[p] = <<>>

Pruned ==
    LET upto[i \in 0..Len(peers)] ==
            IF i = 0 THEN <<>>
            ELSE IF Idle(peers[i]) THEN upto[i - 1] ELSE Append(upto[i - 1], peers[i])
    IN  upto[Len(peers)]

TalkTop ==
    LET kept == {p \in Accepted : ~Idle(p)} IN
    /\ tpc = "top" /\ ~shutting
    /\ peers' = Pruned
    /\ pollin' = kept \ finished
    /\ pollout' = {p \in kept : wbuf[p] # <<>>}
    /\ tpc' = "poll"
    /\ UNCHANGED <<wire, rbuf, finished, owing, wbuf, failed, msgs, serving, ready, done, wake,
                   main>>

TalkExit ==
    /\ tpc = "top" /\ shutting
    /\ tpc' = "done"
    /\ UNCHANGED <<wire, shared, pollin, pollout, serving, ready, done, wake, main>>

(* What poll() reports of a peer; that it closed is always reported.       *)
Revents(p) ==
    LET in == \/ life[p] = "closed"
              \/ p \in pollin /\ (net[p] # <<>> \/ life[p] = "ended")
        out == p \in pollout /\ (room[p] > 0 \/ life[p] = "closed")
    IN  IF p \in pollin \cup pollout
        THEN {e \in {"in", "out"} : (e = "in" /\ in) \/ (e = "out" /\ out)}
        ELSE {}

(* The loop over the peers ends at the first that was polled, ready or     *)
(* not.                                                                    *)
First ==
    LET at == {i \in DOMAIN peers : peers[i] \in pollin \cup pollout}
    IN  IF at = {} THEN None ELSE peers[Min(at)]

Serve(events) == IF "in" \in events THEN "read" ELSE IF "out" \in events THEN "send" ELSE "top"
AfterRead == IF "out" \in ready THEN "send" ELSE "top"

TalkPoll ==
    /\ tpc = "poll"
    /\ wake \/ backlog # {} \/ \E p \in Peers : Revents(p) # {}
    /\ serving' = First
    /\ ready' = IF First = None THEN {} ELSE Revents(First)
    /\ tpc' = IF backlog # {} THEN "accept" ELSE Serve(ready')
    /\ wake' = FALSE
    /\ pollin' = {} /\ pollout' = {}
    /\ UNCHANGED <<wire, shared, done, main>>

(* accept_peer(): beyond the limit a peer is hung up.                      *)
OneTooMany == Len(peers) <= PeerLimit
RoomForPeer == Len(peers) < PeerLimit

TalkAccept(p) ==
    /\ tpc = "accept" /\ p \in backlog
    /\ backlog' = backlog \ {p}
    /\ IF RoomForPeer
       THEN peers' = Append(peers, p) /\ UNCHANGED life
       ELSE life' = [life EXCEPT ![p] = "refused"] /\ UNCHANGED peers
    /\ tpc' = Serve(ready)
    /\ UNCHANGED <<sent, net, room, received, rbuf, finished, owing, wbuf, failed, msgs, pollin,
                   pollout, serving, ready, done, wake, main>>

(* queue_peer_message()                                                    *)
QueuedSilently(p, body) ==
    /\ msgs' = Append(msgs, [peer |-> p, body |-> body])
    /\ owing' = [owing EXCEPT ![p] = @ + 1]
    /\ UNCHANGED mainwake
Queue(p, body) ==
    /\ msgs' = Append(msgs, [peer |-> p, body |-> body])
    /\ owing' = [owing EXCEPT ![p] = @ + 1]
    /\ mainwake' = TRUE

(* read_from_peer(): the buffer grows up to its limit.                     *)
SpaceTwice(p) == 2 * ReadLimit - Len(rbuf[p])
Space(p) == ReadLimit - Len(rbuf[p])

TalkRead(n) ==
    LET p == serving IN
    /\ tpc = "read"
    /\ n <= Len(net[p]) /\ n <= Space(p)
    /\ rbuf' = [rbuf EXCEPT ![p] = @ \o SubSeq(net[p], 1, n)]
    /\ net' = [net EXCEPT ![p] = SubSeq(@, n + 1, Len(@))]
    /\ tpc' = "dispatch"
    /\ UNCHANGED <<life, backlog, sent, room, received, peers, finished, owing, wbuf, failed, msgs,
                   pollin, pollout, serving, ready, done, wake, main>>

(* A message that is too large, or an error of recv().                     *)
TalkReadFails ==
    LET p == serving IN
    /\ tpc = "read"
    /\ \/ Len(rbuf[p]) >= ReadLimit
       \/ net[p] = <<>> /\ life[p] = "closed" /\ room[p] < Room
    /\ finished' = finished \cup {p}
    /\ tpc' = AfterRead
    /\ UNCHANGED <<wire, peers, rbuf, owing, wbuf, failed, msgs, pollin, pollout, serving, ready,
                   done, wake, main>>

(* The end of what the peer sends makes a message of the rest, if only an  *)
(* empty one.                                                              *)
TalkReadEnds ==
    LET p == serving IN
    /\ tpc = "read"
    /\ net[p] = <<>> /\ life[p] \in {"ended", "closed"} /\ Len(rbuf[p]) < ReadLimit
    /\ finished' = finished \cup {p}
    /\ Queue(p, rbuf[p])
    /\ rbuf' = [rbuf EXCEPT ![p] = <<>>]
    /\ tpc' = AfterRead
    /\ UNCHANGED <<wire, peers, wbuf, failed, pollin, pollout, serving, ready, done, wake, batch,
                   later, shutting, told, answered>>

(* has_complete_peer_command(), dispatch_peer_command()                    *)
CommandEnds(p) == IF p \in Raw THEN {} ELSE {i \in DOMAIN rbuf[p] : rbuf[p][i] % 2 = 0}

RestNotMoved(p, end) == SubSeq(rbuf[p], 1, Len(rbuf[p]) - end)
Rest(p, end) == SubSeq(rbuf[p], end + 1, Len(rbuf[p]))

TalkDispatch ==
    LET p == serving
        end == Min(CommandEnds(p))
    IN
    /\ tpc = "dispatch" /\ CommandEnds(p) # {}
    /\ Queue(p, SubSeq(rbuf[p], 1, end))
    /\ rbuf' = [rbuf EXCEPT ![p] = Rest(p, end)]
    /\ UNCHANGED <<wire, peers, finished, wbuf, failed, turn, wake, batch, later, shutting, told,
                   answered>>

TalkDispatched ==
    /\ tpc = "dispatch" /\ CommandEnds(serving) = {}
    /\ tpc' = AfterRead
    /\ UNCHANGED <<wire, shared, pollin, pollout, serving, ready, done, wake, main>>

(* write_to_peer(): send() on a blocking socket returns when it has sent   *)
(* everything, and holds talk_lock all the time.  memmove() is guarded by  *)
(* the wrong comparison and never called.                                  *)
Unsent(p, n) == SubSeq(wbuf[p], 1, Len(wbuf[p]) - n)

TalkSend ==
    LET p == serving
        left == Len(wbuf[p]) - done
        n == IF room[p] < left THEN room[p] ELSE left
    IN
    /\ tpc = "send" /\ life[p] # "closed" /\ room[p] > 0
    /\ received' = [received EXCEPT ![p] = @ \o SubSeq(wbuf[p], done + 1, done + n)]
    /\ room' = [room EXCEPT ![p] = @ - n]
    /\ IF n = left
       THEN wbuf' = [wbuf EXCEPT ![p] = Unsent(p, done + n)] /\ done' = 0 /\ tpc' = "top"
       ELSE done' = done + n /\ UNCHANGED <<wbuf, tpc>>
    /\ UNCHANGED <<life, backlog, sent, net, peers, rbuf, finished, owing, failed, msgs, pollin,
                   pollout, serving, ready, wake, main>>

(* The peer closed: what was sent is reported, else the error.             *)
TalkSendFails ==
    LET p == serving IN
    /\ tpc = "send" /\ life[p] = "closed"
    /\ wbuf' = [wbuf EXCEPT ![p] = IF done > 0 THEN Unsent(p, done) ELSE <<>>]
    /\ failed' = IF done > 0 THEN failed ELSE failed \cup {p}
    /\ done' = 0
    /\ tpc' = "top"
    /\ UNCHANGED <<wire, peers, rbuf, finished, owing, msgs, pollin, pollout, serving, ready, wake,
                   main>>
-----------------------------------------------------------------------------
(* The main thread: it waits for talk_lock while a send() is under way.    *)

LockFree == done = 0

(* parse_input()                                                           *)
MainTake ==
    /\ mainwake /\ batch = <<>> /\ ~shutting /\ LockFree
    /\ batch' = msgs /\ msgs' = <<>>
    /\ mainwake' = FALSE
    /\ UNCHANGED <<wire, peers, rbuf, finished, owing, wbuf, failed, turn, wake, later, shutting,
                   told, answered>>

(* send_response_to_peer(), with an answer of size 0 if there is none.     *)
Extended(p, data) == wbuf[p] \o data

WakeNever == UNCHANGED wake
WakeTalkLoop == wake' = TRUE

Respond(p, size) ==
    LET data == [i \in 1..size |-> answered[p] + i]
        taken == p \in Accepted /\ p \notin failed
    IN
    /\ LockFree
    /\ IF p \in Accepted
       THEN /\ owing' = [owing EXCEPT ![p] = IF @ > 0 THEN @ - 1 ELSE @]
            /\ WakeTalkLoop
       ELSE UNCHANGED <<owing, wake>>
    /\ wbuf' = IF taken THEN [wbuf EXCEPT ![p] = Extended(p, data)] ELSE wbuf
    /\ answered' = IF taken THEN [answered EXCEPT ![p] = @ + size] ELSE answered

IsCommand(m) == m.peer \notin Raw /\ m.body # <<>> /\ m.body[Len(m.body)] % 2 = 0

(* Boss.peer_message_received(): a command is answered, asks for no        *)
(* answer, or will be answered later; anything else has no answer.         *)
MainHandle ==
    LET m == Head(batch) IN
    /\ batch # <<>> /\ ~shutting
    /\ batch' = Tail(batch)
    /\ told' = [told EXCEPT ![m.peer] = Append(@, m.body)]
    /\ \/ Respond(m.peer, 0) /\ UNCHANGED later
       \/ IsCommand(m) /\ UNCHANGED later /\ \E size \in Answers : Respond(m.peer, size)
       \/ /\ IsCommand(m)
          /\ later' = [later EXCEPT ![m.peer] = @ + 1]
          /\ UNCHANGED <<owing, wake, wbuf, answered>>
    /\ UNCHANGED <<wire, peers, rbuf, finished, failed, msgs, turn, mainwake, shutting>>

(* An AsyncResponse is due: send_data_to_peer().                           *)
MainAnswersLater(p) ==
    /\ later[p] > 0 /\ batch = <<>> /\ ~shutting
    /\ later' = [later EXCEPT ![p] = @ - 1]
    /\ \E size \in Answers \cup {0} : Respond(p, size)
    /\ UNCHANGED <<wire, peers, rbuf, finished, failed, msgs, turn, batch, mainwake, shutting, told>>

(* shutdown_monitor()                                                      *)
MainShutdown ==
    /\ batch = <<>> /\ ~shutting
    /\ shutting' = TRUE
    /\ WakeTalkLoop
    /\ UNCHANGED <<wire, shared, turn, batch, later, mainwake, told, answered>>
-----------------------------------------------------------------------------
TalkThread ==
    \/ TalkTop \/ TalkExit \/ TalkPoll \/ TalkReadFails \/ TalkReadEnds
    \/ TalkDispatch \/ TalkDispatched \/ TalkSend \/ TalkSendFails
    \/ \E p \in Peers : TalkAccept(p)
    \/ \E n \in 1..ReadLimit : TalkRead(n)

MainThread == MainTake \/ MainHandle

Next ==
    \/ TalkThread \/ MainThread \/ MainShutdown
    \/ \E p \in Peers :
        \/ PeerConnects(p) \/ PeerSends(p) \/ PeerReads(p) \/ PeerEnds(p) \/ PeerCloses(p)
        \/ MainAnswersLater(p)

Spec == Init /\ [][Next]_vars

(* Both threads run, Python gives the answers it promised, and a peer      *)
(* reads what it is sent and sooner or later stops sending: the others     *)
(* are not served before that, and the main thread would wait for a peer   *)
(* that does not read.                                                     *)
FairSpec ==
    /\ Spec /\ WF_vars(TalkThread) /\ WF_vars(MainThread)
    /\ \A p \in Peers : WF_vars(MainAnswersLater(p)) /\ WF_vars(PeerReads(p)) /\ WF_vars(PeerEnds(p))
-----------------------------------------------------------------------------
(* Properties.                                                             *)

(* The main thread sees every command of a peer whole and in order, and    *)
(* after the last of them only what the peer left unfinished, for every    *)
(* way in which recv() cuts the stream.                                    *)
CommandsWhole ==
    \A p \in Peers \ Raw : \A i \in DOMAIN told[p] :
        \/ told[p][i] = <<2 * i - 1, 2 * i>>
        \/ p \in finished /\ told[p][i] \in {<<2 * i - 1>>, <<>>}

(* A peer gets its answers in order, each byte once, also those that are   *)
(* added while others wait to be sent.                                     *)
AnswersInOrder == \A p \in Peers : \A i \in DOMAIN received[p] : received[p][i] = i

(* Both streams of a connection, cut and joined as they are.               *)
StreamsWhole == CommandsWhole /\ AnswersInOrder

(* The number of messages a peer is still owed an answer to is exactly     *)
(* what the peer's counter says; so a peer that waits for an answer is     *)
(* never freed.                                                            *)
Waiting(q, p) == Cardinality({i \in DOMAIN q : q[i].peer = p})

OwedPeerStays ==
    \A p \in Peers :
        LET due == Waiting(msgs, p) + Waiting(batch, p) + later[p]
        IN  owing[p] = due /\ (due > 0 => p \in Accepted)

(* The talk thread does not sleep on an answer it does not watch the       *)
(* socket for, on a peer it could free, or on a shutdown.                  *)
SleepsWatching ==
    tpc = "poll" /\ ~wake =>
        /\ ~shutting
        /\ \A p \in Accepted : ~Idle(p) /\ (wbuf[p] # <<>> => p \in pollout)

(* Every command that was sent is handled, unless the peer is one too      *)
(* many.                                                                   *)
CommandsHandled ==
    \A p \in Peers \ Raw : \A n \in 1..(Sends[p] \div 2) :
        sent[p] >= 2 * n ~> Len(told[p]) >= n \/ life[p] = "refused" \/ shutting

(* Answers leave the write buffer; a peer that is done is freed in the     *)
(* end; shutdown_monitor() does not wait for ever.                         *)
AnswersSent == \A p \in Peers : wbuf[p] # <<>> ~> wbuf[p] = <<>> \/ shutting
FinishedIsFreed == \A p \in Peers : p \in finished ~> p \notin Accepted \/ shutting
ShutdownEnds == shutting ~> tpc = "done"
NothingIsLeft == CommandsHandled /\ AnswersSent /\ FinishedIsFreed /\ ShutdownEnds
=============================================================================
