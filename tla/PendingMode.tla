----------------------------- MODULE PendingMode -----------------------------
(***************************************************************************)
(* Synchronized updates in smelly/parser.c.  Between "begin" and "end" the *)
(* codes a program sends are not executed but written to a second buffer,  *)
(* which is parsed when the update ends, takes too long or gets too big.   *)
(* The C parser keeps one state for both uses, and a read may end anywhere *)
(* in a code.                                                              *)
(*                                                                         *)
(* A program is a sequence of codes of the set Codes, a code a sequence of *)
(* characters of one byte; "u1", "u2" are the bytes of "u".  "?" stands for*)
(* ?2026, "1s" and "2s" for =1s and =2s.  In the pending buffer CSI, DCS   *)
(* and ST are single characters of two bytes.  What the dispatch functions *)
(* are given is in done, whether they know the code or report an error.    *)
(***************************************************************************)
EXTENDS Integers, Sequences, SequencesExt, FiniteSetsExt

CONSTANTS
    Programs,  \* the sequences of codes that may be sent
    ReadBuf    \* READ_BUF_SZ

Begin == {<<"ESC", "[", "?", "h">>, <<"ESC", "P", "1s", "ESC", "\\">>}
End == {<<"ESC", "[", "?", "l">>, <<"ESC", "P", "2s", "ESC", "\\">>}
Codes == Begin \cup End \cup
    {<<"a">>, <<"u1", "u2">>, <<"ESC", "(", "B">>, <<"ESC", "[", "3", "m">>,
     <<"ESC", "[", "BS", "m">>, <<"ESC", "P", "q", "ESC", "\\">>, <<"ESC", "P", "ESC", "7">>}

ASSUME ProgramsAssumption == Programs \subseteq Seq(Codes)
ASSUME ReadBufAssumption == ReadBuf \in Nat \ {0}

VARIABLES
    program,   \* the codes
    unread,    \* bytes of them not yet read
    rbuf,      \* of the read buffer, from read_buf_pos
    \* the parser
    state,     \* parser_state
    pbuf,      \* parser_buf up to parser_buf_pos
    u1,        \* utf8_state: after the first byte
    \* pending_mode
    active,    \* activated_at is not zero
    late,      \* it is wait_time or more ago
    pending,   \* buf
    \* do_parse_bytes()
    phase,     \* its state; "idle" while it does not run
    saved,     \* parser_state_at_start_of_pending
    drain,     \* bytes of buf that PARSE_PENDING has not yet seen
    \* the main loop
    due,       \* a tick will come
    timer,     \* the timer of set_maximum_wait() is set
    \* history
    done,      \* what the dispatch functions were given
    spoiled    \* one of the losses below happened

parser == <<state, pbuf, u1>>
vars == <<program, unread, rbuf, parser, active, late, pending, phase, saved, drain, due, timer,
          done, spoiled>>

Normal == "0"
Introducers == {"ESC", "CSI", "DCS"}
Characters == (UNION {ToSet(c) : c \in Codes}) \cup {"u", "CSI", "DCS", "ST"}

Wide(s) == {i \in DOMAIN s : s[i] \in {"CSI", "DCS", "ST"}}
Bytes(s) == Len(s) + Cardinality(Wide(s))

(* Types.  The limit of the pending buffer is looked at once per read:     *)
(* beyond it there is room for what one read brings and for one code that  *)
(* was begun before.                                                       *)
LongestCode == Max({Len(code) : code \in Codes})

TypeOK ==
    /\ program \in Programs
    /\ {unread, rbuf, pbuf, pending, drain} \subseteq Seq(Characters)
    /\ Len(rbuf) <= ReadBuf
    /\ Bytes(pending) < 2 * ReadBuf + LongestCode
    /\ {state, saved} \subseteq Introducers \cup {Normal}
    /\ {u1, active, late, due, timer, spoiled} \subseteq BOOLEAN
    /\ phase \in {"idle", "start", "queue", "queueing", "pending", "draining", "read"}
    /\ done \in Seq(Seq(Characters))

Init ==
    /\ program \in Programs /\ unread = FlattenSeq(program) /\ rbuf = <<>>
    /\ state = Normal /\ pbuf = <<>> /\ u1 = FALSE
    /\ active = FALSE /\ late = FALSE /\ pending = <<>>
    /\ phase = "idle" /\ saved = Normal /\ drain = <<>>
    /\ due = FALSE /\ timer = FALSE
    /\ done = <<>> /\ spoiled = FALSE
-----------------------------------------------------------------------------
(* Around do_parse_bytes().                                                *)

(* The I/O thread reads some bytes and wakes the main loop.                *)
Read(n) ==
    /\ phase = "idle" /\ n <= Len(unread) /\ Len(rbuf) + n <= ReadBuf
    /\ rbuf' = rbuf \o SubSeq(unread, 1, n)
    /\ unread' = SubSeq(unread, n + 1, Len(unread))
    /\ due' = TRUE
    /\ UNCHANGED <<program, parser, active, late, pending, phase, saved, drain, timer, done, spoiled>>

(* wait_time is over.  A new activation is never late in the call that     *)
(* makes it.                                                               *)
TimePasses ==
    /\ phase = "idle" /\ active /\ ~late
    /\ late' = TRUE
    /\ due' = (due \/ timer) /\ timer' = FALSE
    /\ UNCHANGED <<program, unread, rbuf, parser, active, pending, phase, saved, drain, done, spoiled>>

(* do_parse() in a tick of the main loop.                                  *)
DoParse ==
    /\ phase = "idle"
    /\ due' = FALSE /\ timer' = FALSE
    /\ phase' = IF rbuf # <<>> \/ pending # <<>> THEN "start" ELSE "idle"
    /\ saved' = Normal
    /\ UNCHANGED <<program, unread, rbuf, parser, active, late, pending, drain, done, spoiled>>

Tick == due /\ DoParse
TickForOtherReason == ~due /\ DoParse
-----------------------------------------------------------------------------
(* The loop of do_parse_bytes(): it goes on while there is something to    *)
(* read or to flush; then do_parse() sets the timer.                       *)

TimerNever == UNCHANGED timer
SetTimer == timer' = active'

Goto(p) ==
    IF rbuf' # <<>> \/ (~active' /\ pending' # <<>>)
    THEN phase' = p /\ UNCHANGED timer
    ELSE phase' = "idle" /\ SetTimer

(* dump_partial_escape_code_to_pending()                                   *)
PartialWithoutIntroducer == pbuf
Partial == IF pbuf = <<>> THEN <<>> ELSE <<state>> \o pbuf

(* The update is flushed in the middle of a code that Partial misses: its  *)
(* introducer alone, or half a character.  What follows of the code is     *)
(* then taken for text, or dropped.                                        *)
Misses == pending' # <<>> /\ ((pbuf = <<>> /\ state # Normal) \/ u1)

GiveUp ==
    /\ pending' = pending \o Partial
    /\ active' = FALSE
    /\ spoiled' = (spoiled \/ Misses)

Start ==
    /\ phase = "start"
    /\ IF active /\ late
       THEN GiveUp /\ UNCHANGED rbuf /\ Goto("start")
       ELSE /\ UNCHANGED <<rbuf, active, pending, spoiled>>
            /\ Goto(IF active THEN "queue" ELSE IF pending # <<>> THEN "pending" ELSE "read")
    /\ UNCHANGED <<program, unread, parser, late, saved, drain, due, done>>

NeverTooBig == FALSE
TooBig == Bytes(pending) >= ReadBuf

Queue ==
    /\ phase = "queue"
    /\ IF TooBig
       THEN GiveUp /\ UNCHANGED <<rbuf, saved>> /\ Goto("start")
       ELSE /\ saved' = IF pending = <<>> THEN state ELSE saved
            /\ phase' = "queueing"
            /\ UNCHANGED <<rbuf, active, pending, timer, spoiled>>
    /\ UNCHANGED <<program, unread, parser, late, drain, due, done>>

(* The parser starts over with the state saved by this call.  If the call  *)
(* began in the first code of the update, that code is in the buffer from  *)
(* its introducer on, and the parser does not expect one.                  *)
ParsePending ==
    /\ phase = "pending"
    /\ state' = saved /\ saved' = Normal
    /\ spoiled' = (spoiled \/ saved # Normal)
    /\ drain' = pending
    /\ phase' = "draining"
    /\ UNCHANGED <<program, unread, rbuf, pbuf, u1, active, late, pending, due, timer, done>>

ParsedPending ==
    /\ phase = "draining" /\ drain = <<>>
    /\ pending' = <<>> /\ active' = FALSE
    /\ UNCHANGED <<program, unread, rbuf, parser, late, saved, drain, due, done, spoiled>>
    /\ Goto("start")
-----------------------------------------------------------------------------
(* One character.  A code goes to the pending buffer or to a dispatch      *)
(* function.                                                               *)

Queueing == phase = "queueing"

HandleAtOnce(code) == done' = Append(done, code) /\ UNCHANGED pending
Handle(code) ==
    IF Queueing
    THEN pending' = pending \o (IF code = <<"u">> THEN <<"u1", "u2">> ELSE code) /\ UNCHANGED done
    ELSE done' = Append(done, code) /\ UNCHANGED pending

SetState(s) == state' = s /\ pbuf' = <<>>
Accumulate(c) == pbuf' = Append(pbuf, c) /\ UNCHANGED state
Nothing == UNCHANGED <<active, late, pending, done, spoiled>>
Same == UNCHANGED <<active, late, spoiled>>

(* dispatch_normal_mode_char(), pending_normal_mode_char()                 *)
NormalChar(c) ==
    IF c \in Introducers
    THEN SetState(c) /\ Nothing
    ELSE Handle(<<c>>) /\ Same /\ UNCHANGED <<state, pbuf>>

(* dispatch_esc_mode_char(), pending_esc_mode_char()                       *)
EscChar(c, buf) ==
    \/ buf # <<>> /\ Handle(<<"ESC", Last(buf), c>>) /\ Same /\ SetState(Normal)
    \/ buf = <<>> /\ c = "[" /\ SetState("CSI") /\ Nothing
    \/ buf = <<>> /\ c = "P" /\ SetState("DCS") /\ Nothing
    \/ buf = <<>> /\ c = "(" /\ state' = "ESC" /\ pbuf' = <<c>> /\ Nothing
    \/ buf = <<>> /\ c \notin {"[", "P", "("} /\ Handle(<<"ESC", c>>) /\ Same /\ SetState(Normal)

BeginUpdate == active' = TRUE /\ late' = FALSE /\ UNCHANGED <<pending, done, spoiled>>
EndUpdate == active' = FALSE /\ UNCHANGED <<late, pending, done, spoiled>>

(* accumulate_csi(), which executes a control character at once, then      *)
(* dispatch_csi() or pending_csi()                                         *)
Letters == {"h", "l", "m", "a", "q", "P", "B"}
Accepted(c) == c \in {"3", "7", "("} \/ (c = "?" /\ pbuf = <<>>)

CsiCode(code) ==
    CASE code = <<"CSI", "?", "h">> -> BeginUpdate
      [] code = <<"CSI", "?", "l">> -> EndUpdate
      [] OTHER -> Handle(code) /\ Same

CsiChar(c) ==
    \/ Accepted(c) /\ Accumulate(c) /\ Nothing
    \/ c \in Letters /\ CsiCode(<<"CSI">> \o pbuf \o <<c>>) /\ SetState(Normal)
    \/ /\ c = "BS"
       /\ done' = Append(done, <<c>>)
       /\ spoiled' = (spoiled \/ (Queueing /\ pending # <<>>))
       /\ UNCHANGED <<state, pbuf, active, late, pending>>
    \/ ~Accepted(c) /\ c \notin Letters \cup {"BS"} /\ SetState(Normal) /\ Nothing

(* accumulate_dcs(), then dispatch_dcs() or pending_dcs(); an end outside  *)
(* of an update is only reported.                                          *)
Unprintable == {"BS", "u", "CSI", "DCS"}

DcsCode(body) ==
    CASE body # <<>> /\ Head(body) = "1s" -> BeginUpdate
      [] body # <<>> /\ Head(body) = "2s" -> EndUpdate
      [] OTHER -> Handle(<<"DCS">> \o body \o <<"ST">>) /\ Same

DcsChar(c) ==
    LET afterEsc == pbuf # <<>> /\ Last(pbuf) = "ESC" IN
    \/ c = "ST" /\ DcsCode(pbuf) /\ SetState(Normal)
    \/ c \in Unprintable /\ Nothing /\ UNCHANGED <<state, pbuf>>
    \/ /\ c \notin Unprintable \cup {"ST"}
       /\ \/ ~afterEsc /\ Accumulate(c) /\ Nothing
          \/ afterEsc /\ c = "\\" /\ DcsCode(Front(pbuf)) /\ SetState(Normal)
          \/ afterEsc /\ c # "\\" /\ EscChar(c, <<>>)

Char(c) ==
    \/ state = Normal /\ NormalChar(c)
    \/ state = "ESC" /\ EscChar(c, pbuf)
    \/ state = "CSI" /\ CsiChar(c)
    \/ state = "DCS" /\ DcsChar(c)
-----------------------------------------------------------------------------
(* decode_loop(): what does not continue a character starts a new one.     *)

Source == IF phase = "draining" THEN drain ELSE rbuf

Consume ==
    IF phase = "draining"
    THEN drain' = Tail(drain) /\ UNCHANGED rbuf
    ELSE rbuf' = Tail(rbuf) /\ UNCHANGED drain

Decode ==
    LET byte == Head(Source)
        none == Nothing /\ UNCHANGED <<state, pbuf>>
    IN
    \/ u1 /\ byte = "u2" /\ Consume /\ u1' = FALSE /\ Char("u")
    \/ u1 /\ byte # "u2" /\ UNCHANGED <<rbuf, drain>> /\ u1' = FALSE /\ none
    \/ ~u1 /\ byte \in {"u1", "u2"} /\ Consume /\ u1' = (byte = "u1") /\ none
    \/ ~u1 /\ byte \notin {"u1", "u2"} /\ Consume /\ UNCHANGED u1 /\ Char(byte)

(* queue_pending_bytes() stops at the end of an update,                    *)
(* _parse_bytes_watching_for_pending() at its beginning.                   *)
LoopEnds == rbuf' = <<>> \/ (IF Queueing THEN ~active' ELSE active')

QueueByte ==
    /\ phase = "queueing" /\ Decode
    /\ IF LoopEnds THEN Goto("start") ELSE UNCHANGED <<phase, timer>>
    /\ UNCHANGED <<program, unread, saved, due>>

ParseByte ==
    /\ phase = "read" /\ Decode
    /\ IF LoopEnds THEN Goto("start") ELSE UNCHANGED <<phase, timer>>
    /\ UNCHANGED <<program, unread, saved, due>>

ParsePendingByte ==
    /\ phase = "draining" /\ drain # <<>> /\ Decode
    /\ UNCHANGED <<program, unread, phase, saved, due, timer>>
-----------------------------------------------------------------------------
DoParseBytes ==
    Start \/ Queue \/ ParsePending \/ ParsedPending \/ QueueByte \/ ParseByte \/ ParsePendingByte

MainLoop == Tick \/ DoParseBytes

Next == MainLoop \/ TickForOtherReason \/ TimePasses \/ \E n \in 1..ReadBuf : Read(n)

Spec == Init /\ [][Next]_vars

(* Both threads run, the child sends its program, and time passes also     *)
(* while the main loop ticks for other reasons.                            *)
FairSpec ==
    /\ Spec /\ WF_vars(MainLoop) /\ SF_vars(TimePasses)
    /\ SF_vars(\E n \in 1..ReadBuf : Read(n))
-----------------------------------------------------------------------------
(* Properties.                                                             *)

(* What the codes of the program are to the dispatch functions.            *)
Meaning(code) ==
    CASE code \in Begin \cup End -> <<>>
      [] code = <<"u1", "u2">> -> << <<"u">> >>
      [] code = <<"ESC", "[", "BS", "m">> -> << <<"BS">>, <<"CSI", "m">> >>
      [] code = <<"ESC", "[", "3", "m">> -> << <<"CSI", "3", "m">> >>
      [] code = <<"ESC", "P", "q", "ESC", "\\">> -> << <<"DCS", "q", "ST">> >>
      [] code = <<"ESC", "P", "ESC", "7">> -> << <<"ESC", "7">> >>
      [] OTHER -> <<code>>

Expected == FlattenSeq([i \in DOMAIN program |-> Meaning(program[i])])

(* Every code is executed once, whole and in order, wherever the reads     *)
(* cut the stream and whenever an update is flushed.                       *)
CodesKept == IsPrefix(done, Expected)

(* It is so unless one of the losses marked above happened.                *)
CodesKeptUnlessSpoiled == spoiled \/ CodesKept

(* Nothing of an update is executed before it ends or is given up, but     *)
(* for a control character inside a CSI code.                              *)
UpdateIsAtomic ==
    [][active /\ active' /\ phase # "draining" => done' \in {done, Append(done, <<"BS">>)}]_vars

(* What was queued is executed, by the end of the update or by its time.   *)
AllExecuted == <>(spoiled \/ done = Expected)
=============================================================================
