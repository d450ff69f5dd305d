---------------------------- MODULE ChildMonitor -----------------------------
(***************************************************************************)
(* smelly/child-monitor.c: the children (processes on a pty) of a terminal *)
(* and the two threads that share them.  The main thread adds children and *)
(* marks them for closing, parses the output that was read, and tells      *)
(* Python of every death.  The I/O thread polls the ptys, reads them, and  *)
(* moves children from the add queue to the table and from the table to    *)
(* the remove queue.  Each action that touches a queue is a critical       *)
(* section of children_lock.                                               *)
(*                                                                         *)
(* Output is counted, not spelled (module ScreenIO has the bytes).  The    *)
(* queues are sets: the code keeps arrays, in an order nothing depends on. *)
(***************************************************************************)
EXTENDS Integers, Sequences, FiniteSets

CONSTANTS
    Children,          \* ids of the windows that may be opened
    MaxChildren,       \* MAX_CHILDREN, the size of every array
    BufSize,           \* READ_BUF_SZ
    MaxOutput,         \* bound on what a child prints
    Prewarmed,         \* children that are forks of the prewarm process
    CloseOnChildDeath, \* OPT(close_on_child_death)
    CloseWhen,         \* "never", "running" or also "queued": see MarkForClose
    Signals            \* signals smelly receives, once each

ASSUME SizesAssumption ==
    /\ MaxChildren \in Nat \ {0} /\ BufSize \in Nat \ {0} /\ MaxOutput \in Nat
ASSUME ChildrenAssumption == IsFiniteSet(Children) /\ Prewarmed \subseteq Children
ASSUME OptionsAssumption ==
    /\ CloseOnChildDeath \in BOOLEAN
    /\ CloseWhen \in {"never", "running", "queued"}
    /\ Signals \subseteq {"kill", "reload"}

VARIABLES
    \* shared, under children_lock
    addq, children, remq,  \* add_queue, children, remove_queue
    flagged,               \* needs_removal is set in the child's struct
    killflag, reloadflag,  \* kill_signal_received, reload_config_signal_received
    \* shared, under the screen's read_buf_lock
    rbuf,                  \* read_buf_sz of every screen
    fresh,                 \* new_input_at is less than input_delay ago
    \* the main thread
    mpc,        \* control point
    notify,     \* remove_notify
    scratch,    \* the children it has still to parse in this tick
    dead,       \* children whose death_notify was called
    owed,       \* it has still to call wakeup_io_loop()
    timer,      \* the state check timer is on
    quit,       \* quit_request = IMPERATIVE_CLOSE_REQUESTED
    shutting,   \* shutting_down
    \* the I/O thread
    iopc,       \* control point
    events,     \* children polled for POLLIN
    revents,    \* children that poll() reported and were not yet handled
    preready,   \* poll() reported the pipe from the prewarm process
    received,   \* data_received
    pending,    \* has_pending_wakeups
    recent,     \* the last wake-up of the main loop is within input_delay
    \* wake-ups
    iowake,     \* the event fd of io_loop_data is readable
    mainwake,   \* an empty event was posted to the main loop
    \* the operating system
    held,       \* children whose pty slave some process still holds
    proc,       \* life of the child process
    pty,        \* output in the pty, not read yet
    printed,    \* output so far
    sigs,       \* signals pending in the signal fd
    zombies,    \* dead children to be reaped by waitpid()
    deaths,     \* pids in the pipe from the prewarm process
    sent,       \* signals smelly has received
    \* history
    asked       \* children whose removal was not caused by the end of output

shared == <<addq, children, remq, flagged, killflag, reloadflag>>
input == <<rbuf, fresh>>
main == <<mpc, notify, scratch, dead, owed, timer, quit, shutting>>
io == <<iopc, events, revents, preready, received, pending, recent>>
wakes == <<iowake, mainwake>>
os == <<held, proc, pty, printed, sigs, zombies, deaths, sent>>
vars == <<shared, input, main, io, wakes, os, asked>>
-----------------------------------------------------------------------------
SetsTyped ==
    /\ addq \subseteq Children /\ children \subseteq Children /\ remq \subseteq Children
    /\ flagged \subseteq Children /\ fresh \subseteq Children /\ notify \subseteq Children
    /\ scratch \subseteq Children /\ dead \subseteq Children /\ events \subseteq Children
    /\ revents \subseteq Children /\ held \subseteq Children /\ zombies \subseteq Children
    /\ asked \subseteq Children

FlagsTyped ==
    /\ killflag \in BOOLEAN /\ reloadflag \in BOOLEAN /\ owed \in BOOLEAN
    /\ timer \in BOOLEAN /\ quit \in BOOLEAN /\ shutting \in BOOLEAN
    /\ preready \in BOOLEAN /\ received \in BOOLEAN /\ pending \in BOOLEAN
    /\ recent \in BOOLEAN /\ iowake \in BOOLEAN /\ mainwake \in BOOLEAN

ValuesTyped ==
    /\ rbuf \in [Children -> 0..BufSize]
    /\ pty \in [Children -> Nat] /\ printed \in [Children -> Nat]
    /\ proc \in [Children -> {"none", "running", "exited"}]
    /\ mpc \in {"wait", "drain", "notify", "shutdown", "join", "stopped"}
    /\ iopc \in {"top", "events", "poll", "signals", "reap", "prewarm", "children", "done"}
    /\ sigs \subseteq {"child", "kill", "reload"}
    /\ deaths \in Seq(Children)
    /\ sent \subseteq Signals

TypeOK == SetsTyped /\ FlagsTyped /\ ValuesTyped

Init ==
    /\ addq = {} /\ children = {} /\ remq = {} /\ flagged = {}
    /\ killflag = FALSE /\ reloadflag = FALSE
    /\ rbuf = [c \in Children |-> 0] /\ fresh = {}
    /\ mpc = "wait" /\ notify = {} /\ scratch = {} /\ dead = {}
    /\ owed = FALSE /\ timer = FALSE /\ quit = FALSE /\ shutting = FALSE
    /\ iopc = "top" /\ events = {} /\ revents = {} /\ preready = FALSE
    /\ received = FALSE /\ pending = FALSE /\ recent = FALSE
    /\ iowake = FALSE /\ mainwake = FALSE
    /\ held = {}
    /\ proc = [c \in Children |-> "none"]
    /\ pty = [c \in Children |-> 0] /\ printed = [c \in Children |-> 0]
    /\ sigs = {} /\ zombies = {} /\ deaths = <<>> /\ sent = {}
    /\ asked = {}
-----------------------------------------------------------------------------
(* The main thread: calls from Python, at any time but in a call it has    *)
(* not returned from.                                                      *)

Free == ~owed /\ mpc \in {"wait", "notify"}

QueueNotCounted == Cardinality(children) < MaxChildren
RoomForChild == Cardinality(children) + Cardinality(addq) < MaxChildren

(* Each call ends, after its critical section, with wakeup_io_loop().      *)
CallWakeup == owed' = TRUE

AddChild(c) ==
    /\ Free /\ proc[c] = "none"
    /\ RoomForChild
    /\ addq' = addq \cup {c}
    /\ held' = held \cup {c}
    /\ proc' = [proc EXCEPT ![c] = "running"]
    /\ CallWakeup
    /\ UNCHANGED <<children, remq, flagged, killflag, reloadflag, input, mpc, notify,
                   scratch, dead, timer, quit, shutting, io, wakes, pty, printed, sigs,
                   zombies, deaths, sent, asked>>

(* mark_child_for_close(): in the table, else in the add queue.  Once for  *)
(* each child; CloseWhen says if also before the I/O thread has added it.  *)
MarkForClose(c) ==
    /\ Free /\ proc[c] # "none" /\ c \notin dead \cup asked
    /\ CloseWhen # "never"
    /\ CloseWhen = "running" => c \notin addq
    /\ flagged' = IF c \in children \cup addq THEN flagged \cup {c} ELSE flagged
    /\ asked' = asked \cup {c}
    /\ CallWakeup
    /\ UNCHANGED <<addq, children, remq, killflag, reloadflag, input, mpc, notify,
                   scratch, dead, timer, quit, shutting, io, wakes, os>>

WakeupIoLoop ==
    /\ owed
    /\ owed' = FALSE
    /\ iowake' = TRUE
    /\ UNCHANGED <<shared, input, mpc, notify, scratch, dead, timer, quit, shutting, io,
                   mainwake, os, asked>>
-----------------------------------------------------------------------------
(* The main thread: process_global_state().                                *)

StartTick ==
    /\ mpc' = "drain"
    /\ timer' = FALSE
    /\ UNCHANGED <<shared, input, notify, scratch, dead, owed, quit, shutting, io, iowake,
                   os, asked>>

(* The loop wakes for a posted event or for the state check timer ...      *)
Tick ==
    /\ mpc = "wait" /\ ~owed
    /\ mainwake \/ timer
    /\ mainwake' = FALSE
    /\ StartTick

(* ... or because something else asked for a tick: a key, the mouse, a     *)
(* blinking cursor.                                                        *)
TickForOtherReason ==
    /\ mpc = "wait" /\ ~owed
    /\ UNCHANGED mainwake
    /\ StartTick

(* parse_input(), first critical section: a signal is handled instead of   *)
(* the input, and a kill before a reload.                                  *)
Drain ==
    /\ mpc = "drain"
    /\ notify' = notify \cup remq
    /\ remq' = {}
    /\ IF killflag \/ reloadflag
       THEN /\ scratch' = {}
            /\ killflag' = FALSE
            /\ reloadflag' = (killflag /\ reloadflag)
            /\ quit' = (quit \/ killflag)
            /\ mainwake' = (mainwake \/ killflag)    \* request_tick_callback()
       ELSE /\ scratch' = children \ flagged
            /\ UNCHANGED <<killflag, reloadflag, quit, mainwake>>
    /\ mpc' = "notify"
    /\ UNCHANGED <<addq, children, flagged, input, dead, owed, timer, shutting, io, iowake,
                   os, asked>>

(* The parser takes all that was read; the I/O thread is woken if it had   *)
(* stopped reading a full buffer.                                          *)
NotRearmed(c) ==
    /\ rbuf' = [rbuf EXCEPT ![c] = 0]
    /\ fresh' = fresh \ {c}
    /\ UNCHANGED iowake
ParseAll(c) ==
    /\ rbuf' = [rbuf EXCEPT ![c] = 0]
    /\ fresh' = fresh \ {c}
    /\ iowake' = (iowake \/ rbuf[c] >= BufSize)

(* do_parse(): input too young is left for the timer ...                   *)
Parse(c) == IF rbuf[c] > 0 /\ c \notin fresh THEN ParseAll(c) ELSE UNCHANGED <<input, iowake>>
TimerForgotten(c) == timer
TimerAfter(c) == timer \/ (rbuf[c] > 0 /\ c \in fresh)

(* ... but the last output of a removed child is flushed.                  *)
LastParse(c) == Parse(c)
Flush(c) == ParseAll(c)

(* parse_input(): every removed child first, then those of the table.      *)
NotifyDeath(c) ==
    /\ mpc = "notify" /\ ~owed /\ c \in notify
    /\ Flush(c)
    /\ notify' = notify \ {c}
    /\ dead' = dead \cup {c}
    /\ UNCHANGED <<shared, mpc, scratch, owed, timer, quit, shutting, io, mainwake, os, asked>>

ParseChild(c) ==
    /\ mpc = "notify" /\ ~owed /\ notify = {} /\ c \in scratch
    /\ scratch' = scratch \ {c}
    /\ Parse(c)
    /\ timer' = TimerAfter(c)
    /\ UNCHANGED <<shared, mpc, notify, dead, owed, quit, shutting, io, mainwake, os, asked>>

(* The rest of the tick; a quit request closes every window.               *)
EndTick ==
    /\ mpc = "notify" /\ ~owed /\ notify = {} /\ scratch = {}
    /\ IF quit
       THEN /\ flagged' = flagged \cup children \cup addq
            /\ asked' = asked \cup children \cup addq
            /\ CallWakeup
            /\ mpc' = "shutdown"
       ELSE mpc' = "wait" /\ UNCHANGED <<flagged, asked, owed>>
    /\ UNCHANGED <<addq, children, remq, killflag, reloadflag, input, notify, scratch, dead,
                   timer, quit, shutting, io, wakes, os>>

(* shutdown_monitor(), after the main loop has ended.                      *)
Shutdown ==
    /\ mpc = "shutdown" /\ ~owed
    /\ shutting' = TRUE
    /\ CallWakeup
    /\ mpc' = "join"
    /\ UNCHANGED <<shared, input, notify, scratch, dead, timer, quit, io, wakes, os, asked>>

JoinIoThread ==
    /\ mpc = "join" /\ ~owed /\ iopc = "done"
    /\ mpc' = "stopped"
    /\ UNCHANGED <<shared, input, notify, scratch, dead, owed, timer, quit, shutting, io,
                   wakes, os, asked>>
-----------------------------------------------------------------------------
(* The I/O thread: one turn of io_loop().                                  *)

(* remove_children(): closes the pty and hangs up the process group.       *)
QueueRestarted(gone) == remq' = gone
Remove(gone) == remq' = remq \cup gone

(* add_children() stops when the table is full.                            *)
Admitted(kept) ==
    {A \in SUBSET addq :
        /\ Cardinality(kept \cup A) <= MaxChildren
        /\ A = addq \/ Cardinality(kept \cup A) = MaxChildren}

(* What is marked is removed first, then the add queue is admitted.        *)
RemoveThenAdd ==
    LET kept == children \ flagged IN
    /\ Remove(children \cap flagged)
    /\ \E A \in Admitted(kept) : children' = kept \cup A /\ addq' = addq \ A

IoTop ==
    /\ iopc = "top" /\ ~shutting
    /\ RemoveThenAdd
    /\ iopc' = "events"
    /\ UNCHANGED <<flagged, killflag, reloadflag, input, main, events, revents, preready,
                   received, pending, recent, wakes, os, asked>>

IoExit ==
    /\ iopc = "top" /\ shutting
    /\ Remove(children)
    /\ children' = {}
    /\ flagged' = flagged \cup children
    /\ iopc' = "done"
    /\ UNCHANGED <<addq, killflag, reloadflag, input, main, events, revents, preready,
                   received, pending, recent, wakes, os, asked>>

(* A screen whose buffer is full is not read.                              *)
IoEvents ==
    /\ iopc = "events"
    /\ events' = {c \in children : rbuf[c] < BufSize}
    /\ iopc' = "poll"
    /\ UNCHANGED <<shared, input, main, revents, preready, received, pending, recent, wakes,
                   os, asked>>

(* What poll() reports of a pty: output, or always that it was hung up.    *)
Ready == {c \in children : c \notin held \/ (c \in events /\ pty[c] > 0)}

IoPoll ==
    /\ iopc = "poll"
    /\ iowake \/ sigs # {} \/ deaths # <<>> \/ Ready # {}
    /\ iowake' = FALSE
    /\ preready' = (deaths # <<>>)
    /\ revents' = Ready
    /\ events' = {}
    /\ iopc' = IF sigs # {} THEN "signals" ELSE IF deaths # <<>> THEN "prewarm" ELSE "children"
    /\ UNCHANGED <<shared, input, main, received, pending, recent, mainwake, os, asked>>

(* With a wake-up pending poll() waits for the rest of input_delay only,   *)
(* and is not even called when that is over.                               *)
IoPollTimeout ==
    /\ iopc = "poll" /\ pending /\ ~recent
    /\ events' = {}
    /\ iopc' = "children"
    /\ UNCHANGED <<shared, input, main, revents, preready, received, pending, recent, wakes,
                   os, asked>>

(* read_signals()                                                          *)
KillSeen == killflag \/ "kill" \in sigs

IoSignals ==
    /\ iopc = "signals"
    /\ killflag' = KillSeen
    /\ reloadflag' = (reloadflag \/ "reload" \in sigs)
    /\ received' = TRUE
    /\ sigs' = {}
    /\ iopc' = IF "child" \in sigs THEN "reap" ELSE IF preready THEN "prewarm" ELSE "children"
    /\ UNCHANGED <<addq, children, remq, flagged, input, main, events, revents, preready,
                   pending, recent, wakes, held, proc, pty, printed, zombies, deaths, sent,
                   asked>>

(* mark_child_for_removal() looks in the table only.                       *)
MarkForRemoval(S) ==
    LET found == IF CloseOnChildDeath THEN S \cap children ELSE {} IN
    /\ flagged' = flagged \cup found
    /\ asked' = asked \cup found

(* reap_children()                                                         *)
IoReap ==
    /\ iopc = "reap"
    /\ MarkForRemoval(zombies)
    /\ zombies' = {}
    /\ iopc' = IF preready THEN "prewarm" ELSE "children"
    /\ UNCHANGED <<addq, children, remq, killflag, reloadflag, input, main, events, revents,
                   preready, received, pending, recent, wakes, held, proc, pty, printed,
                   sigs, deaths, sent>>

(* reap_prewarmed_children(): of the lines one read() returns, all of one  *)
(* length, memmove() brings only the second to the front; it is what every *)
(* later line is read as.                                                  *)
LoneLineKept(q) == {q[i] : i \in 2..Len(q)}
LinesSeen(q) == {q[i] : i \in 1..(IF Len(q) < 2 THEN Len(q) ELSE 2)}

IoPrewarm ==
    /\ iopc = "prewarm"
    /\ MarkForRemoval(LinesSeen(deaths))
    /\ deaths' = <<>>
    /\ preready' = FALSE
    /\ iopc' = "children"
    /\ UNCHANGED <<addq, children, remq, killflag, reloadflag, input, main, events, revents,
                   received, pending, recent, wakes, held, proc, pty, printed, sigs,
                   zombies, sent>>

(* read_bytes(): nothing if the buffer is full; the end of output when the *)
(* pty is hung up and empty.                                               *)
FullBufferRead(c, n) ==
    /\ pty' = [pty EXCEPT ![c] = @ - n]
    /\ rbuf' = [rbuf EXCEPT ![c] = @ + n]
    /\ fresh' = IF rbuf[c] = 0 THEN fresh \cup {c} ELSE fresh
    /\ UNCHANGED flagged
IoRead(c, n) ==
    /\ rbuf[c] + n <= BufSize
    /\ pty' = [pty EXCEPT ![c] = @ - n]
    /\ rbuf' = [rbuf EXCEPT ![c] = @ + n]
    /\ fresh' = IF rbuf[c] = 0 THEN fresh \cup {c} ELSE fresh
    /\ UNCHANGED flagged

IoBufferFull(c) ==
    /\ rbuf[c] >= BufSize
    /\ UNCHANGED <<input, pty, flagged>>

IoEndOfOutput(c) ==
    /\ pty[c] = 0 /\ c \notin held /\ rbuf[c] < BufSize
    /\ flagged' = flagged \cup {c}
    /\ UNCHANGED <<input, pty>>

IoChild(c) ==
    /\ iopc = "children" /\ c \in revents
    /\ \/ \E n \in 1..pty[c] : IoRead(c, n)
       \/ IoBufferFull(c)
       \/ IoEndOfOutput(c)
    /\ revents' = revents \ {c}
    /\ received' = TRUE
    /\ UNCHANGED <<addq, children, remq, killflag, reloadflag, main, iopc, events, preready,
                   pending, recent, wakes, held, proc, printed, sigs, zombies, deaths, sent,
                   asked>>

(* The main loop is woken at most once in input_delay.                     *)
WakeOrForget ==
    IF (received \/ pending) /\ ~recent
    THEN mainwake' = TRUE /\ pending' = FALSE /\ recent' = TRUE
    ELSE UNCHANGED <<pending, mainwake, recent>>
WakeOrRemember ==
    IF (received \/ pending) /\ ~recent
    THEN mainwake' = TRUE /\ pending' = FALSE /\ recent' = TRUE
    ELSE pending' = (received \/ pending) /\ UNCHANGED <<mainwake, recent>>

IoWakeMain ==
    /\ iopc = "children" /\ revents = {}
    /\ WakeOrRemember
    /\ received' = FALSE
    /\ iopc' = "top"
    /\ UNCHANGED <<shared, input, main, events, revents, preready, iowake, os, asked>>
-----------------------------------------------------------------------------
(* Time, the children and the operating system.                            *)

DelayOver ==
    /\ recent /\ recent' = FALSE
    /\ UNCHANGED <<shared, input, main, iopc, events, revents, preready, received, pending,
                   wakes, os, asked>>

InputAges(c) ==
    /\ c \in fresh /\ fresh' = fresh \ {c}
    /\ UNCHANGED <<shared, rbuf, main, io, wakes, os, asked>>

(* Some process on the pty prints.                                         *)
ChildPrints(c) ==
    /\ c \in held \ (remq \cup notify \cup dead) /\ printed[c] < MaxOutput
    /\ printed' = [printed EXCEPT ![c] = @ + 1]
    /\ pty' = [pty EXCEPT ![c] = @ + 1]
    /\ UNCHANGED <<shared, input, main, io, wakes, held, proc, sigs, zombies,
                   deaths, sent, asked>>

(* The child ends: by itself or by SIGHUP.  The prewarm process writes the *)
(* pid of its forks to a pipe; for the others there is a SIGCHLD.          *)
ChildExits(c) ==
    /\ proc[c] = "running"
    /\ proc' = [proc EXCEPT ![c] = "exited"]
    /\ IF c \in Prewarmed
       THEN deaths' = Append(deaths, c) /\ UNCHANGED <<zombies, sigs>>
       ELSE /\ zombies' = zombies \cup {c} /\ sigs' = sigs \cup {"child"}
            /\ UNCHANGED deaths
    /\ UNCHANGED <<shared, input, main, io, wakes, held, pty, printed, sent, asked>>

(* The last process of the session closes the pty; background processes    *)
(* may outlive the child.                                                  *)
PtyReleased(c) ==
    /\ proc[c] = "exited" /\ c \in held
    /\ held' = held \ {c}
    /\ UNCHANGED <<shared, input, main, io, wakes, proc, pty, printed, sigs,
                   zombies, deaths, sent, asked>>

SignalArrives(s) ==
    /\ s \in Signals \ sent
    /\ sent' = sent \cup {s}
    /\ sigs' = sigs \cup {s}
    /\ UNCHANGED <<shared, input, main, io, wakes, held, proc, pty, printed,
                   zombies, deaths, asked>>
-----------------------------------------------------------------------------
MainThread ==
    \/ WakeupIoLoop \/ Tick \/ Drain \/ EndTick \/ Shutdown \/ JoinIoThread
    \/ \E c \in Children : NotifyDeath(c) \/ ParseChild(c)

IoThread ==
    \/ IoTop \/ IoExit \/ IoEvents \/ IoPoll \/ IoPollTimeout \/ IoSignals \/ IoReap
    \/ IoPrewarm \/ IoWakeMain
    \/ \E c \in Children : IoChild(c)

Calls == \E c \in Children : AddChild(c) \/ MarkForClose(c)

Environment ==
    \/ DelayOver \/ TickForOtherReason
    \/ \E c \in Children :
            InputAges(c) \/ ChildPrints(c) \/ ChildExits(c) \/ PtyReleased(c)
    \/ \E s \in Signals : SignalArrives(s)

Next == MainThread \/ IoThread \/ Calls \/ Environment

Spec == Init /\ [][Next]_vars

(* Both threads run and time passes.  Nothing makes a child print or exit, *)
(* or the main loop tick without a reason.                                 *)
Fairness ==
    /\ WF_vars(MainThread) /\ WF_vars(IoThread) /\ WF_vars(DelayOver)
    /\ \A c \in Children : WF_vars(InputAges(c))

FairSpec == Spec /\ Fairness
-----------------------------------------------------------------------------
(* Properties.                                                             *)

Opened == {c \in Children : proc[c] # "none"}

(* Between add_child() and death_notify() a child is in exactly one of the *)
(* arrays, whatever the threads interleave: it is neither lost (a window   *)
(* that never closes) nor in two (closed and notified twice).              *)
InOnePlace ==
    /\ Opened = addq \cup children \cup remq \cup notify \cup dead
    /\ addq \cap (children \cup remq \cup notify \cup dead) = {}
    /\ children \cap (remq \cup notify \cup dead) = {}
    /\ remq \cap (notify \cup dead) = {}
    /\ notify \cap dead = {}

(* The table and the add queue together never outgrow the table, so that   *)
(* add_children() always takes the whole queue.                            *)
RoomForQueue == Cardinality(children \cup addq) <= MaxChildren

(* The I/O thread never blocks with work left behind: a queued child, a    *)
(* buffer that has room again, and a shutdown each leave the event fd      *)
(* readable, or the main thread is about to make it so.                    *)
NoLostWakeup ==
    iopc = "poll" =>
        /\ addq # {} => iowake \/ owed
        /\ shutting => iowake \/ owed
        /\ \A c \in children \ events : rbuf[c] < BufSize => iowake

(* Without SIGUSR1: while both threads rest, output that was read has a    *)
(* wake-up of the main loop coming.                                        *)
InputNotForgotten ==
    mpc = "wait" /\ iopc \in {"top", "events", "poll"} =>
        \A c \in children \ flagged :
            rbuf[c] > 0 => mainwake \/ timer \/ pending

(* Python hears of a death after all output that was read is parsed, and,  *)
(* unless the window was closed before the end of the output, after all    *)
(* output was read.                                                        *)
OutputBeforeDeath ==
    \A c \in dead : rbuf[c] = 0 /\ (c \notin asked => pty[c] = 0)

(* A child that prints is read to the end, also when its buffer was full   *)
(* (the parser re-arms the poll), and what was read reaches the parser     *)
(* even if nothing else happens.                                           *)
OutputParsed ==
    \A c \in Children :
        /\ pty[c] > 0 ~> pty[c] = 0 \/ c \in flagged \/ mpc = "stopped"
        /\ rbuf[c] > 0 ~> rbuf[c] = 0 \/ c \in flagged \/ mpc = "stopped"

(* A child marked in any way leaves the table and is hung up, and SIGTERM  *)
(* ends the program with every child of the table hung up.                 *)
MarkedIsRemoved ==
    /\ \A c \in Children : c \in flagged ~> c \notin addq \cup children \/ mpc = "stopped"
    /\ "kill" \in sent ~> mpc = "stopped" /\ children = {}

(* Neither output nor a marked child stays for ever.                       *)
NothingLingers == OutputParsed /\ MarkedIsRemoved

DeathIsNotified == \A c \in Children : c \in flagged ~> c \in dead \/ quit

(* With close_on_child_death, a window closes when its child exits, if the *)
(* child was in the table before the I/O thread heard of the exit.         *)
Unheard == zombies \cup {deaths[i] : i \in DOMAIN deaths}

ReapedIsClosed ==
    \A c \in Children : c \in Unheard \cap children ~> c \in dead \/ quit

(* With a blinking cursor the main loop also ticks without a reason: then  *)
(* Python is told of every child that is marked, and every exit closes its *)
(* window.                                                                 *)
ClosedWhileTicking == WF_vars(TickForOtherReason) => DeathIsNotified /\ ReapedIsClosed

(* Every death that the I/O thread reads from the prewarm process marks    *)
(* the child for removal.                                                  *)
PrewarmedDeathsMarked ==
    [][CloseOnChildDeath /\ deaths' = <<>> =>
         \A i \in DOMAIN deaths : deaths[i] \in children => deaths[i] \in flagged']_vars
=============================================================================
