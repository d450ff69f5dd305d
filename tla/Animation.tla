----------------------------- MODULE Animation ------------------------------
(***************************************************************************)
(* smelly/graphics.c: the frames of one image.  Commands add, edit and     *)
(* delete frames, set their gaps, the current frame and the state of the   *)
(* animation; the renderer marks the image as drawn; and a scan, run by    *)
(* the main loop while has_images_needing_animation is set, goes on to the *)
(* next frame when its time has come, past those without a gap.            *)
(*                                                                         *)
(* A frame is an id and a gap.  Position 1 is the root frame.  One command *)
(* can change a gap, the current frame, the state and the loops, in this   *)
(* order: that is four of the steps below.                                 *)
(***************************************************************************)
EXTENDS Integers, SequencesExt, FiniteSetsExt

CONSTANTS
    Gaps,        \* the gaps of frames, with 0 for a gapless one
    MaxFrames,   \* bound on the frames at one time
    MaxIds,      \* bound on frame_id_counter
    Loops        \* values of max_loops, 0 for no limit

ASSUME AnimationAssumption ==
    /\ Gaps \subseteq Nat /\ Loops \subseteq Nat
    /\ {MaxFrames, MaxIds} \subseteq Nat \ {0}

VARIABLES
    frames,   \* root_frame and extra_frames
    ids,      \* frame_id_counter
    current,  \* current_frame_index
    shown,    \* the frame in the texture
    duration, \* animation_duration
    state,    \* animation_state
    maxloops, \* max_loops
    loop,     \* current_loop
    placed,   \* a placement is on the screen
    isdrawn,  \* is_drawn
    watched,  \* has_images_needing_animation
    scanning, \* inside the loop of scan_active_animations()
    stale,    \* history: current was moved without showing its frame
    resent,   \* history: the image was transmitted again
    late      \* history: it became animatable and the main loop was not told

anvars == <<frames, ids, current, shown, duration, state, maxloops, loop, placed,
            isdrawn, watched, scanning, stale, resent, late>>
-----------------------------------------------------------------------------
Frame(id, gap) == [id |-> id, gap |-> gap]

AnInit ==
    /\ frames = <<Frame(1, 0)>>
    /\ ids = 1 /\ current = 0 /\ shown = 1 /\ duration = 0
    /\ state = "stopped" /\ maxloops = 0 /\ loop = 0
    /\ placed = FALSE /\ isdrawn = FALSE /\ watched = FALSE /\ scanning = FALSE
    /\ stale = FALSE /\ resent = FALSE /\ late = FALSE

Extra == Len(frames) - 1

CurrentFrame == frames[current + 1]

(* image_is_animatable() *)
MayMove(n, d, s, dr) == s # "stopped" /\ n > 0 /\ dr /\ d > 0 /\ (maxloops = 0 \/ loop < maxloops)

Animatable == MayMove(Extra, duration, state, isdrawn)

Minus(a, b) == IF b < a THEN a - b ELSE 0

(* current_loop, as far as it can be told from any max_loops.              *)
Counted(n) == IF n < Max(Loops \cup {0}) THEN n + 1 ELSE n

(* update_current_frame() *)
Show(id) == shown' = id /\ stale' = FALSE

(* What a command leaves alone.                                            *)
Elsewhere == UNCHANGED <<placed, scanning, resent>>
-----------------------------------------------------------------------------
(* Commands.                                                               *)

(* A new frame tells the main loop only in the state "loading".            *)
NewFrame(gap) ==
    /\ ~scanning /\ Len(frames) < MaxFrames /\ ids < MaxIds
    /\ ids' = ids + 1
    /\ frames' = Append(frames, Frame(ids + 1, gap))
    /\ duration' = duration + gap
    /\ watched' = (watched \/ state = "loading")
    /\ late' = (~watched' /\ (late \/ MayMove(Extra + 1, duration', state, isdrawn)))
    /\ UNCHANGED <<current, shown, state, maxloops, loop, isdrawn, stale>> /\ Elsewhere

\* Mutant: the old gap is not taken from the sum.
ChangeGapOnly(n, gap) ==
    /\ ~scanning /\ n \in 1..Len(frames)
    /\ frames' = [frames EXCEPT ![n].gap = gap]
    /\ duration' = duration + gap
    /\ late' = (late \/ (~watched /\ MayMove(Extra, duration', state, isdrawn)))
    /\ UNCHANGED <<ids, current, shown, state, maxloops, loop, isdrawn, watched, stale>>
    /\ Elsewhere

(* change_gap(), by a control command or by one that edits the frame.      *)
ChangeGap(n, gap) ==
    /\ ~scanning /\ n \in 1..Len(frames)
    /\ frames' = [frames EXCEPT ![n].gap = gap]
    /\ duration' = Minus(duration, frames[n].gap) + gap
    /\ late' = (late \/ (~watched /\ MayMove(Extra, duration', state, isdrawn)))
    /\ UNCHANGED <<ids, current, shown, state, maxloops, loop, isdrawn, watched, stale>>
    /\ Elsewhere

SetCurrent(n) ==
    /\ ~scanning /\ n \in 0..Extra /\ n # current
    /\ current' = n /\ Show(frames[n + 1].id)
    /\ UNCHANGED <<frames, ids, duration, state, maxloops, loop, isdrawn, watched, late>>
    /\ Elsewhere

SetState(s) ==
    /\ ~scanning
    /\ state' = s /\ loop' = 0
    /\ isdrawn' = (isdrawn \/ (s # "stopped" /\ state = "stopped"))
    /\ watched' = (watched \/ s # "stopped")
    /\ late' = (late /\ s = "stopped")
    /\ UNCHANGED <<frames, ids, current, shown, duration, maxloops, stale>> /\ Elsewhere

SetLoops(n) ==
    /\ ~scanning
    /\ maxloops' = n
    /\ late' = (late \/ (~watched /\ state # "stopped" /\ isdrawn))
    /\ UNCHANGED <<frames, ids, current, shown, duration, state, loop, isdrawn, watched, stale>>
    /\ Elsewhere

\* Mutant: the index of the current frame stays behind the last frame.
DeleteFrameOnly(n) ==
    /\ ~scanning /\ Extra > 0 /\ n \in 1..Len(frames)
    /\ frames' = RemoveAt(frames, n)
    /\ duration' = Minus(duration, frames[n].gap)
    /\ stale' = TRUE
    /\ UNCHANGED <<ids, current, shown, state, maxloops, loop, isdrawn, watched, late>> /\ Elsewhere

(* handle_delete_frame_command(): the index of the array that is deleted,  *)
(* one less than the number of the frame, is compared with the number of   *)
(* the current frame.                                                      *)
DeleteFrameAt(n) ==
    LET idx == IF n = 1 THEN 0 ELSE n - 2
        left == RemoveAt(frames, n) IN
    /\ ~scanning /\ Extra > 0 /\ n \in 1..Len(frames)
    /\ frames' = left
    /\ duration' = Minus(duration, frames[n].gap)
    /\ IF current > Extra - 1
       THEN current' = Extra - 1 /\ Show(left[Extra].id)
       ELSE IF idx = current
       THEN UNCHANGED current /\ Show(left[current + 1].id)
       ELSE /\ current' = IF idx < current THEN current - 1 ELSE current
            /\ stale' = (stale \/ left[current' + 1] # CurrentFrame)
            /\ UNCHANGED shown
    /\ UNCHANGED <<ids, state, maxloops, loop, isdrawn, watched, late>> /\ Elsewhere

(* handle_add_command() for an id in use: a new root frame without a gap,  *)
(* whose picture is shown; everything else of the animation stays.         *)
Resend ==
    /\ ~scanning /\ ids < MaxIds
    /\ ids' = ids + 1
    /\ frames' = [frames EXCEPT ![1] = Frame(ids + 1, 0)]
    /\ shown' = ids + 1 /\ stale' = (current # 0)
    /\ placed' = FALSE /\ isdrawn' = FALSE
    /\ resent' = (resent \/ frames[1].gap # 0)
    /\ UNCHANGED <<current, duration, state, maxloops, loop, watched, scanning, late>>

Place(on) ==
    /\ ~scanning /\ placed' = on /\ placed # on
    /\ UNCHANGED <<frames, ids, current, shown, duration, state, maxloops, loop, isdrawn,
                   watched, scanning, stale, resent, late>>
-----------------------------------------------------------------------------
(* The main loop.                                                          *)

(* grman_update_layers() *)
Render ==
    /\ ~scanning
    /\ isdrawn # placed
    /\ isdrawn' = placed
    /\ watched' = (watched \/ (placed /\ state # "stopped" /\ Extra > 0 /\ duration > 0))
    /\ late' = (late /\ ~watched')
    /\ UNCHANGED <<frames, ids, current, shown, duration, state, maxloops, loop, placed,
                   scanning, stale, resent>>

(* scan_active_animations(): the time of the current frame is over, or not.*)
Scan(due) ==
    /\ ~scanning /\ watched
    /\ watched' = Animatable
    /\ scanning' = (Animatable /\ due)
    /\ UNCHANGED <<frames, ids, current, shown, duration, state, maxloops, loop, placed,
                   isdrawn, stale, resent, late>>

Next1 == (current + 1) % Len(frames)

(* The last frame is not left while more may come, or after the last loop. *)
StayAtEnd ==
    /\ scanning /\ Next1 = 0
    /\ loop' = IF state = "loading" THEN loop ELSE Counted(loop)
    /\ state = "loading" \/ (maxloops > 0 /\ loop' >= maxloops)
    /\ scanning' = FALSE
    /\ stale' = (stale \/ shown # CurrentFrame.id)
    /\ UNCHANGED <<frames, ids, current, shown, duration, state, maxloops, placed, isdrawn,
                   watched, resent, late>>

GoOn ==
    /\ scanning
    /\ Next1 = 0 => state # "loading" /\ (maxloops = 0 \/ loop + 1 < maxloops)
    /\ loop' = IF Next1 = 0 THEN Counted(loop) ELSE loop
    /\ current' = Next1
    /\ IF frames[Next1 + 1].gap > 0
       THEN scanning' = FALSE /\ Show(frames[Next1 + 1].id)
       ELSE UNCHANGED <<scanning, shown, stale>>
    /\ UNCHANGED <<frames, ids, duration, state, maxloops, placed, isdrawn, watched,
                   resent, late>>
-----------------------------------------------------------------------------
AnNext ==
    \/ \E gap \in Gaps : NewFrame(gap) \/ \E n \in 1..MaxFrames : ChangeGap(n, gap)
    \/ \E n \in 0..MaxFrames : SetCurrent(n) \/ DeleteFrameAt(n)
    \/ \E s \in {"stopped", "loading", "running"} : SetState(s)
    \/ \E n \in Loops : SetLoops(n)
    \/ \E on \in BOOLEAN : Place(on) \/ Scan(on)
    \/ Resend \/ Render \/ StayAtEnd \/ GoOn

AnSpec == AnInit /\ [][AnNext]_anvars
-----------------------------------------------------------------------------
AnTypeOK ==
    /\ frames \in Seq([id : 1..MaxIds, gap : Gaps \cup {0}])
    /\ ids \in 1..MaxIds /\ shown \in 1..MaxIds
    /\ duration \in Nat /\ loop \in Nat
    /\ maxloops \in Loops \cup {0}
    /\ state \in {"stopped", "loading", "running"}
    /\ {placed, isdrawn, watched, scanning, stale, resent, late} \subseteq BOOLEAN

(* The scan and the renderer take the current frame without looking.       *)
CurrentFrameExists == current \in 0..Extra

(* Outside a scan the texture shows the current frame; a deletion before   *)
(* it, a new root frame or an animation that stays at its end after        *)
(* gapless frames may leave the picture of another.                        *)
ShownIsCurrent == ~scanning => shown = CurrentFrame.id \/ stale

(* An image that has a next frame is one the main loop looks at, unless    *)
(* what made it so was a gap, a frame or a number of loops: these commands *)
(* do not ask for that.                                                    *)
AnimatableIsWatched == Animatable /\ ~scanning => watched \/ late

(* Whatever commands, frames shown and frames deleted come in what order,  *)
(* the animation has a current frame, shows it and is not forgotten.       *)
AnimationSound ==
    AnTypeOK /\ CurrentFrameExists /\ ShownIsCurrent /\ AnimatableIsWatched

(* animation_duration is the sum of the gaps: it decides whether an image  *)
(* is animated.  (A root frame that is sent again takes its gap with it,   *)
(* but not from the sum.)                                                  *)
GapsOf(fs) == MapThenSumSet(LAMBDA n : fs[n].gap, DOMAIN fs)

DurationIsSum == ~resent => duration = GapsOf(frames)

(* So the loop of a scan that has begun comes to a frame with a gap, or to *)
(* the end.                                                                *)
ScanEnds ==
    scanning /\ ~resent /\ state = "running" /\ maxloops = 0
        => \E n \in 1..Len(frames) : frames[n].gap > 0

(* What four handlers add to and take from animation_duration never lets   *)
(* the main loop go round and round in a scan.                             *)
ScansEnd == DurationIsSum /\ ScanEnds
=============================================================================
