------------------------------ MODULE TextLines ------------------------------
(***************************************************************************)
(* What the line buffer and the history promise together: the lines of the *)
(* screen and the lines that scrolled off its top are two sequences.  How  *)
(* they are stored is the affair of LineStore, and what refers to them of  *)
(* Scrollback.  Lines count from one, the top of the screen.               *)
(***************************************************************************)
EXTENDS Integers, Sequences

CONSTANTS ScreenLines,  \* lines of the screen
          HistoryMax,   \* lines the history holds
          BlankRow

VARIABLES screen,  \* the lines of the screen
          past     \* the lines of the history, oldest first

Taken(rows, n) == SubSeq(rows, 1, n)
Skipped(rows, n) == SubSeq(rows, n + 1, Len(rows))
Blanks(n) == [i \in 1..n |-> BlankRow]

(* The screen with the lines rows for its lines top..bottom.               *)
WithRegion(top, bottom, rows) == Taken(screen, top - 1) \o rows \o Skipped(screen, bottom)
RegionOf(top, bottom) == SubSeq(screen, top, bottom)

Remembered(row) ==
    IF Len(past) < HistoryMax THEN Append(past, row) ELSE Append(Tail(past), row)

Init ==
    /\ screen = Blanks(ScreenLines)
    /\ past = <<>>

(* Line i is drawn on or marked.                                           *)
Change(i, row) ==
    /\ screen' = [screen EXCEPT ![i] = row]
    /\ UNCHANGED past

(* The text of the region moves up; only the top line of the screen is     *)
(* remembered.                                                             *)
Up(top, bottom) ==
    /\ screen' = WithRegion(top, bottom, Tail(RegionOf(top, bottom)) \o Blanks(1))
    /\ past' = IF top = 1 THEN Remembered(screen[1]) ELSE past

MovedDown(top, bottom) ==
    WithRegion(top, bottom, Blanks(1) \o Taken(RegionOf(top, bottom), bottom - top))

Down(top, bottom) ==
    /\ screen' = MovedDown(top, bottom)
    /\ UNCHANGED past

(* The newest line of the history comes back as the first of the screen.   *)
Unscroll(top, bottom) ==
    /\ past # <<>>
    /\ screen' = [MovedDown(top, bottom) EXCEPT ![1] = past[Len(past)]]
    /\ past' = Taken(past, Len(past) - 1)

Insert(n, y, bottom) ==
    /\ screen' = WithRegion(y, bottom, Blanks(n) \o Taken(RegionOf(y, bottom), bottom - y + 1 - n))
    /\ UNCHANGED past

Delete(n, y, bottom) ==
    /\ screen' = WithRegion(y, bottom, Skipped(RegionOf(y, bottom), n) \o Blanks(n))
    /\ UNCHANGED past

(* The lines top..bottom are erased; all says that the history is too.     *)
Erase(top, bottom, all) ==
    /\ screen' = WithRegion(top, bottom, Blanks(bottom - top + 1))
    /\ past' = IF all THEN <<>> ELSE past

Next ==
    \/ \E i \in 1..ScreenLines : Change(i, screen'[i])
    \/ \E top \in 1..ScreenLines : \E bottom \in top..ScreenLines :
         \/ Up(top, bottom) \/ Down(top, bottom) \/ Unscroll(top, bottom)
         \/ \E all \in BOOLEAN : Erase(top, bottom, all)
         \/ \E n \in 1..bottom - top + 1 : Insert(n, top, bottom) \/ Delete(n, top, bottom)

Spec == Init /\ [][Next]_<<screen, past>>
=============================================================================
