------------------------------ MODULE LineStore ------------------------------
(***************************************************************************)
(* How the lines of the main screen and of the scrollback are stored:      *)
(* line-buf.c leaves the cells of a line in place and moves numbers of     *)
(* lines about, with the attributes of the lines beside them, and          *)
(* history.c is a ring.  A code with a count is that many steps; resizing  *)
(* is Rewrap's and the alternate screen has no history.                    *)
(***************************************************************************)
EXTENDS Integers, Sequences

CONSTANTS BufLines,   \* linebuf->ynum
          RingLines,  \* historybuf->ynum
          MaxTexts    \* bound on the texts drawn

ASSUME BufLinesAssumption == BufLines \in Nat \ {0}
ASSUME RingLinesAssumption == RingLines \in Nat \ {0}
ASSUME MaxTextsAssumption == MaxTexts \in Nat

VARIABLES
    lmap,    \* line_map: the cells of each line of the screen
    cells,   \* the text in each of the cells; 0 is blank
    marks,   \* line_attrs: the lines that start a prompt
    ring,    \* historybuf: slots, start (start_of_data), count
    region,  \* margin_top, margin_bottom
    texts    \* texts drawn so far

lsvars == <<lmap, cells, marks, ring, region, texts>>

Rows == 0..BufLines - 1
Slots == 0..RingLines - 1
RowOf(text, mark) == [text |-> text, mark |-> mark]
BlankRow == RowOf(0, FALSE)
WholeScreen == [top |-> 0, bottom |-> BufLines - 1]

Smaller(a, b) == IF a < b THEN a ELSE b

-----------------------------------------------------------------------------
(* The ring of the history.                                                *)
IndexOf(r, lnum) == (r.start + r.count - 1 - Smaller(r.count - 1, lnum)) % RingLines
HistoryLine(r, lnum) == r.slots[IndexOf(r, lnum)]

(* Mutant: a full ring keeps its start.                                    *)
PushedAtStart(r, row) ==
    [slots |-> [r.slots EXCEPT ![(r.start + r.count) % RingLines] = row],
     start |-> r.start,
     count |-> IF r.count = RingLines THEN r.count ELSE r.count + 1]

Pushed(r, row) ==
    [slots |-> [r.slots EXCEPT ![(r.start + r.count) % RingLines] = row],
     start |-> IF r.count = RingLines THEN (r.start + 1) % RingLines ELSE r.start,
     count |-> IF r.count = RingLines THEN r.count ELSE r.count + 1]

(* A slot whose line left the ring is blank here: nothing reads it.        *)
Newest(r) == (r.start + r.count - 1) % RingLines
Popped(r) ==
    [slots |-> [r.slots EXCEPT ![Newest(r)] = BlankRow], start |-> r.start, count |-> r.count - 1]
EmptyRing == [slots |-> [s \in Slots |-> BlankRow], start |-> 0, count |-> 0]

(* Mutant: inserting lines leaves the numbers of the lines it pushed out.  *)
FromInsertLost(i, n, y, bottom) == IF i \in y + n..bottom THEN i - n ELSE i

(* Where the line that ends up at line i of the screen comes from.         *)
FromBelow(i, top, bottom) ==
    IF i \in top..bottom - 1 THEN i + 1 ELSE IF i = bottom THEN top ELSE i
FromAbove(i, top, bottom) ==
    IF i \in top + 1..bottom THEN i - 1 ELSE IF i = top THEN bottom ELSE i
FromInsert(i, n, y, bottom) ==
    IF i \in y..y + n - 1 THEN bottom + 1 - n + (i - y)
    ELSE IF i \in y + n..bottom THEN i - n ELSE i
FromDelete(i, n, y, bottom) ==
    IF i \in y..bottom - n THEN i + n
    ELSE IF i \in bottom - n + 1..bottom THEN y + (i - (bottom - n + 1)) ELSE i

(* The screen with line i taken from from[i], the lines of blank blanked.  *)
Moves(from, blank) ==
    /\ lmap' = [i \in Rows |-> lmap[from[i]]]
    /\ cells' = [c \in Rows |-> IF \E i \in blank : lmap'[i] = c THEN 0 ELSE cells[c]]
    /\ marks' = [i \in Rows |-> i \notin blank /\ marks[from[i]]]

-----------------------------------------------------------------------------
LsInit ==
    /\ lmap = [i \in Rows |-> i]
    /\ cells = [c \in Rows |-> 0]
    /\ marks = [i \in Rows |-> FALSE]
    /\ ring = EmptyRing
    /\ region = WholeScreen
    /\ texts = 0

(* Text is drawn on a line, and a prompt mark may be put on it.            *)
WriteLine == \E y \in Rows, mark \in BOOLEAN :
    /\ texts < MaxTexts
    /\ texts' = texts + 1
    /\ cells' = [cells EXCEPT ![lmap[y]] = texts + 1]
    /\ marks' = [marks EXCEPT ![y] = @ \/ mark]
    /\ UNCHANGED <<lmap, ring, region>>

(* INDEX_UP: linebuf_index(), and the line that wrapped round to the       *)
(* bottom is remembered if it was the top of the screen, then cleared.     *)
IndexLines ==
    /\ Moves([i \in Rows |-> FromBelow(i, region.top, region.bottom)], {region.bottom})
    /\ ring' = IF region.top = 0 THEN Pushed(ring, RowOf(cells[lmap[0]], marks[0])) ELSE ring
    /\ UNCHANGED <<region, texts>>

(* INDEX_DOWN: linebuf_reverse_index() and linebuf_clear_line()            *)
ReverseIndexLines ==
    /\ Moves([i \in Rows |-> FromAbove(i, region.top, region.bottom)], {region.top})
    /\ UNCHANGED <<ring, region, texts>>

(* One step of _reverse_scroll() with fill_from_scrollback, and of the     *)
(* filling of an enlarged window: the line that comes back from the        *)
(* history is copied to line 0, whatever the region.                       *)
FillLine ==
    /\ ring.count > 0
    /\ LET from(i) == FromAbove(i, region.top, region.bottom)
           row == ring.slots[Newest(ring)]
       IN /\ lmap' = [i \in Rows |-> lmap[from(i)]]
          /\ cells' = [c \in Rows |-> IF c = lmap[from(0)] THEN row.text
                                      ELSE IF c = lmap[region.bottom] THEN 0 ELSE cells[c]]
          /\ marks' = [i \in Rows |-> IF i = 0 THEN row.mark
                                      ELSE i # region.top /\ marks[from(i)]]
    /\ ring' = Popped(ring)
    /\ UNCHANGED <<region, texts>>

(* The cursor is on line y of the region; lines are cleared as they enter. *)
InsertLines == \E y \in region.top..region.bottom : \E n \in 1..region.bottom - y + 1 :
    /\ Moves([i \in Rows |-> FromInsert(i, n, y, region.bottom)], y..y + n - 1)
    /\ UNCHANGED <<ring, region, texts>>

DeleteLines == \E y \in region.top..region.bottom : \E n \in 1..region.bottom - y + 1 :
    /\ Moves([i \in Rows |-> FromDelete(i, n, y, region.bottom)], region.bottom - n + 1..region.bottom)
    /\ UNCHANGED <<ring, region, texts>>

(* screen_erase_in_display(): the lines up to the cursor or below it, or   *)
(* all, and the scrollback with them.  The cursor is at the end of its     *)
(* line.                                                                   *)
EraseLines == \E lines \in {0..y : y \in Rows} \cup {y..BufLines - 1 : y \in Rows}, all \in BOOLEAN :
    /\ all => lines = Rows
    /\ cells' = [c \in Rows |-> IF \E i \in lines : lmap[i] = c THEN 0 ELSE cells[c]]
    /\ marks' = [i \in Rows |-> i \notin lines /\ marks[i]]
    /\ ring' = IF all THEN EmptyRing ELSE ring
    /\ UNCHANGED <<lmap, region, texts>>

(* What screen_reset() does to the lines.                                  *)
ResetLines ==
    /\ lmap' = [i \in Rows |-> i]
    /\ cells' = [c \in Rows |-> 0]
    /\ marks' = [i \in Rows |-> FALSE]
    /\ ring' = EmptyRing
    /\ region' = WholeScreen
    /\ UNCHANGED texts

SetRegion == \E top, bottom \in Rows :
    /\ top < bottom
    /\ region' = [top |-> top, bottom |-> bottom]
    /\ UNCHANGED <<lmap, cells, marks, ring, texts>>

LsNext ==
    \/ WriteLine \/ IndexLines \/ ReverseIndexLines \/ FillLine
    \/ InsertLines \/ DeleteLines \/ EraseLines \/ ResetLines \/ SetRegion

LsSpec == LsInit /\ [][LsNext]_lsvars

-----------------------------------------------------------------------------
(* Types; no two lines of the screen share their cells.                    *)
LsTypeOK ==
    /\ lmap \in [Rows -> Rows]
    /\ \A i, j \in Rows : lmap[i] = lmap[j] => i = j
    /\ cells \in [Rows -> Nat]
    /\ marks \in [Rows -> BOOLEAN]
    /\ ring \in [slots : [Slots -> [text : Nat, mark : BOOLEAN]], start : Slots, count : 0..RingLines]
    /\ region \in [top : Rows, bottom : Rows]
    /\ region.top <= region.bottom
    /\ texts \in 0..MaxTexts

Row(i) == RowOf(cells[lmap[i]], marks[i])

Stored == INSTANCE TextLines WITH
    ScreenLines <- BufLines,
    HistoryMax <- RingLines,
    screen <- [i \in 1..BufLines |-> Row(i - 1)],
    past <- [i \in 1..ring.count |-> HistoryLine(ring, ring.count - i)]

(* The map of lines and the ring are the two sequences of TextLines:       *)
(* whatever scrolls, is inserted or deleted or comes back, no line is      *)
(* lost, shown twice or parted from its prompt mark.                       *)
TextIsSequences == Stored!Spec
=============================================================================
