------------------------------- MODULE Rewrap -------------------------------
(***************************************************************************)
(* What a resize does to the text of the main screen: rewrap_inner() of    *)
(* src/smelly/rewrap.h, once for the history and once for the screen, and  *)
(* screen_resize() around it.  A line is its cells (0 is blank) and the    *)
(* flag that it goes on in the next line, kept in its last cell.  The save *)
(* points are moved as the cursor is, the alternate screen is rewrapped as *)
(* the main one without a history, and prompt marks, images and selections *)
(* are left out.                                                           *)
(***************************************************************************)
EXTENDS Integers, FiniteSetsExt, SequencesExt

CONSTANTS ScreenSizes,   \* sizes a screen may have: [lines, columns]
          FirstSize,     \* its size before the first resize
          HistoryLines,  \* historybuf->ynum
          MaxHistory     \* bound on the lines of the history before it

VARIABLES rsize,   \* lines, columns
          hist,    \* historybuf, oldest line first
          scr,     \* main_linebuf, in the order of line_map
          rcur,    \* cursor->x, cursor->y
          fill     \* the option scrollback_fill_enlarged_window

rvars == <<rsize, hist, scr, rcur, fill>>

Lesser(a, b) == IF a < b THEN a ELSE b
Greater(a, b) == IF a < b THEN b ELSE a

BlankLine(columns) == [cells |-> [i \in 1..columns |-> 0], cont |-> FALSE]
Written(l) == Max({0} \cup {i \in DOMAIN l.cells : l.cells[i] # 0})

-----------------------------------------------------------------------------
(* A buffer being filled: its lines so far, the last of them the current   *)
(* one; the column to write; the tracked cursor t; the lines that left a   *)
(* full screen.  Lines that leave a full history are lost, and the ring    *)
(* gives their cells to the next line as they are.                         *)
EmptyDest(columns, room, ring, t) ==
    [lines |-> <<>>, columns |-> columns, room |-> room, ring |-> ring,
     x |-> 0, t |-> t, gone |-> <<>>]

(* historybuf_push or linebuf_index before the next line is taken          *)
Recycled(d, lines) ==
    CASE Len(lines) < d.room ->
           [d EXCEPT !.x = 0, !.lines = Append(lines, BlankLine(d.columns))]
      [] Len(lines) = d.room /\ d.ring ->
           [d EXCEPT !.x = 0, !.lines = Append(Tail(lines), Head(lines))]
      [] OTHER ->
           [d EXCEPT !.x = 0, !.lines = Append(Tail(lines), BlankLine(d.columns)),
                     !.gone = Append(@, Head(lines))]

(* first_dest_line, next_dest_line                                         *)
NextLineOf(d, cont) ==
    Recycled(d, [i \in DOMAIN d.lines |->
                    IF i = Len(d.lines) THEN [d.lines[i] EXCEPT !.cont = cont] ELSE d.lines[i]])

(* The cells of a chunk, at column x of line l; the copied cells bring     *)
(* their flag, which is clear.                                             *)
CopyRange(l, x, chunk) ==
    [cells |-> [i \in DOMAIN l.cells |-> IF i \in x + 1..x + Len(chunk) THEN chunk[i - x] ELSE l.cells[i]],
     cont |-> l.cont /\ x + Len(chunk) < Len(l.cells)]

(* Mutant: a tracked cursor keeps the column of the cell it is on.         *)
TrackedOnCell(t, at, n, x, y) ==
    IF t.on /\ at <= t.x /\ t.x < at + n THEN [t EXCEPT !.y = y, !.x = x + t.x - at] ELSE t

(* A cursor on one of the n cells from column at goes with them to column  *)
(* x of line y, behind the cell it was on unless that is column 0.         *)
Tracked(t, at, n, x, y) ==
    IF t.on /\ at <= t.x /\ t.x < at + n
    THEN [t EXCEPT !.y = y, !.x = x + t.x - at + (IF t.x > 0 THEN 1 ELSE 0)]
    ELSE t

(* The cells from column at of a line, as many as the line of d takes.     *)
CopyChunk(d, cells, at) ==
    LET n == Lesser(Len(cells) - at, d.columns - d.x)
        y == Len(d.lines)
    IN [d EXCEPT !.lines[y] = CopyRange(@, d.x, SubSeq(cells, at + 1, at + n)),
                 !.t = Tracked(@, at, n, d.x, y - 1),
                 !.x = @ + n]

(* The cells of a line in chunks that each fill a line of d, until the     *)
(* first limit cells are copied.                                           *)
CopyCells(d0, cells, limit) ==
    LET free == IF d0.x < d0.columns THEN d0.columns - d0.x ELSE d0.columns
        At(k) == IF k = 1 THEN 0 ELSE free + (k - 2) * d0.columns
        Chunk(d, at) ==
            CASE at >= limit -> d
              [] at < limit /\ d.x >= d.columns -> CopyChunk(NextLineOf(d, TRUE), cells, at)
              [] OTHER -> CopyChunk(d, cells, at)
        copied[k \in 0..limit] == IF k = 0 THEN d0 ELSE Chunk(copied[k - 1], At(k))
    IN copied[limit]

(* Mutant: the blanks at the end of a line are copied too.                 *)
FullLimit(l) == Len(l.cells)

(* Trailing blanks are trimmed when a hard break follows.                  *)
Limit(l) == IF l.cont THEN Len(l.cells) ELSE Written(l)

(* The tracked cursor at line i of the source, which ends at limit.        *)
OnLine(t, i, limit) ==
    [t EXCEPT !.on = t.y = i - 1,
              !.x = IF t.y = i - 1 /\ @ >= limit THEN Greater(1, limit) - 1 ELSE @]

(* Line i of the source src, of which the first n lines are content.       *)
SrcLine(d, src, n, i) ==
    LET l == src[i]
        Started(e) == IF i = 1 THEN NextLineOf(e, FALSE) ELSE e
        Ended(e) == IF ~l.cont /\ i < n THEN NextLineOf(e, FALSE) ELSE e
    IN Ended(CopyCells(Started([d EXCEPT !.t = OnLine(@, i, Limit(l))]), l.cells, Limit(l)))

RewrapInner(d, src, n) ==
    LET done[i \in 0..n] == IF i = 0 THEN d ELSE SrcLine(done[i - 1], src, n, i)
    IN done[n]

-----------------------------------------------------------------------------
Tracking(x, y) == [x |-> x, y |-> y, on |-> FALSE]

RewrapHistory(lines, from, to) ==
    IF from = to \/ lines = <<>> THEN lines
    ELSE RewrapInner(EmptyDest(to, HistoryLines, TRUE, Tracking(0, -1)), lines, Len(lines)).lines

(* historybuf_add_line() of each line                                      *)
AddLines(h, lines) ==
    LET all == h \o lines
    IN SubSeq(all, Greater(1, Len(all) - HistoryLines + 1), Len(all))

ContentLines(lines) == Max({0} \cup {i \in DOMAIN lines : Written(lines[i]) > 0})

(* What linebuf_rewrap() returns of n lines of content rewrapped as d.     *)
Rewrapped(d, n, b) ==
    [lines |-> [i \in 1..b.lines |-> IF i <= Len(d.lines) THEN d.lines[i] ELSE BlankLine(b.columns)],
     gone |-> d.gone, t |-> d.t, before |-> n, after |-> Len(d.lines)]

(* linebuf_rewrap() of lines, of which n are content, from the size a to b *)
RewrapScreen(lines, n, a, b, c) ==
    CASE a = b -> [lines |-> lines, gone |-> <<>>, t |-> Tracking(c.x, c.y),
                   before |-> a.lines, after |-> a.lines]
      [] a # b /\ n = 0 -> [lines |-> [i \in 1..b.lines |-> BlankLine(b.columns)],
                            gone |-> <<>>, t |-> Tracking(c.x, c.y), before |-> 0, after |-> 0]
      [] OTHER -> Rewrapped(RewrapInner(EmptyDest(b.columns, b.lines, FALSE, Tracking(c.x, c.y)), lines, n), n, b)

(* The screen s = [hist, scr, y] of lines x columns b, scrolled up by one. *)
ScrolledUp(s, b) ==
    [s EXCEPT !.hist = AddLines(@, <<Head(s.scr)>>),
              !.scr = Append(Tail(@), BlankLine(b.columns))]

(* Lines of the history return, at the top, while there is room below the  *)
(* cursor that was not there before the resize.                            *)
FillEnlarged(s, b, below) ==
    LET room == Max({0, Lesser(b.lines - 1 - s.y, b.lines - s.y - below)})
        n == Lesser(room, Len(s.hist))
        all == s.hist \o s.scr
        top == Len(s.hist) - n
    IN [s EXCEPT !.hist = SubSeq(all, 1, top), !.scr = SubSeq(all, top + 1, top + b.lines), !.y = @ + n]

(* The line of the cursor before the fill, when it was below the text.     *)
BeyondContent(r, c, b) == Lesser(r.after, b.lines - 1)

Beyond(r, c) == r.before > 0 /\ c.y >= r.before

(* The screen after the rewrap r, with the cursor on its line.             *)
Placed(h, r, c, b) ==
    [hist |-> AddLines(h, r.gone), scr |-> r.lines, x |-> Lesser(r.t.x, b.columns - 1),
     y |-> IF Beyond(r, c) THEN BeyondContent(r, c, b) ELSE Lesser(r.t.y, b.lines - 1)]

Indexed(h, r, c, b) ==
    IF Beyond(r, c) /\ r.after >= b.lines
    THEN ScrolledUp(Placed(h, r, c, b), b)
    ELSE Placed(h, r, c, b)

screen_resize(b) ==
    \E r \in {RewrapScreen(scr, ContentLines(scr), rsize, b, rcur)},
       h \in {RewrapHistory(hist, rsize.columns, b.columns)} :
       \E s \in {Indexed(h, r, rcur, b)} :
       \E filled \in {IF fill THEN FillEnlarged(s, b, rsize.lines - rcur.y) ELSE s} :
          /\ rsize' = b
          /\ hist' = filled.hist
          /\ scr' = filled.scr
          /\ rcur' = [x |-> filled.x, y |-> filled.y]
          /\ UNCHANGED fill

-----------------------------------------------------------------------------
(* Text of any shape before the first resize: lines of any length, of      *)
(* which the full ones may go on in the next; each cell has a number of    *)
(* its own.                                                                *)
Shapes == {[written |-> w, cont |-> FALSE] : w \in 0..FirstSize.columns}
              \cup {[written |-> FirstSize.columns, cont |-> TRUE]}

TextOf(shapes) ==
    [i \in DOMAIN shapes |->
        [cells |-> [j \in 1..FirstSize.columns |->
                       IF j <= shapes[i].written THEN i * FirstSize.columns + j ELSE 0],
         cont |-> shapes[i].cont]]

RwInit ==
    /\ rsize = FirstSize
    /\ \E n \in 0..MaxHistory : \E shapes \in [1..n + FirstSize.lines -> Shapes] :
          /\ hist = SubSeq(TextOf(shapes), 1, n)
          /\ scr = SubSeq(TextOf(shapes), n + 1, n + FirstSize.lines)
    /\ rcur \in [x : 0..FirstSize.columns, y : 0..FirstSize.lines - 1]
    /\ fill \in BOOLEAN

RwNext == \E b \in ScreenSizes : screen_resize(b)

RwSpec == RwInit /\ [][RwNext]_rvars

-----------------------------------------------------------------------------
(* The text of lines with -1 at each hard line break.                      *)
Flat(lines) ==
    LET said(l) == IF l.cont THEN l.cells ELSE Append(SubSeq(l.cells, 1, Written(l)), -1)
        text[i \in 0..Len(lines)] == IF i = 0 THEN <<>> ELSE text[i - 1] \o said(lines[i])
    IN text[Len(lines)]

WithoutEnd(text) == SubSeq(text, 1, Max({0} \cup {i \in DOMAIN text : text[i] > 0}))

(* The history and the screen are rewrapped apart, when the columns change,*)
(* and a line that goes on from one to the other is then cut in two.       *)
ShownAs(h, lines, cut) ==
    LET last == Len(h)
        apart == [i \in DOMAIN h |-> [h[i] EXCEPT !.cont = @ /\ ~(cut /\ i = last)]]
    IN WithoutEnd(Flat(apart \o lines))

(* The history was not full at any time of the resize.                     *)
RoomLeft == Len(hist') + (IF fill THEN rsize'.lines ELSE 0) < HistoryLines

(* A resize changes where lines break and nothing else: every cell of the  *)
(* history and of the screen is there after it, in the same order and with *)
(* the same hard line breaks, as long as the history has room.  Lines that *)
(* return from the history to fill an enlarged window may push text out of *)
(* the screen, but only at its end.                                        *)
TextKept ==
    [][rsize' # rsize /\ RoomLeft =>
         LET before == ShownAs(hist, scr, rsize.columns # rsize'.columns)
             after == ShownAs(hist', scr', FALSE)
         IN IF fill THEN IsPrefix(after, before) ELSE after = before]_rvars

(* The cursor behind the last text of the screen, of two cells or more.    *)
BehindText(lines, c) ==
    LET n == ContentLines(lines)
    IN n > 0 /\ c.y = n - 1 /\ Written(lines[n]) > 1 /\ c.x >= Written(lines[n])

(* A cursor behind the text is behind the text after a resize, or on the   *)
(* last column if the text fills it, and a cursor below the text stays     *)
(* below: a shell goes on where it was.                                    *)
CursorKeepsPlace ==
    [][rsize' # rsize =>
       LET n == ContentLines(scr')
       IN /\ BehindText(scr, rcur) =>
                /\ rcur'.y = n - 1
                /\ rcur'.x >= Lesser(Written(scr'[n]), rsize'.columns - 1)
          /\ 0 < ContentLines(scr) /\ ContentLines(scr) <= rcur.y => n <= rcur'.y]_rvars
=============================================================================
