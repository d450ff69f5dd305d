----------------------------- MODULE CursorMoves -----------------------------
(***************************************************************************)
(* Where the cursor of a screen is (src/smelly/screen.c): drawing, moves,  *)
(* the scrolling region, origin mode, save points, the alternate screen    *)
(* and resizing.  Lines and columns count from zero; a column equal to the *)
(* number of columns is the pending wrap.  The text is not here: what      *)
(* depends on it (widths, tab stops, where a rewrap puts the cursor) and   *)
(* on the modes DECAWM and LNM takes any value at each step.               *)
(***************************************************************************)
EXTENDS Integers

CONSTANTS Sizes,    \* sizes the screen may have: [lines, columns]
          MaxCount  \* bound on the count of an escape code

(* A wide character must fit on a line.                                    *)
ASSUME SizesAssumption == Sizes \subseteq [lines : Nat \ {0}, columns : Nat \ {0, 1}]
ASSUME MaxCountAssumption == MaxCount \in Nat \ {0}

VARIABLES
    size,      \* lines, columns
    cur,       \* cursor->x, cursor->y
    margins,   \* margin_top, margin_bottom
    origin,    \* mDECOM
    alt,       \* linebuf is alt_linebuf
    saved,     \* main_savepoint, alt_savepoint, by the value of alt, with
               \* the cursors each may hold (one until the screen is resized)
    entered    \* history: the cursor that mode 1049 saved when it left main

cvars == <<size, cur, margins, origin, alt, saved, entered>>
rest == <<size, margins, origin, alt, saved, entered>>

Least(a, b) == IF a < b THEN a ELSE b
Most(a, b) == IF a < b THEN b ELSE a

At(x, y) == [x |-> x, y |-> y]
Home == At(0, 0)
Whole(sz) == [top |-> 0, bottom |-> sz.lines - 1]
NotSaved == [valid |-> FALSE, cur |-> {Home}, origin |-> FALSE]
Counts == 1..MaxCount

-----------------------------------------------------------------------------
(* The helpers of the handlers, as functions of a cursor c.                *)

Within(m, c) == m.top <= c.y /\ c.y <= m.bottom
InRegion(c) == Within(margins, c)

(* The lines a move is held to: the region r, or the screen.               *)
Region(held, r) == IF held THEN r ELSE Whole(size)

EnsureBounds(c, r) ==
    At(Least(c.x, size.columns - 1), Most(r.top, Least(c.y, r.bottom)))

(* Mutant: held to the region in origin mode only.                         *)
CursorUpOfScreen(c, n) ==
    EnsureBounds(At(c.x, IF n > c.y THEN 0 ELSE c.y - n), Region(origin /\ InRegion(c), margins))

CursorUp(c, n) ==
    EnsureBounds(At(c.x, IF n > c.y THEN 0 ELSE c.y - n), Region(InRegion(c), margins))
CursorDown(c, n) == EnsureBounds(At(c.x, c.y + n), Region(InRegion(c), margins))
Column(c, x) == EnsureBounds(At(x, c.y), Region(origin /\ InRegion(c), margins))

CarriageReturn(c) == At(0, c.y)

(* At the edge of the region it is the text that scrolls.                  *)
Index(c) == IF c.y = margins.bottom THEN c ELSE CursorDown(c, 1)
ReverseIndex(c) == IF c.y = margins.top THEN c ELSE CursorUp(c, 1)

(* nl is LNM.                                                              *)
Linefeed(c, nl) == Column(Index(c), IF nl THEN 0 ELSE c.x)

(* screen_cursor_position() in region r under the origin mode om.          *)
Position(c, r, om, line, column) ==
    EnsureBounds(At(column, IF om THEN Most(r.top, Least(line + r.top, r.bottom)) ELSE line),
                 Region(om /\ Within(r, c), r))

(* The start of the next line, for what does not fit on this one.          *)
Wrapped(c, nl) == Linefeed(CarriageReturn(c), nl)

(* Mutant: a wide character may begin in the last column.                  *)
DrawnAtAnyColumn(c, w, wrap, nl) ==
    IF c.x < size.columns THEN c
    ELSE IF wrap THEN Wrapped(c, nl)
    ELSE At(size.columns - w, c.y)

(* Where a character of w columns is drawn; wrap is DECAWM.                *)
DrawnAt(c, w, wrap, nl) ==
    IF size.columns - c.x >= w THEN c
    ELSE IF wrap THEN Wrapped(c, nl)
    ELSE At(size.columns - w, c.y)

-----------------------------------------------------------------------------
Init ==
    /\ size \in Sizes
    /\ cur = Home
    /\ margins = Whole(size)
    /\ origin = FALSE
    /\ alt = FALSE
    /\ saved = [a \in BOOLEAN |-> NotSaved]
    /\ entered = {}

Goes(c) == cur' = c /\ UNCHANGED rest

Draw == \E w \in {1, 2}, wrap, nl \in BOOLEAN :
    LET c == DrawnAt(cur, w, wrap, nl) IN Goes(At(c.x + w, c.y))

(* An emoji selector widens the character before the cursor, which moves   *)
(* if it stands in the last column.                                        *)
Widen == \E wrap, nl \in BOOLEAN :
    LET p == IF cur.x > 0 THEN At(cur.x - 1, cur.y) ELSE At(size.columns - 1, cur.y - 1)
    IN /\ p.y >= 0
       /\ Goes(IF p.x # size.columns - 1 THEN At(cur.x + 1, cur.y)
               ELSE IF wrap THEN At(2, Wrapped(p, nl).y)
               ELSE At(size.columns, p.y))

(* A text selector steps back over the second half of a wide character.    *)
Narrow == cur.x > 1 /\ Goes(At(cur.x - 1, cur.y))

Return == Goes(CarriageReturn(cur))
LineFeed == \E nl \in BOOLEAN : Goes(Linefeed(cur, nl))
NextLine == \E nl \in BOOLEAN : Goes(Wrapped(cur, nl))
IndexDown == Goes(Index(cur))
IndexUp == Goes(ReverseIndex(cur))
Up == \E n \in Counts, cr \in BOOLEAN :
    Goes(IF cr THEN CarriageReturn(CursorUp(cur, n)) ELSE CursorUp(cur, n))
Down == \E n \in Counts, cr \in BOOLEAN :
    Goes(IF cr THEN CarriageReturn(CursorDown(cur, n)) ELSE CursorDown(cur, n))
Back == \E n \in Counts : Goes(Column(cur, IF n > cur.x THEN 0 ELSE cur.x - n))
Forward == \E n \in Counts : Goes(Column(cur, cur.x + n))

ToPosition == \E line, column \in 0..MaxCount :
    Goes(Position(cur, margins, origin, line, column))
ToLine == \E line \in 0..MaxCount : Goes(Position(cur, margins, origin, line, cur.x))
ToColumn == \E x \in 0..MaxCount : x # cur.x /\ Goes(Column(cur, x))

(* Insert and delete lines return the cursor, and only inside the region.  *)
EditLines == InRegion(cur) /\ Goes(CarriageReturn(cur))

Tab == \E x \in cur.x+1..size.columns-1 : Goes(At(x, cur.y))
TabNoStop == Goes(At(size.columns - 1, cur.y))
BackTab == \E x \in 0..Most(0, cur.x - 1) : Goes(At(x, cur.y))

(* A placed image moves the cursor past its lower right corner.  Whether   *)
(* the cursor is in the region is asked after the move.                    *)
PlaceImage == \E w, h \in Counts :
    LET p == At(cur.x + w, cur.y + h - 1)
        c == IF p.x >= size.columns THEN At(0, p.y + 1) ELSE p
    IN Goes(EnsureBounds(c, Region(origin /\ InRegion(p), margins)))

(* The prompt at line q is scrolled to the top.                            *)
PromptToTop == \E q \in 0..cur.y :
    ~alt /\ Goes(At(cur.x, cur.y - Least(margins.bottom, q)))

(* ... or to the bottom, n lines coming back from the history.             *)
PromptToBottom == \E n \in Counts :
    ~alt /\ n < size.lines /\ Goes(CursorDown(cur, n))

(* DECSTBM ignores a region of one line.                                   *)
SetMargins == \E top, bottom \in 0..size.lines-1 :
    /\ bottom > top
    /\ margins' = [top |-> top, bottom |-> bottom]
    /\ cur' = Position(cur, margins', origin, 0, 0)
    /\ UNCHANGED <<size, origin, alt, saved, entered>>

SetOrigin(om) ==
    /\ origin' = om
    /\ cur' = Position(cur, margins, om, 0, 0)
    /\ UNCHANGED <<size, margins, alt, saved, entered>>

(* DECCOLM erases the screen and goes home.                                *)
GoHome == Goes(Position(cur, margins, origin, 0, 0))

Align ==
    /\ margins' = Whole(size)
    /\ cur' = Position(cur, margins', origin, 0, 0)
    /\ UNCHANGED <<size, origin, alt, saved, entered>>

(* Save points.                                                            *)
SavedCursor == [valid |-> TRUE, cur |-> {cur}, origin |-> origin]

(* Mutant: the alternate screen saves over the main one.                   *)
SaveCursorOfMain ==
    /\ saved' = [saved EXCEPT ![FALSE] = SavedCursor]
    /\ UNCHANGED <<size, cur, margins, origin, alt, entered>>

(* DECSC, and both setting and resetting mode 1048.                        *)
SaveCursor ==
    /\ saved' = [saved EXCEPT ![alt] = SavedCursor]
    /\ UNCHANGED <<size, cur, margins, origin, alt, entered>>

(* A cursor that screen a may get back.                                    *)
RestoredCursors(a) ==
    IF saved[a].valid THEN {EnsureBounds(c, Whole(size)) : c \in saved[a].cur}
    ELSE {Position(cur, margins, FALSE, 0, 0)}

RestoreCursor ==
    /\ origin' = saved[alt].origin
    /\ cur' \in RestoredCursors(alt)
    /\ UNCHANGED <<size, margins, alt, saved, entered>>

(* Modes 47, 1047 and, with save, 1049.                                    *)
ToAlt(save) ==
    /\ ~alt
    /\ alt' = TRUE
    /\ saved' = IF save THEN [saved EXCEPT ![FALSE] = SavedCursor] ELSE saved
    /\ entered' = IF save THEN {cur} ELSE {}
    /\ cur' = Home
    /\ UNCHANGED <<size, margins, origin>>

ToMain(save) ==
    /\ alt
    /\ alt' = FALSE
    /\ origin' = IF save THEN saved[FALSE].origin ELSE origin
    /\ cur' \in IF save THEN RestoredCursors(FALSE) ELSE {cur}
    /\ entered' = {}
    /\ UNCHANGED <<size, margins, saved>>

Reset ==
    /\ alt' = FALSE
    /\ saved' = [a \in BOOLEAN |-> NotSaved]
    /\ origin' = FALSE
    /\ margins' = Whole(size)
    /\ cur' = Home
    /\ entered' = {}
    /\ UNCHANGED size

(* The rewrap moves the cursor and the save points anywhere on the screen. *)
Resize == \E sz \in Sizes :
    LET Cursors == [x : 0..sz.columns-1, y : 0..sz.lines-1]
    IN /\ size' = sz
       /\ margins' = Whole(sz)
       /\ cur' \in Cursors
       /\ saved' = [a \in BOOLEAN |->
              IF saved[a].valid THEN [saved[a] EXCEPT !.cur = Cursors] ELSE NotSaved]
       /\ entered' = {}
       /\ UNCHANGED <<origin, alt>>

(* Moves from where the cursor is.                                         *)
Relative ==
    \/ Draw \/ Narrow \/ Return \/ LineFeed \/ NextLine \/ IndexDown \/ IndexUp
    \/ Up \/ Down \/ Back \/ Forward \/ ToColumn \/ EditLines \/ Tab \/ TabNoStop \/ BackTab

(* Moves to a place of their own.                                          *)
Absolute == ToPosition \/ ToLine \/ GoHome \/ SetMargins \/ Align \/ \E om \in BOOLEAN : SetOrigin(om)

Next ==
    \/ Relative
    \/ Absolute
    \/ Widen \/ PlaceImage \/ PromptToTop \/ PromptToBottom
    \/ SaveCursor \/ RestoreCursor
    \/ \E save \in BOOLEAN : ToAlt(save) \/ ToMain(save)
    \/ Reset
    \/ Resize

Spec == Init /\ [][Next]_cvars

-----------------------------------------------------------------------------
Cursor(sz) == [x : 0..sz.columns, y : 0..sz.lines-1]

(* Whatever the program in the terminal sends, the cursor stays on the     *)
(* screen (but for the pending wrap) and the region holds two lines or all *)
(* of them: every handler writes cells of the line of the cursor without a *)
(* check of its own.                                                       *)
CursorInside ==
    /\ size \in Sizes
    /\ cur \in Cursor(size)
    /\ margins \in [top : 0..size.lines-1, bottom : 0..size.lines-1]
    /\ margins.top < margins.bottom \/ margins = Whole(size)
    /\ origin \in BOOLEAN /\ alt \in BOOLEAN
    /\ saved \in [BOOLEAN -> [valid : BOOLEAN, cur : SUBSET Cursor(size), origin : BOOLEAN]]
    /\ entered \subseteq Cursor(size)

(* A cursor in the scrolling region leaves it neither by a relative move   *)
(* nor, in origin mode, by an absolute one.  Widening a character at the   *)
(* end of the line above the region does, and so does placing an image.    *)
StaysInRegion ==
    [][InRegion(cur) /\ margins' = margins /\ ~InRegion(cur)'
       => ~Relative /\ ~(Absolute /\ origin')]_cvars

(* A program that runs in the alternate screen by mode 1049 leaves the     *)
(* cursor of the main screen where it was, whatever it saves, restores and *)
(* sets there; only the pending wrap is lost.                              *)
LeavingAltRestores ==
    [][ToMain(TRUE) => \A c \in entered : cur' = EnsureBounds(c, Whole(size))]_cvars
=============================================================================
