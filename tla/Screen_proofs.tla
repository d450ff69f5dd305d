---------------------------- MODULE Screen_proofs ----------------------------
(***************************************************************************)
(* What is proved of the parts of a screen, each for every size of the     *)
(* screen and of the history.  CursorMoves: the cursor stays on the screen *)
(* and in its region.  LineStore: the line map stays a permutation of the  *)
(* lines, and the map and the ring implement the two sequences of          *)
(* TextLines; both sides of each step are brought to the form of a         *)
(* function on 1..BufLines and compared line by line.  Scrollback: the     *)
(* view, the selection and the prompt last visited follow the text, since  *)
(* a step moves the line at every position, what is followed and the view  *)
(* by as much.                                                             *)
(***************************************************************************)
EXTENDS CursorMoves, LineStore, Scrollback, TLAPS
-----------------------------------------------------------------------------
(* The cursor: CursorMoves.                                                *)

Point == [x : Nat, y : Nat]

(* A region of the screen, or all of it.                                   *)
IsRegion(r) ==
    /\ r \in [top : 0..size.lines-1, bottom : 0..size.lines-1]
    /\ r.top <= r.bottom

(* A cursor with no wrap pending.                                          *)
Settled == [x : 0..size.columns-1, y : 0..size.lines-1]

LEMMA SizeFacts ==
    ASSUME size \in Sizes
    PROVE  /\ size.lines \in Nat \ {0} /\ size.columns \in Nat \ {0, 1}
           /\ IsRegion(Whole(size))
  <1>1. size \in [lines : Nat \ {0}, columns : Nat \ {0, 1}]
    BY SizesAssumption
  <1>2. size.lines \in Nat \ {0} /\ size.columns \in Nat \ {0, 1}
    BY <1>1
  <1>3. 0 \in 0..size.lines-1 /\ size.lines - 1 \in 0..size.lines-1 /\ 0 <= size.lines - 1
    BY <1>2
  <1> QED  BY <1>2, <1>3 DEF IsRegion, Whole

LEMMA EnsureBoundsInside ==
    ASSUME size \in Sizes, NEW c \in Point, NEW r, IsRegion(r)
    PROVE  /\ EnsureBounds(c, r) \in Settled
           /\ Within(r, EnsureBounds(c, r))
  <1>1. size.columns \in Nat \ {0, 1} /\ size.lines \in Nat \ {0}
    BY SizeFacts
  <1>2. /\ c.x \in Nat /\ c.y \in Nat
        /\ r.top \in 0..size.lines-1 /\ r.bottom \in 0..size.lines-1 /\ r.top <= r.bottom
    BY DEF Point, IsRegion
  <1>3. Least(c.x, size.columns - 1) \in 0..size.columns-1
    BY <1>1, <1>2 DEF Least
  <1>4. /\ Most(r.top, Least(c.y, r.bottom)) \in 0..size.lines-1
        /\ r.top <= Most(r.top, Least(c.y, r.bottom))
        /\ Most(r.top, Least(c.y, r.bottom)) <= r.bottom
    BY <1>1, <1>2 DEF Least, Most
  <1> QED  BY <1>3, <1>4 DEF EnsureBounds, At, Settled, Within

LEMMA RegionIsRegion ==
    ASSUME size \in Sizes, NEW r, IsRegion(r), NEW held
    PROVE  IsRegion(Region(held, r))
  BY SizeFacts DEF Region

(* What every helper gives on a cursor of the screen: a cursor of the      *)
(* screen, in the region if it was, with no wrap pending if it moved.      *)
Kept(c, d) ==
    /\ d \in Cursor(size)
    /\ InRegion(c) => InRegion(d)

Good == size \in Sizes /\ IsRegion(margins)

LEMMA CursorFacts ==
    ASSUME Good, NEW c \in Cursor(size)
    PROVE  /\ c \in Point
           /\ c.x \in 0..size.columns /\ c.y \in 0..size.lines-1
           /\ \A d \in Settled : d \in Cursor(size) /\ d.x < size.columns
  <1>1. size.columns \in Nat \ {0, 1} /\ size.lines \in Nat \ {0}
    BY SizeFacts DEF Good
  <1>2. c.x \in 0..size.columns /\ c.y \in 0..size.lines-1 /\ c = [x |-> c.x, y |-> c.y]
    BY DEF Cursor
  <1>3. c.x \in Nat /\ c.y \in Nat
    BY <1>1, <1>2
  <1>4. ASSUME NEW d \in Settled PROVE d \in Cursor(size) /\ d.x < size.columns
    BY <1>1, <1>4 DEF Settled, Cursor
  <1> QED  BY <1>2, <1>3, <1>4 DEF Point

(* Bounds held to the region when the cursor was in it.                    *)
LEMMA HeldBounds ==
    ASSUME Good, NEW c \in Cursor(size), NEW p \in Point
    PROVE  LET d == EnsureBounds(p, Region(InRegion(c), margins))
           IN d \in Settled /\ (InRegion(c) => InRegion(d))
  <1>1. CASE InRegion(c)
    BY <1>1, EnsureBoundsInside DEF Good, Region, InRegion
  <1>2. CASE ~InRegion(c)
    BY <1>2, EnsureBoundsInside, RegionIsRegion DEF Good
  <1> QED  BY <1>1, <1>2

LEMMA VerticalMoves ==
    ASSUME Good, NEW c \in Cursor(size), NEW n \in Nat
    PROVE  /\ CursorUp(c, n) \in Settled /\ Kept(c, CursorUp(c, n))
           /\ CursorDown(c, n) \in Settled /\ Kept(c, CursorDown(c, n))
  <1>1. c.x \in Nat /\ c.y \in Nat
    BY CursorFacts, SizeFacts DEF Good
  <1>2. At(c.x, IF n > c.y THEN 0 ELSE c.y - n) \in Point
    BY <1>1 DEF At, Point
  <1>3. At(c.x, c.y + n) \in Point
    BY <1>1 DEF At, Point
  <1>4. CursorUp(c, n) \in Settled /\ (InRegion(c) => InRegion(CursorUp(c, n)))
    BY <1>2, HeldBounds DEF CursorUp
  <1>5. CursorDown(c, n) \in Settled /\ (InRegion(c) => InRegion(CursorDown(c, n)))
    BY <1>3, HeldBounds DEF CursorDown
  <1> QED  BY <1>4, <1>5, CursorFacts DEF Kept

(* A move along the line keeps the line: the bounds already hold it.       *)
LEMMA ColumnKept ==
    ASSUME Good, NEW c \in Cursor(size), NEW x \in Nat
    PROVE  Column(c, x) \in Settled /\ Kept(c, Column(c, x)) /\ Column(c, x).y = c.y
  <1>1. c.y \in 0..size.lines-1 /\ size.lines \in Nat \ {0}
    BY CursorFacts, SizeFacts DEF Good
  <1>2. At(x, c.y) \in Point
    BY <1>1 DEF At, Point
  <1>3. Column(c, x) \in Settled
    BY <1>2, EnsureBoundsInside, RegionIsRegion DEF Good, Column
  <1>4. Column(c, x).y = c.y
    <2>1. CASE origin /\ InRegion(c)
      <3>1. margins.top <= c.y /\ c.y <= margins.bottom /\ margins.top \in Nat /\ margins.bottom \in Nat
        BY <1>1, <2>1, SizeFacts DEF InRegion, Within, Good, IsRegion
      <3>2. Most(margins.top, Least(c.y, margins.bottom)) = c.y
        BY <1>1, <3>1 DEF Least, Most
      <3> QED  BY <2>1, <3>2 DEF Column, Region, EnsureBounds, At
    <2>2. CASE ~(origin /\ InRegion(c))
      <3>1. Most(0, Least(c.y, size.lines - 1)) = c.y
        BY <1>1 DEF Least, Most
      <3> QED  BY <2>2, <3>1 DEF Column, Region, EnsureBounds, At, Whole
    <2> QED  BY <2>1, <2>2
  <1> QED  BY <1>3, <1>4, CursorFacts DEF Kept, InRegion, Within

LEMMA ReturnKept ==
    ASSUME Good, NEW c \in Cursor(size)
    PROVE  CarriageReturn(c) \in Settled /\ Kept(c, CarriageReturn(c))
  <1>1. c.y \in 0..size.lines-1 /\ 0 \in 0..size.columns-1
    BY CursorFacts, SizeFacts DEF Good
  <1>2. CarriageReturn(c) \in Settled /\ CarriageReturn(c).y = c.y
    BY <1>1 DEF CarriageReturn, At, Settled
  <1> QED  BY <1>2, CursorFacts DEF Kept, InRegion, Within

LEMMA IndexKept ==
    ASSUME Good, NEW c \in Cursor(size)
    PROVE  /\ Kept(c, Index(c)) /\ Kept(c, ReverseIndex(c))
           /\ c \in Settled => Index(c) \in Settled
  BY VerticalMoves DEF Index, ReverseIndex, Kept

LEMMA LinefeedKept ==
    ASSUME Good, NEW c \in Cursor(size), NEW nl \in BOOLEAN
    PROVE  /\ Linefeed(c, nl) \in Settled /\ Kept(c, Linefeed(c, nl))
           /\ c.x = 0 => Linefeed(c, nl).x = 0
  <1> DEFINE x == IF nl THEN 0 ELSE c.x
  <1>1. c.x \in Nat /\ x \in Nat /\ size.columns - 1 \in Nat
    BY CursorFacts, SizeFacts DEF Good
  <1>2. Index(c) \in Cursor(size) /\ Kept(c, Index(c))
    BY IndexKept DEF Kept
  <1>3. Column(Index(c), x) \in Settled /\ Kept(Index(c), Column(Index(c), x))
    BY <1>1, <1>2, ColumnKept
  <1>4. Linefeed(c, nl) = Column(Index(c), x)
    BY DEF Linefeed
  <1>5. Column(Index(c), x).x = Least(x, size.columns - 1)
    BY DEF Column, EnsureBounds, At
  <1>6. c.x = 0 => Linefeed(c, nl).x = 0
    BY <1>1, <1>4, <1>5 DEF Least
  <1>7. Kept(c, Linefeed(c, nl))
    BY <1>2, <1>3, <1>4 DEF Kept
  <1> QED  BY <1>3, <1>4, <1>6, <1>7

LEMMA WrappedKept ==
    ASSUME Good, NEW c \in Cursor(size), NEW nl \in BOOLEAN
    PROVE  Wrapped(c, nl) \in Settled /\ Kept(c, Wrapped(c, nl)) /\ Wrapped(c, nl).x = 0
  <1>1. CarriageReturn(c) \in Cursor(size) /\ Kept(c, CarriageReturn(c))
    BY ReturnKept DEF Kept
  <1>2. CarriageReturn(c).x = 0
    BY DEF CarriageReturn, At
  <1>3. /\ Linefeed(CarriageReturn(c), nl) \in Settled
        /\ Kept(CarriageReturn(c), Linefeed(CarriageReturn(c), nl))
        /\ Linefeed(CarriageReturn(c), nl).x = 0
    BY <1>1, <1>2, LinefeedKept
  <1> QED  BY <1>1, <1>3 DEF Wrapped, Kept

(* A character is drawn inside the line.                                   *)
LEMMA DrawnInside ==
    ASSUME Good, NEW c \in Cursor(size), NEW w \in {1, 2},
           NEW wrap \in BOOLEAN, NEW nl \in BOOLEAN
    PROVE  LET d == DrawnAt(c, w, wrap, nl)
           IN /\ d \in Cursor(size) /\ d.x + w <= size.columns
              /\ Kept(c, At(d.x + w, d.y))
  <1> DEFINE d == DrawnAt(c, w, wrap, nl)
  <1>1. /\ size.columns \in Nat \ {0, 1} /\ c.x \in 0..size.columns
        /\ c.y \in 0..size.lines-1 /\ w \in {1, 2}
    BY CursorFacts, SizeFacts DEF Good
  <1>2. d \in Cursor(size) /\ d.x + w <= size.columns /\ (InRegion(c) => InRegion(d))
    <2>1. CASE size.columns - c.x >= w
      BY <1>1, <2>1 DEF DrawnAt
    <2>2. CASE ~(size.columns - c.x >= w) /\ wrap
      <3>1. d = Wrapped(c, nl)
        BY <2>2 DEF DrawnAt
      <3>2. 0 + w <= size.columns
        BY <1>1
      <3> QED  BY <3>1, <3>2, WrappedKept DEF Kept
    <2>3. CASE ~(size.columns - c.x >= w) /\ ~wrap
      <3>1. d = At(size.columns - w, c.y)
        BY <2>3 DEF DrawnAt
      <3>2. size.columns - w \in 0..size.columns /\ (size.columns - w) + w <= size.columns
        BY <1>1
      <3>3. d.x = size.columns - w /\ d.y = c.y
        BY <3>1 DEF At
      <3> QED  BY <1>1, <3>1, <3>2, <3>3 DEF At, Cursor, InRegion, Within
    <2> QED  BY <2>1, <2>2, <2>3
  <1>3. d.x \in 0..size.columns /\ d.y \in 0..size.lines-1
    BY <1>2, CursorFacts
  <1>4. d.x + w \in 0..size.columns
    BY <1>1, <1>2, <1>3
  <1>5. At(d.x + w, d.y) \in Cursor(size) /\ At(d.x + w, d.y).y = d.y
    BY <1>3, <1>4 DEF At, Cursor
  <1>6. InRegion(c) => InRegion(At(d.x + w, d.y))
    BY <1>2, <1>5 DEF InRegion, Within
  <1> QED  BY <1>2, <1>5, <1>6 DEF Kept

(* An absolute position: in origin mode it is in the region.               *)
LEMMA PositionInside ==
    ASSUME size \in Sizes, NEW r, IsRegion(r), NEW c \in Cursor(size), NEW om \in BOOLEAN,
           NEW line \in Nat, NEW column \in Nat
    PROVE  LET d == Position(c, r, om, line, column)
           IN d \in Settled /\ (om => Within(r, d))
  <1> DEFINE l == IF om THEN Most(r.top, Least(line + r.top, r.bottom)) ELSE line
             d == Position(c, r, om, line, column)
  <1>1. size.lines \in Nat \ {0} /\ r.top \in 0..size.lines-1 /\ r.bottom \in 0..size.lines-1
        /\ r.top <= r.bottom
    BY SizeFacts DEF IsRegion
  <1>2. l \in Nat /\ (om => r.top <= l /\ l <= r.bottom)
    BY <1>1 DEF Least, Most
  <1>3. At(column, l) \in Point
    BY <1>2 DEF At, Point
  <1>4. IsRegion(Region(om /\ Within(r, c), r))
    BY RegionIsRegion
  <1>5. d = EnsureBounds(At(column, l), Region(om /\ Within(r, c), r))
    BY DEF Position
  <1>6. d \in Settled
    BY <1>3, <1>4, <1>5, EnsureBoundsInside
  <1>7. ASSUME om PROVE Within(r, d)
    <2>1. l \in Nat /\ r.top <= l /\ l <= r.bottom /\ l <= size.lines - 1
      BY <1>1, <1>2, <1>7
    <2>2. d.y = l
      <3>1. CASE Within(r, c)
        <4>1. Most(r.top, Least(l, r.bottom)) = l
          BY <1>1, <2>1 DEF Least, Most
        <4> QED  BY <1>5, <1>7, <3>1, <4>1 DEF EnsureBounds, Region, At
      <3>2. CASE ~Within(r, c)
        <4>1. Most(0, Least(l, size.lines - 1)) = l
          BY <1>1, <2>1 DEF Least, Most
        <4> QED  BY <1>5, <1>7, <3>2, <4>1 DEF EnsureBounds, Region, At, Whole
      <3> QED  BY <3>1, <3>2
    <2> QED  BY <2>1, <2>2 DEF Within
  <1> QED  BY <1>6, <1>7

-----------------------------------------------------------------------------
(* The inductive invariant: mode 1049 left the cursor in the save point of *)
(* the main screen, and nothing in the alternate screen touches that.      *)
IInv ==
    /\ CursorInside
    /\ entered # {} => alt /\ saved[FALSE].valid /\ saved[FALSE].cur = entered
    /\ \A c, d \in entered : c = d

LEMMA IInvGood == CursorInside => Good /\ cur \in Cursor(size)
  <1> SUFFICES ASSUME CursorInside PROVE Good /\ cur \in Cursor(size)
    OBVIOUS
  <1>1. size \in Sizes /\ cur \in Cursor(size)
    BY DEF CursorInside
  <1>2. IsRegion(margins)
    <2>1. CASE margins = Whole(size)
      BY <1>1, <2>1, SizeFacts
    <2>2. CASE margins.top < margins.bottom
      <3>1. margins \in [top : 0..size.lines-1, bottom : 0..size.lines-1]
        BY DEF CursorInside
      <3>2. margins.top \in Nat /\ margins.bottom \in Nat
        BY <1>1, <3>1, SizeFacts
      <3> QED  BY <2>2, <3>1, <3>2 DEF IsRegion
    <2> QED  BY <2>1, <2>2 DEF CursorInside
  <1> QED  BY <1>1, <1>2 DEF Good

LEMMA CountFacts == Counts \subseteq Nat /\ 0..MaxCount \subseteq Nat /\ 1..MaxCount \subseteq Nat
  BY MaxCountAssumption DEF Counts

(* Relative moves keep the screen and the region.                          *)
LEMMA RelativeKept ==
    ASSUME CursorInside, Relative
    PROVE  UNCHANGED rest /\ Kept(cur, cur')
  <1>1. Good /\ cur \in Cursor(size)
    BY IInvGood
  <1>2. /\ cur.x \in 0..size.columns /\ cur.y \in 0..size.lines-1
        /\ size.columns \in Nat \ {0, 1} /\ size.lines \in Nat \ {0}
    BY <1>1, CursorFacts, SizeFacts DEF Good
  <1>a. ASSUME NEW c, Goes(c), Kept(cur, c) PROVE UNCHANGED rest /\ Kept(cur, cur')
    BY <1>a DEF Goes, rest
  <1>b. ASSUME NEW d \in Cursor(size), Kept(cur, d) PROVE Kept(cur, CarriageReturn(d))
    BY <1>1, <1>b, ReturnKept DEF Kept
  <1>c. ASSUME NEW x \in 0..size.columns PROVE Kept(cur, At(x, cur.y))
    <2>1. At(x, cur.y) \in Cursor(size) /\ At(x, cur.y).y = cur.y
      BY <1>2, <1>c DEF At, Cursor
    <2> QED  BY <2>1 DEF Kept, InRegion, Within
  <1>3. CASE Draw
    <2>1. PICK w \in {1, 2}, wrap \in BOOLEAN, nl \in BOOLEAN :
              Goes(At(DrawnAt(cur, w, wrap, nl).x + w, DrawnAt(cur, w, wrap, nl).y))
      BY <1>3 DEF Draw
    <2>2. Kept(cur, At(DrawnAt(cur, w, wrap, nl).x + w, DrawnAt(cur, w, wrap, nl).y))
      BY <1>1, DrawnInside
    <2> QED  BY <2>1, <2>2, <1>a
  <1>4. CASE Narrow
    <2>1. Goes(At(cur.x - 1, cur.y)) /\ cur.x - 1 \in 0..size.columns
      BY <1>2, <1>4 DEF Narrow
    <2> QED  BY <2>1, <1>a, <1>c
  <1>5. CASE Return
    BY <1>5, <1>1, <1>a, ReturnKept DEF Return
  <1>6. CASE LineFeed
    BY <1>6, <1>1, <1>a, LinefeedKept DEF LineFeed
  <1>7. CASE NextLine
    BY <1>7, <1>1, <1>a, WrappedKept DEF NextLine
  <1>8. CASE IndexDown
    BY <1>8, <1>1, <1>a, IndexKept DEF IndexDown
  <1>9. CASE IndexUp
    BY <1>9, <1>1, <1>a, IndexKept DEF IndexUp
  <1>10. CASE Up
    <2>1. PICK n \in Counts, cr \in BOOLEAN :
              Goes(IF cr THEN CarriageReturn(CursorUp(cur, n)) ELSE CursorUp(cur, n))
      BY <1>10 DEF Up
    <2>2. CursorUp(cur, n) \in Cursor(size) /\ Kept(cur, CursorUp(cur, n))
      BY <1>1, CountFacts, VerticalMoves DEF Kept
    <2> QED  BY <2>1, <2>2, <1>a, <1>b
  <1>11. CASE Down
    <2>1. PICK n \in Counts, cr \in BOOLEAN :
              Goes(IF cr THEN CarriageReturn(CursorDown(cur, n)) ELSE CursorDown(cur, n))
      BY <1>11 DEF Down
    <2>2. CursorDown(cur, n) \in Cursor(size) /\ Kept(cur, CursorDown(cur, n))
      BY <1>1, CountFacts, VerticalMoves DEF Kept
    <2> QED  BY <2>1, <2>2, <1>a, <1>b
  <1>12. CASE Back
    <2>1. PICK n \in Counts : Goes(Column(cur, IF n > cur.x THEN 0 ELSE cur.x - n))
      BY <1>12 DEF Back
    <2>2. (IF n > cur.x THEN 0 ELSE cur.x - n) \in Nat
      BY <1>2, CountFacts
    <2> QED  BY <1>1, <2>1, <2>2, <1>a, ColumnKept
  <1>13. CASE Forward
    <2>1. PICK n \in Counts : Goes(Column(cur, cur.x + n))
      BY <1>13 DEF Forward
    <2>2. cur.x + n \in Nat
      BY <1>2, CountFacts
    <2> QED  BY <1>1, <2>1, <2>2, <1>a, ColumnKept
  <1>14. CASE ToColumn
    BY <1>14, <1>1, <1>a, ColumnKept, CountFacts DEF ToColumn
  <1>15. CASE EditLines
    BY <1>15, <1>1, <1>a, ReturnKept DEF EditLines
  <1>16. CASE Tab
    <2>1. PICK x \in cur.x+1..size.columns-1 : Goes(At(x, cur.y))
      BY <1>16 DEF Tab
    <2>2. x \in 0..size.columns
      BY <1>2
    <2> QED  BY <2>1, <2>2, <1>a, <1>c
  <1>17. CASE TabNoStop
    <2>1. Goes(At(size.columns - 1, cur.y)) /\ size.columns - 1 \in 0..size.columns
      BY <1>2, <1>17 DEF TabNoStop
    <2> QED  BY <2>1, <1>a, <1>c
  <1>18. CASE BackTab
    <2>1. PICK x \in 0..Most(0, cur.x - 1) : Goes(At(x, cur.y))
      BY <1>18 DEF BackTab
    <2>2. x \in 0..size.columns
      BY <1>2 DEF Most
    <2> QED  BY <2>1, <2>2, <1>a, <1>c
  <1> QED
    BY <1>3, <1>4, <1>5, <1>6, <1>7, <1>8, <1>9, <1>10, <1>11, <1>12, <1>13, <1>14, <1>15,
       <1>16, <1>17, <1>18 DEF Relative

(* Absolute moves: a cursor of the screen, in the region in origin mode.   *)
LEMMA AbsoluteInside ==
    ASSUME CursorInside, Absolute
    PROVE  /\ UNCHANGED <<size, alt, saved, entered>>
           /\ cur' \in Cursor(size) /\ origin' \in BOOLEAN
           /\ margins' \in [top : 0..size.lines-1, bottom : 0..size.lines-1]
           /\ margins'.top < margins'.bottom \/ margins' = Whole(size)
           /\ origin' => Within(margins', cur')
  <1>1. Good /\ cur \in Cursor(size) /\ origin \in BOOLEAN
    BY IInvGood DEF CursorInside
  <1>2. /\ margins \in [top : 0..size.lines-1, bottom : 0..size.lines-1]
        /\ margins.top < margins.bottom \/ margins = Whole(size)
    BY DEF CursorInside
  <1>3. /\ cur.x \in Nat /\ size.lines \in Nat \ {0} /\ IsRegion(margins)
        /\ \A d \in Settled : d \in Cursor(size)
    BY <1>1, CursorFacts, SizeFacts DEF Good
  <1>a. ASSUME NEW om \in BOOLEAN, NEW line \in Nat, NEW column \in Nat
        PROVE  LET d == Position(cur, margins, om, line, column)
               IN d \in Cursor(size) /\ (om => Within(margins, d))
    BY <1>1, <1>3, PositionInside DEF Good
  <1>4. CASE ToPosition
    BY <1>4, <1>1, <1>2, <1>a, CountFacts DEF ToPosition, Goes, rest
  <1>5. CASE ToLine
    BY <1>5, <1>1, <1>2, <1>3, <1>a, CountFacts DEF ToLine, Goes, rest
  <1>6. CASE GoHome
    BY <1>6, <1>1, <1>2, <1>a DEF GoHome, Goes, rest
  <1>7. CASE SetMargins
    <2>1. PICK top \in 0..size.lines-1, bottom \in 0..size.lines-1 :
              /\ bottom > top
              /\ margins' = [top |-> top, bottom |-> bottom]
              /\ cur' = Position(cur, margins', origin, 0, 0)
              /\ UNCHANGED <<size, origin, alt, saved, entered>>
      BY <1>7 DEF SetMargins
    <2>2. margins' \in [top : 0..size.lines-1, bottom : 0..size.lines-1] /\ margins'.top < margins'.bottom
      BY <2>1, <1>3
    <2>3. IsRegion(margins')
      BY <2>1, <2>2, <1>3 DEF IsRegion
    <2>4. cur' \in Settled /\ (origin => Within(margins', cur'))
      BY <2>1, <2>3, <1>1, PositionInside DEF Good
    <2> QED  BY <2>1, <2>2, <2>4, <1>1, <1>3
  <1>8. CASE Align
    <2>1. /\ margins' = Whole(size) /\ UNCHANGED <<size, origin, alt, saved, entered>>
          /\ cur' = Position(cur, margins', origin, 0, 0)
      BY <1>8 DEF Align
    <2>2. IsRegion(margins')
      BY <2>1, <1>1, SizeFacts DEF Good
    <2>3. cur' \in Settled /\ (origin => Within(margins', cur'))
      BY <2>1, <2>2, <1>1, PositionInside DEF Good
    <2> QED  BY <2>1, <2>2, <2>3, <1>1, <1>3 DEF IsRegion
  <1>9. CASE \E om \in BOOLEAN : SetOrigin(om)
    <2>1. PICK om \in BOOLEAN : SetOrigin(om)
      BY <1>9
    <2> QED  BY <2>1, <1>2, <1>a DEF SetOrigin
  <1> QED  BY <1>4, <1>5, <1>6, <1>7, <1>8, <1>9 DEF Absolute

-----------------------------------------------------------------------------
(* A step that moves the cursor over the screen and changes nothing else.  *)
LEMMA GoesKeepsInv ==
    ASSUME IInv, cur' \in Cursor(size), UNCHANGED rest
    PROVE  IInv'
  <1>1. UNCHANGED <<size, margins, origin, alt, saved, entered>>
    BY DEF rest
  <1> QED  BY <1>1 DEF IInv, CursorInside, Cursor, Whole

LEMMA InitInv == Init => IInv
  <1> SUFFICES ASSUME Init PROVE IInv
    OBVIOUS
  <1>1. size \in Sizes /\ size.columns \in Nat \ {0, 1} /\ size.lines \in Nat \ {0}
    BY SizeFacts DEF Init
  <1>2. Home \in Cursor(size)
    BY <1>1 DEF Home, At, Cursor
  <1>3. IsRegion(Whole(size))
    BY <1>1, SizeFacts
  <1> QED  BY <1>1, <1>2, <1>3 DEF Init, IInv, CursorInside, IsRegion, NotSaved

LEMMA RestoredInside ==
    ASSUME CursorInside, NEW a \in BOOLEAN, NEW c \in RestoredCursors(a)
    PROVE  c \in Cursor(size)
  <1>1. Good /\ cur \in Cursor(size) /\ saved[a].cur \subseteq Cursor(size)
    BY IInvGood DEF CursorInside
  <1>2. IsRegion(Whole(size)) /\ IsRegion(margins)
    BY <1>1, SizeFacts DEF Good
  <1>3. CASE saved[a].valid
    <2>1. PICK d \in saved[a].cur : c = EnsureBounds(d, Whole(size))
      BY <1>3 DEF RestoredCursors
    <2>2. d \in Cursor(size) /\ d \in Point
      BY <1>1, <2>1, CursorFacts
    <2> QED  BY <1>1, <1>2, <2>1, <2>2, EnsureBoundsInside, CursorFacts DEF Good
  <1>4. CASE ~saved[a].valid
    <2>1. c = Position(cur, margins, FALSE, 0, 0)
      BY <1>4 DEF RestoredCursors
    <2> QED  BY <1>1, <1>2, <2>1, PositionInside, CursorFacts DEF Good
  <1> QED  BY <1>3, <1>4

(* The steps that are neither relative nor absolute moves.                 *)
LEMMA OthersKeepInv ==
    ASSUME IInv,
           \/ Widen \/ PlaceImage \/ PromptToTop \/ PromptToBottom
           \/ SaveCursor \/ RestoreCursor
           \/ \E save \in BOOLEAN : ToAlt(save) \/ ToMain(save)
           \/ Reset \/ Resize
    PROVE  IInv'
  <1>1. CursorInside /\ Good /\ cur \in Cursor(size) /\ origin \in BOOLEAN /\ alt \in BOOLEAN
    BY IInvGood DEF IInv, CursorInside
  <1>2. /\ cur.x \in 0..size.columns /\ cur.y \in 0..size.lines-1
        /\ size.columns \in Nat \ {0, 1} /\ size.lines \in Nat \ {0}
        /\ \A d \in Settled : d \in Cursor(size)
    BY <1>1, CursorFacts, SizeFacts DEF Good
  <1>3. /\ margins \in [top : 0..size.lines-1, bottom : 0..size.lines-1]
        /\ margins.top < margins.bottom \/ margins = Whole(size)
        /\ saved \in [BOOLEAN -> [valid : BOOLEAN, cur : SUBSET Cursor(size), origin : BOOLEAN]]
    BY <1>1 DEF CursorInside
  <1>4. SavedCursor \in [valid : BOOLEAN, cur : SUBSET Cursor(size), origin : BOOLEAN]
    BY <1>1 DEF SavedCursor
  <1>5. Home \in Cursor(size) /\ NotSaved \in [valid : BOOLEAN, cur : SUBSET Cursor(size), origin : BOOLEAN]
    BY <1>2 DEF Home, At, Cursor, NotSaved
  <1>6. CASE Widen
    <2> DEFINE p == IF cur.x > 0 THEN At(cur.x - 1, cur.y) ELSE At(size.columns - 1, cur.y - 1)
    <2>1. PICK wrap \in BOOLEAN, nl \in BOOLEAN :
              /\ p.y >= 0
              /\ Goes(IF p.x # size.columns - 1 THEN At(cur.x + 1, cur.y)
                      ELSE IF wrap THEN At(2, Wrapped(p, nl).y)
                      ELSE At(size.columns, p.y))
      BY <1>6 DEF Widen
    <2>2. p \in Cursor(size) /\ p.y \in 0..size.lines-1
      <3>1. CASE cur.x > 0
        <4>1. cur.x - 1 \in 0..size.columns
          BY <1>2, <3>1
        <4> QED  BY <1>2, <3>1, <4>1 DEF At, Cursor
      <3>2. CASE ~(cur.x > 0)
        <4>1. p.y = cur.y - 1 /\ size.columns - 1 \in 0..size.columns
          BY <1>2, <3>2 DEF At
        <4>2. cur.y - 1 \in 0..size.lines-1
          BY <1>2, <2>1, <4>1
        <4> QED  BY <3>2, <4>1, <4>2 DEF At, Cursor
      <3> QED  BY <3>1, <3>2
    <2>3. ASSUME p.x # size.columns - 1 PROVE cur.x + 1 \in 0..size.columns
      <3>1. CASE cur.x > 0
        <4>1. p.x = cur.x - 1
          BY <3>1 DEF At
        <4> QED  BY <1>2, <2>3, <4>1
      <3>2. CASE ~(cur.x > 0)
        BY <2>3, <3>2 DEF At
      <3> QED  BY <3>1, <3>2
    <2>4. Wrapped(p, nl) \in Cursor(size)
      BY <1>1, <2>2, WrappedKept DEF Kept
    <2>5. Wrapped(p, nl).y \in 0..size.lines-1 /\ 2 \in 0..size.columns /\ size.columns \in 0..size.columns
      BY <1>1, <1>2, <2>4, CursorFacts
    <2>6. /\ At(2, Wrapped(p, nl).y) \in Cursor(size)
          /\ At(size.columns, p.y) \in Cursor(size)
          /\ p.x # size.columns - 1 => At(cur.x + 1, cur.y) \in Cursor(size)
      BY <1>2, <2>2, <2>3, <2>5 DEF At, Cursor
    <2>7. cur' \in Cursor(size) /\ UNCHANGED rest
      BY <2>1, <2>6 DEF Goes
    <2> QED  BY <2>7, GoesKeepsInv
  <1>7. CASE PlaceImage
    <2>1. PICK w \in Counts, h \in Counts :
            LET p == At(cur.x + w, cur.y + h - 1)
                c == IF p.x >= size.columns THEN At(0, p.y + 1) ELSE p
            IN Goes(EnsureBounds(c, Region(origin /\ InRegion(p), margins)))
      BY <1>7 DEF PlaceImage
    <2> DEFINE p == At(cur.x + w, cur.y + h - 1)
               c == IF p.x >= size.columns THEN At(0, p.y + 1) ELSE p
    <2>2. cur.x + w \in Nat /\ cur.y + h - 1 \in Nat
      BY <1>2 DEF Counts
    <2>3. c \in Point
      BY <2>2 DEF At, Point
    <2>4. EnsureBounds(c, Region(origin /\ InRegion(p), margins)) \in Settled
      BY <1>1, <2>3, EnsureBoundsInside, RegionIsRegion DEF Good
    <2>5. cur' \in Cursor(size) /\ UNCHANGED rest
      BY <1>2, <2>1, <2>4 DEF Goes
    <2> QED  BY <2>5, GoesKeepsInv
  <1>8. CASE PromptToTop
    <2>1. PICK q \in 0..cur.y : Goes(At(cur.x, cur.y - Least(margins.bottom, q)))
      BY <1>8 DEF PromptToTop
    <2>2. cur.y - Least(margins.bottom, q) \in 0..size.lines-1
      <3>1. margins.bottom \in 0..size.lines-1
        BY <1>3
      <3> QED  BY <1>2, <3>1 DEF Least
    <2>3. cur' \in Cursor(size) /\ UNCHANGED rest
      BY <1>2, <2>1, <2>2 DEF Goes, At, Cursor
    <2> QED  BY <2>3, GoesKeepsInv
  <1>9. CASE PromptToBottom
    <2>1. cur' \in Cursor(size) /\ UNCHANGED rest
      BY <1>9, <1>1, CountFacts, VerticalMoves DEF PromptToBottom, Goes, Kept
    <2> QED  BY <2>1, GoesKeepsInv
  <1>10. CASE SaveCursor
    <2>1. /\ UNCHANGED <<size, cur, margins, origin, alt, entered>>
          /\ saved' = [saved EXCEPT ![alt] = SavedCursor]
      BY <1>10 DEF SaveCursor
    <2>2. CursorInside'
      BY <1>1, <1>4, <2>1 DEF CursorInside, Cursor, Whole
    <2>3. entered' # {} => alt' /\ saved'[FALSE].valid /\ saved'[FALSE].cur = entered'
      BY <1>3, <2>1 DEF IInv
    <2> QED  BY <2>1, <2>2, <2>3 DEF IInv
  <1>11. CASE RestoreCursor
    <2>1. cur' \in Cursor(size)
      BY <1>11, <1>1, RestoredInside DEF RestoreCursor
    <2>2. saved[alt].origin \in BOOLEAN
      BY <1>1, <1>3
    <2> QED  BY <1>11, <2>1, <2>2 DEF RestoreCursor, IInv, CursorInside, Cursor, Whole
  <1>12. ASSUME NEW save \in BOOLEAN, ToAlt(save) PROVE IInv'
    <2>1. saved' \in [BOOLEAN -> [valid : BOOLEAN, cur : SUBSET Cursor(size), origin : BOOLEAN]]
      BY <1>3, <1>4, <1>12 DEF ToAlt
    <2>2. entered' # {} => saved'[FALSE].valid /\ saved'[FALSE].cur = entered'
      BY <1>3, <1>12 DEF ToAlt, SavedCursor
    <2> QED  BY <1>12, <1>1, <1>5, <2>1, <2>2 DEF ToAlt, IInv, CursorInside, Cursor, Whole
  <1>13. ASSUME NEW save \in BOOLEAN, ToMain(save) PROVE IInv'
    <2>1. cur' \in Cursor(size)
      BY <1>13, <1>1, RestoredInside DEF ToMain
    <2>2. saved[FALSE].origin \in BOOLEAN
      BY <1>3
    <2> QED  BY <1>13, <1>1, <2>1, <2>2 DEF ToMain, IInv, CursorInside, Cursor, Whole
  <1>14. CASE Reset
    <2>1. IsRegion(Whole(size)) /\ size' = size
      BY <1>14, <1>1, SizeFacts DEF Good, Reset
    <2> QED  BY <1>14, <1>1, <1>5, <2>1 DEF Reset, IInv, CursorInside, Cursor, Whole, IsRegion
  <1>15. CASE Resize
    <2>1. PICK sz \in Sizes :
            LET Cursors == [x : 0..sz.columns-1, y : 0..sz.lines-1]
            IN /\ size' = sz
               /\ margins' = Whole(sz)
               /\ cur' \in Cursors
               /\ saved' = [a \in BOOLEAN |->
                      IF saved[a].valid THEN [saved[a] EXCEPT !.cur = Cursors] ELSE NotSaved]
               /\ entered' = {}
               /\ UNCHANGED <<origin, alt>>
      BY <1>15 DEF Resize
    <2> DEFINE Cursors == [x : 0..sz.columns-1, y : 0..sz.lines-1]
    <2>2. sz \in [lines : Nat \ {0}, columns : Nat \ {0, 1}]
      BY SizesAssumption
    <2>3. sz.lines \in Nat \ {0} /\ sz.columns \in Nat \ {0, 1}
      BY <2>2
    <2>4. Cursors \subseteq Cursor(sz)
      BY <2>3 DEF Cursor
    <2>5. NotSaved \in [valid : BOOLEAN, cur : SUBSET Cursor(sz), origin : BOOLEAN]
      BY <2>3 DEF NotSaved, Home, At, Cursor
    <2>6. saved' \in [BOOLEAN -> [valid : BOOLEAN, cur : SUBSET Cursor(sz), origin : BOOLEAN]]
      <3>1. ASSUME NEW a \in BOOLEAN, saved[a].valid
            PROVE  [saved[a] EXCEPT !.cur = Cursors] \in [valid : BOOLEAN, cur : SUBSET Cursor(sz), origin : BOOLEAN]
        <4>1. saved[a] \in [valid : BOOLEAN, cur : SUBSET Cursor(size), origin : BOOLEAN]
          BY <1>3
        <4> HIDE DEF Cursors
        <4> QED  BY <2>4, <4>1
      <3> QED  BY <2>1, <2>5, <3>1
    <2>7. Whole(sz) \in [top : 0..sz.lines-1, bottom : 0..sz.lines-1]
      BY <2>3 DEF Whole
    <2>8. cur' \in Cursor(sz)
      BY <2>1, <2>4
    <2> QED  BY <2>1, <2>6, <2>7, <2>8, <1>1 DEF IInv, CursorInside, Cursor, Whole
  <1> QED
    BY <1>6, <1>7, <1>8, <1>9, <1>10, <1>11, <1>12, <1>13, <1>14, <1>15

LEMMA NextKeepsInv == IInv /\ [Next]_cvars => IInv'
  <1> SUFFICES ASSUME IInv, [Next]_cvars PROVE IInv'
    OBVIOUS
  <1>1. CASE Relative
    <2>1. UNCHANGED rest /\ cur' \in Cursor(size)
      BY <1>1, RelativeKept DEF IInv, Kept
    <2> QED  BY <2>1, GoesKeepsInv
  <1>2. CASE Absolute
    <2>1. /\ UNCHANGED <<size, alt, saved, entered>>
          /\ cur' \in Cursor(size) /\ origin' \in BOOLEAN
          /\ margins' \in [top : 0..size.lines-1, bottom : 0..size.lines-1]
          /\ margins'.top < margins'.bottom \/ margins' = Whole(size)
      BY <1>2, AbsoluteInside DEF IInv
    <2> QED  BY <2>1 DEF IInv, CursorInside, Cursor, Whole
  <1>3. CASE UNCHANGED cvars
    BY <1>3 DEF cvars, IInv, CursorInside, Cursor, Whole
  <1> QED  BY <1>1, <1>2, <1>3, OthersKeepInv DEF Next

LEMMA SpecInv == Spec => []IInv
  BY InitInv, NextKeepsInv, PTL DEF Spec

(* The cursor never leaves the screen, on a screen of any size with at     *)
(* least two columns, whatever the program sends.                          *)
THEOREM CursorStaysInside == Spec => []CursorInside
  <1>1. IInv => CursorInside
    BY DEF IInv
  <1> QED  BY SpecInv, <1>1, PTL

(* Relative moves, and absolute ones in origin mode, stay in the region.   *)
THEOREM RegionHolds == Spec => StaysInRegion
  <1>1. ASSUME IInv, (Relative \/ (Absolute /\ origin')), InRegion(cur), margins' = margins
        PROVE  InRegion(cur)'
    <2>1. InRegion(cur)' <=> Within(margins', cur')
      BY DEF InRegion
    <2>2. CASE Relative
      BY <1>1, <2>1, <2>2, RelativeKept DEF IInv, Kept, InRegion
    <2>3. CASE Absolute /\ origin'
      <3>1. CursorInside /\ Absolute /\ origin'
        BY <1>1, <2>3 DEF IInv
      <3>2. Within(margins', cur')
        BY ONLY <3>1, AbsoluteInside
      <3> QED  BY <2>1, <3>2
    <2> QED  BY <1>1, <2>2, <2>3
  <1>2. IInv => [InRegion(cur) /\ margins' = margins /\ ~InRegion(cur)'
                 => ~Relative /\ ~(Absolute /\ origin')]_cvars
    BY <1>1
  <1> QED  BY SpecInv, <1>2, PTL DEF StaysInRegion, Spec

(* Mode 1049 gives the main screen its cursor back.                        *)
THEOREM MainCursorIsRestored == Spec => LeavingAltRestores
  <1>1. ASSUME IInv, ToMain(TRUE), NEW c \in entered
        PROVE  cur' = EnsureBounds(c, Whole(size))
    <2>1. alt /\ saved[FALSE].valid /\ saved[FALSE].cur = entered
      BY <1>1 DEF IInv
    <2>2. \A d \in entered : d = c
      BY <1>1 DEF IInv
    <2> QED  BY <1>1, <2>1, <2>2 DEF ToMain, RestoredCursors
  <1>2. IInv => [ToMain(TRUE) => \A c \in entered : cur' = EnsureBounds(c, Whole(size))]_cvars
    BY <1>1
  <1> QED  BY SpecInv, <1>2, PTL DEF LeavingAltRestores, Spec
-----------------------------------------------------------------------------
(* The line map and the ring: LineStore.                                   *)

(* The types of LsTypeOK a part at a time.                                 *)
MapOK == lmap \in [Rows -> Rows] /\ \A i, j \in Rows : lmap[i] = lmap[j] => i = j
TextOK == cells \in [Rows -> Nat] /\ marks \in [Rows -> BOOLEAN] /\ texts \in 0..MaxTexts
RowType == [text : Nat, mark : BOOLEAN]
RingType == [slots : [Slots -> RowType], start : Slots, count : 0..RingLines]
RegionOK == region \in [top : Rows, bottom : Rows] /\ region.top <= region.bottom

LEMMA Parts == LsTypeOK <=> MapOK /\ TextOK /\ ring \in RingType /\ RegionOK
  BY DEF LsTypeOK, MapOK, TextOK, RingType, RowType, RegionOK

LEMMA PartsNext == MapOK' /\ TextOK' /\ (ring \in RingType)' /\ RegionOK' => LsTypeOK'
  BY DEF LsTypeOK, MapOK, TextOK, RingType, RowType, RegionOK

-----------------------------------------------------------------------------
(* Each of the four moves of line-buf.c takes every line from one place of *)
(* its own.                                                                *)
LEMMA BelowIsMove ==
  ASSUME NEW top \in Rows, NEW bottom \in Rows, top <= bottom, NEW i \in Rows, NEW j \in Rows
  PROVE  /\ FromBelow(i, top, bottom) \in Rows
         /\ FromBelow(i, top, bottom) = FromBelow(j, top, bottom) => i = j
  BY BufLinesAssumption DEF FromBelow, Rows

LEMMA AboveIsMove ==
  ASSUME NEW top \in Rows, NEW bottom \in Rows, top <= bottom, NEW i \in Rows, NEW j \in Rows
  PROVE  /\ FromAbove(i, top, bottom) \in Rows
         /\ FromAbove(i, top, bottom) = FromAbove(j, top, bottom) => i = j
  BY BufLinesAssumption DEF FromAbove, Rows

LEMMA InsertIsMove ==
  ASSUME NEW y \in Rows, NEW bottom \in Rows, y <= bottom, NEW n \in 1..bottom - y + 1,
         NEW i \in Rows, NEW j \in Rows
  PROVE  /\ FromInsert(i, n, y, bottom) \in Rows
         /\ FromInsert(i, n, y, bottom) = FromInsert(j, n, y, bottom) => i = j
  BY BufLinesAssumption DEF FromInsert, Rows

LEMMA DeleteIsMove ==
  ASSUME NEW y \in Rows, NEW bottom \in Rows, y <= bottom, NEW n \in 1..bottom - y + 1,
         NEW i \in Rows, NEW j \in Rows
  PROVE  /\ FromDelete(i, n, y, bottom) \in Rows
         /\ FromDelete(i, n, y, bottom) = FromDelete(j, n, y, bottom) => i = j
  BY BufLinesAssumption DEF FromDelete, Rows

(* A move of the lines keeps the map a permutation.                        *)
LEMMA MovedMap ==
  ASSUME MapOK, NEW f \in [Rows -> Rows], \A i, j \in Rows : f[i] = f[j] => i = j,
         lmap' = [i \in Rows |-> lmap[f[i]]]
  PROVE  MapOK'
  BY DEF MapOK

-----------------------------------------------------------------------------
(* The ring.                                                               *)
LEMMA SlotOf == \A a \in Int : a % RingLines \in Slots
  BY RingLinesAssumption DEF Slots

LEMMA PushedOK ==
  ASSUME NEW r \in RingType, NEW row \in RowType
  PROVE  Pushed(r, row) \in RingType
<1>1. r.slots \in [Slots -> RowType] /\ r.start \in Slots /\ r.count \in 0..RingLines
  BY DEF RingType
<1>2. (r.start + r.count) % RingLines \in Slots /\ (r.start + 1) % RingLines \in Slots
  <2>1. r.start + r.count \in Int /\ r.start + 1 \in Int
    BY <1>1, RingLinesAssumption DEF Slots
  <2> QED
    BY <2>1, SlotOf
<1>3. [r.slots EXCEPT ![(r.start + r.count) % RingLines] = row] \in [Slots -> RowType]
  BY <1>1, <1>2
<1>4. (IF r.count = RingLines THEN r.count ELSE r.count + 1) \in 0..RingLines
  BY <1>1, RingLinesAssumption
<1>5. (IF r.count = RingLines THEN (r.start + 1) % RingLines ELSE r.start) \in Slots
  BY <1>1, <1>2
<1> QED
  BY <1>3, <1>4, <1>5 DEF Pushed, RingType

LEMMA NewestOK ==
  ASSUME NEW r \in RingType
  PROVE  Newest(r) \in Slots
<1>1. r.start + r.count - 1 \in Int
  BY RingLinesAssumption DEF RingType, Slots
<1> QED
  BY <1>1, SlotOf DEF Newest

LEMMA BlankRowOK == BlankRow \in RowType
  BY DEF BlankRow, RowOf, RowType

LEMMA PoppedOK ==
  ASSUME NEW r \in RingType, r.count > 0
  PROVE  Popped(r) \in RingType
<1>1. r.slots \in [Slots -> RowType] /\ r.start \in Slots /\ r.count \in 0..RingLines
  BY DEF RingType
<1>2. [r.slots EXCEPT ![Newest(r)] = BlankRow] \in [Slots -> RowType]
  BY <1>1, NewestOK, BlankRowOK
<1>3. r.count - 1 \in 0..RingLines
  BY <1>1, RingLinesAssumption
<1> QED
  BY <1>1, <1>2, <1>3 DEF Popped, RingType

LEMMA EmptyRingOK == EmptyRing \in RingType
  BY BlankRowOK, RingLinesAssumption DEF EmptyRing, RingType, Slots

-----------------------------------------------------------------------------
LEMMA InitOK == LsInit => LsTypeOK
<1> SUFFICES ASSUME LsInit PROVE LsTypeOK
  OBVIOUS
<1>1. MapOK
  BY DEF LsInit, MapOK
<1>2. TextOK
  BY MaxTextsAssumption DEF LsInit, TextOK
<1>3. ring \in RingType
  BY EmptyRingOK DEF LsInit
<1>4. RegionOK
  BY BufLinesAssumption DEF LsInit, RegionOK, WholeScreen, Rows
<1> QED
  BY <1>1, <1>2, <1>3, <1>4, Parts

LEMMA NextOK == LsTypeOK /\ [LsNext]_lsvars => LsTypeOK'
<1> SUFFICES ASSUME LsTypeOK, [LsNext]_lsvars PROVE LsTypeOK'
  OBVIOUS
<1>t. MapOK /\ TextOK /\ ring \in RingType /\ RegionOK
  BY Parts
<1>r. region.top \in Rows /\ region.bottom \in Rows /\ region.top <= region.bottom
  BY <1>t DEF RegionOK
<1>1. CASE WriteLine
  <2> PICK y \in Rows, mark \in BOOLEAN :
        /\ texts < MaxTexts
        /\ texts' = texts + 1
        /\ cells' = [cells EXCEPT ![lmap[y]] = texts + 1]
        /\ marks' = [marks EXCEPT ![y] = @ \/ mark]
        /\ UNCHANGED <<lmap, ring, region>>
    BY <1>1 DEF WriteLine
  <2>1. MapOK' /\ (ring \in RingType)' /\ RegionOK'
    BY <1>t DEF MapOK, RegionOK
  <2>2. texts' \in 0..MaxTexts /\ texts + 1 \in Nat
    BY <1>t, MaxTextsAssumption DEF TextOK
  <2>3. cells' \in [Rows -> Nat]
    BY <1>t, <2>2 DEF TextOK
  <2>4. marks' \in [Rows -> BOOLEAN]
    BY <1>t, Zenon DEF TextOK
  <2> QED
    BY <2>1, <2>2, <2>3, <2>4, PartsNext DEF TextOK
<1>2. CASE IndexLines
  <2> DEFINE f == [i \in Rows |-> FromBelow(i, region.top, region.bottom)]
  <2>1. f \in [Rows -> Rows] /\ \A i, j \in Rows : f[i] = f[j] => i = j
    BY <1>r, BelowIsMove
  <2>2. lmap' = [i \in Rows |-> lmap[f[i]]]
    BY <1>2 DEF IndexLines, Moves
  <2>3. MapOK'
    BY <1>t, <2>1, <2>2, MovedMap
  <2>4. TextOK'
    BY <1>2, <1>t DEF IndexLines, Moves, TextOK
  <2>5. 0 \in Rows
    BY BufLinesAssumption DEF Rows
  <2>6. RowOf(cells[lmap[0]], marks[0]) \in RowType
    BY <1>t, <2>5 DEF MapOK, TextOK, RowOf, RowType
  <2>7. (ring \in RingType)'
    BY <1>2, <1>t, <2>6, PushedOK DEF IndexLines
  <2>8. RegionOK'
    BY <1>2, <1>t DEF IndexLines, RegionOK
  <2> QED
    BY <2>3, <2>4, <2>7, <2>8, PartsNext
<1>3. CASE ReverseIndexLines
  <2> DEFINE f == [i \in Rows |-> FromAbove(i, region.top, region.bottom)]
  <2>1. f \in [Rows -> Rows] /\ \A i, j \in Rows : f[i] = f[j] => i = j
    BY <1>r, AboveIsMove
  <2>2. lmap' = [i \in Rows |-> lmap[f[i]]]
    BY <1>3 DEF ReverseIndexLines, Moves
  <2>3. MapOK'
    BY <1>t, <2>1, <2>2, MovedMap
  <2>4. TextOK'
    BY <1>3, <1>t DEF ReverseIndexLines, Moves, TextOK
  <2>5. (ring \in RingType)' /\ RegionOK'
    BY <1>3, <1>t DEF ReverseIndexLines, RegionOK
  <2> QED
    BY <2>3, <2>4, <2>5, PartsNext
<1>4. CASE FillLine
  <2> DEFINE f == [i \in Rows |-> FromAbove(i, region.top, region.bottom)]
  <2>1. f \in [Rows -> Rows] /\ \A i, j \in Rows : f[i] = f[j] => i = j
    BY <1>r, AboveIsMove
  <2>2. lmap' = [i \in Rows |-> lmap[f[i]]]
    BY <1>4 DEF FillLine
  <2>3. MapOK'
    BY <1>t, <2>1, <2>2, MovedMap
  <2>4. ring.slots[Newest(ring)] \in RowType
    BY <1>t, NewestOK DEF RingType
  <2>5. cells' \in [Rows -> Nat]
    BY <1>4, <1>t, <2>4 DEF FillLine, TextOK, RowType
  <2>6. marks' \in [Rows -> BOOLEAN]
    <3>1. ring.slots[Newest(ring)].mark \in BOOLEAN
      BY <2>4 DEF RowType
    <3>2. marks' = [i \in Rows |-> IF i = 0 THEN ring.slots[Newest(ring)].mark
                                   ELSE i # region.top /\ marks[FromAbove(i, region.top, region.bottom)]]
      BY <1>4 DEF FillLine
    <3> QED
      BY <3>1, <3>2
  <2>7. (ring \in RingType)'
    BY <1>4, <1>t, PoppedOK DEF FillLine
  <2>8. RegionOK' /\ texts' = texts
    BY <1>4, <1>t DEF FillLine, RegionOK
  <2> QED
    BY <1>t, <2>3, <2>5, <2>6, <2>7, <2>8, PartsNext DEF TextOK
<1>5. CASE InsertLines
  <2> PICK y \in region.top..region.bottom, n \in Int :
        /\ n \in 1..region.bottom - y + 1
        /\ Moves([i \in Rows |-> FromInsert(i, n, y, region.bottom)], y..y + n - 1)
        /\ UNCHANGED <<ring, region, texts>>
    BY <1>5 DEF InsertLines, Moves
  <2> DEFINE f == [i \in Rows |-> FromInsert(i, n, y, region.bottom)]
  <2>n. n \in 1..region.bottom - y + 1
    OBVIOUS
  <2>y. y \in Rows /\ y <= region.bottom
    BY <1>r, BufLinesAssumption DEF Rows
  <2>1. f \in [Rows -> Rows] /\ \A i, j \in Rows : f[i] = f[j] => i = j
    <3>1. ASSUME NEW i \in Rows, NEW j \in Rows
          PROVE  /\ FromInsert(i, n, y, region.bottom) \in Rows
                 /\ FromInsert(i, n, y, region.bottom) = FromInsert(j, n, y, region.bottom) => i = j
      BY ONLY <1>r, <2>y, <2>n, i \in Rows, j \in Rows, InsertIsMove
    <3> QED
      BY ONLY <3>1
  <2>2. lmap' = [i \in Rows |-> lmap[f[i]]]
    BY DEF Moves
  <2>3. MapOK'
    BY <1>t, <2>1, <2>2, MovedMap
  <2>4. TextOK'
    BY <1>t DEF Moves, TextOK
  <2>5. (ring \in RingType)' /\ RegionOK'
    BY <1>t DEF RegionOK
  <2> QED
    BY <2>3, <2>4, <2>5, PartsNext
<1>6. CASE DeleteLines
  <2> PICK y \in region.top..region.bottom, n \in Int :
        /\ n \in 1..region.bottom - y + 1
        /\ Moves([i \in Rows |-> FromDelete(i, n, y, region.bottom)], region.bottom - n + 1..region.bottom)
        /\ UNCHANGED <<ring, region, texts>>
    BY <1>6 DEF DeleteLines, Moves
  <2> DEFINE f == [i \in Rows |-> FromDelete(i, n, y, region.bottom)]
  <2>n. n \in 1..region.bottom - y + 1
    OBVIOUS
  <2>y. y \in Rows /\ y <= region.bottom
    BY <1>r, BufLinesAssumption DEF Rows
  <2>1. f \in [Rows -> Rows] /\ \A i, j \in Rows : f[i] = f[j] => i = j
    <3>1. ASSUME NEW i \in Rows, NEW j \in Rows
          PROVE  /\ FromDelete(i, n, y, region.bottom) \in Rows
                 /\ FromDelete(i, n, y, region.bottom) = FromDelete(j, n, y, region.bottom) => i = j
      BY ONLY <1>r, <2>y, <2>n, i \in Rows, j \in Rows, DeleteIsMove
    <3> QED
      BY ONLY <3>1
  <2>2. lmap' = [i \in Rows |-> lmap[f[i]]]
    BY DEF Moves
  <2>3. MapOK'
    BY <1>t, <2>1, <2>2, MovedMap
  <2>4. TextOK'
    BY <1>t DEF Moves, TextOK
  <2>5. (ring \in RingType)' /\ RegionOK'
    BY <1>t DEF RegionOK
  <2> QED
    BY <2>3, <2>4, <2>5, PartsNext
<1>7. CASE EraseLines
  <2>1. MapOK' /\ RegionOK'
    BY <1>7, <1>t DEF EraseLines, MapOK, RegionOK
  <2>2. cells' \in [Rows -> Nat] /\ texts' = texts
    BY <1>7, <1>t DEF EraseLines, TextOK
  <2>3. marks' \in [Rows -> BOOLEAN]
    BY <1>7 DEF EraseLines
  <2>4. (ring \in RingType)'
    BY <1>7, <1>t, EmptyRingOK DEF EraseLines
  <2> QED
    BY <1>t, <2>1, <2>2, <2>3, <2>4, PartsNext DEF TextOK
<1>8. CASE ResetLines
  <2>1. MapOK'
    BY <1>8 DEF ResetLines, MapOK
  <2>2. TextOK'
    BY <1>8, <1>t DEF ResetLines, TextOK
  <2>3. (ring \in RingType)'
    BY <1>8, EmptyRingOK DEF ResetLines
  <2>4. RegionOK'
    BY <1>8, BufLinesAssumption DEF ResetLines, RegionOK, WholeScreen, Rows
  <2> QED
    BY <2>1, <2>2, <2>3, <2>4, PartsNext
<1>9. CASE SetRegion
  <2>1. MapOK' /\ TextOK' /\ (ring \in RingType)'
    BY <1>9, <1>t DEF SetRegion, MapOK, TextOK
  <2>2. RegionOK'
    BY <1>9, BufLinesAssumption DEF SetRegion, RegionOK, Rows
  <2> QED
    BY <2>1, <2>2, PartsNext
<1>10. CASE UNCHANGED lsvars
  BY <1>10, <1>t, PartsNext DEF lsvars, MapOK, TextOK, RegionOK
<1> QED
  BY <1>1, <1>2, <1>3, <1>4, <1>5, <1>6, <1>7, <1>8, <1>9, <1>10 DEF LsNext

(* Whatever scrolls, is inserted, deleted, filled, erased or reset, no two *)
(* lines of the screen share their cells, so that writing to one never     *)
(* shows up in another, and the ring of the history keeps within bounds.   *)
THEOREM LinesKeepTheirCells == LsSpec => []LsTypeOK
<1>1. LsInit => LsTypeOK
  BY InitOK
<1>2. LsTypeOK /\ [LsNext]_lsvars => LsTypeOK'
  BY NextOK
<1> QED
  BY <1>1, <1>2, PTL DEF LsSpec

-----------------------------------------------------------------------------
(* The sequences of lines that TextLines writes, named.                    *)
WithRows(s, top, bottom, rows) ==
    SubSeq(s, 1, top - 1) \o rows \o SubSeq(s, bottom + 1, Len(s))
BlanksBefore(s, y, bottom, n) ==
    [i \in 1..n |-> BlankRow] \o SubSeq(SubSeq(s, y, bottom), 1, bottom - y + 1 - n)
BlanksAfter(s, y, bottom, n) ==
    SubSeq(SubSeq(s, y, bottom), n + 1, Len(SubSeq(s, y, bottom))) \o [i \in 1..n |-> BlankRow]

(* Sequences by their elements.                                            *)
LEMMA Concat ==
  ASSUME NEW a \in Seq(RowType), NEW b \in Seq(RowType)
  PROVE  /\ a \o b \in Seq(RowType)
         /\ Len(a \o b) = Len(a) + Len(b)
         /\ \A i \in 1..Len(a) : (a \o b)[i] = a[i]
         /\ \A i \in Len(a) + 1..Len(a) + Len(b) : (a \o b)[i] = b[i - Len(a)]
  OBVIOUS

LEMMA SeqIsFunction ==
  ASSUME NEW s \in Seq(RowType)
  PROVE  s = [i \in 1..Len(s) |-> s[i]] /\ Len(s) \in Nat
  OBVIOUS

LEMMA Appended ==
  ASSUME NEW s \in Seq(RowType), NEW row \in RowType
  PROVE  Append(s, row) = [i \in 1..Len(s) + 1 |-> IF i = Len(s) + 1 THEN row ELSE s[i]]
<1>1. /\ Append(s, row) \in Seq(RowType) /\ Len(Append(s, row)) = Len(s) + 1
      /\ Append(s, row)[Len(s) + 1] = row
      /\ \A i \in 1..Len(s) : Append(s, row)[i] = s[i]
  OBVIOUS
<1>2. Append(s, row) = [i \in 1..Len(Append(s, row)) |-> Append(s, row)[i]]
  BY <1>1, SeqIsFunction
<1>3. ASSUME NEW i \in 1..Len(s) + 1
      PROVE  Append(s, row)[i] = IF i = Len(s) + 1 THEN row ELSE s[i]
  <2>1. i = Len(s) + 1 \/ (i \in 1..Len(s) /\ i # Len(s) + 1)
    BY SeqIsFunction
  <2> QED BY <2>1, <1>1
<1> QED BY <1>1, <1>2, <1>3

(* The lines of a region replaced.                                         *)
LEMMA RegionReplaced ==
  ASSUME NEW s \in Seq(RowType), NEW rows \in Seq(RowType), NEW top \in 1..Len(s), NEW bottom \in top..Len(s),
         Len(rows) = bottom - top + 1
  PROVE  WithRows(s, top, bottom, rows)
           = [i \in 1..Len(s) |-> IF i < top \/ i > bottom THEN s[i] ELSE rows[i - top + 1]]
<1> DEFINE a == SubSeq(s, 1, top - 1)
           c == SubSeq(s, bottom + 1, Len(s))
<1>1. a \in Seq(RowType) /\ Len(a) = top - 1 /\ \A i \in 1..top - 1 : a[i] = s[i]
  OBVIOUS
<1>2. c \in Seq(RowType) /\ Len(c) = Len(s) - bottom
      /\ \A i \in 1..Len(s) - bottom : c[i] = s[bottom + i]
  OBVIOUS
<1> HIDE DEF a, c
<1>0. Len(s) \in Nat /\ top \in Nat /\ bottom \in Nat /\ 1 <= top /\ top <= bottom /\ bottom <= Len(s)
  OBVIOUS
<1> DEFINE b == a \o rows
<1>3. /\ b \in Seq(RowType) /\ Len(b) = bottom
      /\ \A i \in 1..top - 1 : b[i] = a[i]
      /\ \A i \in top..bottom : b[i] = rows[i - top + 1]
  <2>1. /\ b \in Seq(RowType) /\ Len(b) = Len(a) + Len(rows)
        /\ \A i \in 1..Len(a) : b[i] = a[i]
        /\ \A i \in Len(a) + 1..Len(a) + Len(rows) : b[i] = rows[i - Len(a)]
    BY <1>1, Concat
  <2>2. \A i \in top..bottom : i - Len(a) = i - top + 1
    BY <1>0, <1>1
  <2>3. Len(a) + Len(rows) = bottom /\ Len(a) + 1 = top
    BY <1>0, <1>1
  <2> HIDE DEF b
  <2>4. \A i \in 1..top - 1 : b[i] = a[i]
    BY <2>1, <1>1
  <2>5. \A i \in top..bottom : b[i] = rows[i - Len(a)]
    <3>1. \A i \in Len(a) + 1..Len(a) + Len(rows) : b[i] = rows[i - Len(a)]
      BY <2>1
    <3> QED BY <3>1, <2>3
  <2> QED BY <2>1, <2>2, <2>3, <2>4, <2>5
<1> HIDE DEF b
<1>4. /\ b \o c \in Seq(RowType) /\ Len(b \o c) = Len(s)
      /\ \A i \in 1..bottom : (b \o c)[i] = b[i]
      /\ \A i \in bottom + 1..Len(s) : (b \o c)[i] = c[i - bottom]
  <2>1. /\ b \o c \in Seq(RowType)
        /\ Len(b \o c) = Len(b) + Len(c)
        /\ \A i \in 1..Len(b) : (b \o c)[i] = b[i]
        /\ \A i \in Len(b) + 1..Len(b) + Len(c) : (b \o c)[i] = c[i - Len(b)]
    <3>1. b \in Seq(RowType) /\ c \in Seq(RowType)
      BY <1>2, <1>3
    <3> QED BY <3>1, Concat
  <2>2. Len(b) + Len(c) = Len(s)
    BY <1>0, <1>2, <1>3
  <2>3. Len(b) = bottom
    BY <1>3
  <2> QED BY <2>1, <2>2, <2>3
<1>5. ASSUME NEW i \in 1..Len(s)
      PROVE  (b \o c)[i] = IF i < top \/ i > bottom THEN s[i] ELSE rows[i - top + 1]
  <2>1. CASE i < top
    <3>1. i \in 1..top - 1 /\ i \in 1..bottom
      BY <2>1, <1>0
    <3> QED BY <3>1, <2>1, <1>1, <1>3, <1>4
  <2>2. CASE top <= i /\ i <= bottom
    <3>1. i \in top..bottom /\ i \in 1..bottom /\ ~(i < top \/ i > bottom)
      BY <2>2, <1>0
    <3>2. \A j \in top..bottom : b[j] = rows[j - top + 1]
      BY <1>3
    <3>3. b[i] = rows[i - top + 1]
      BY <3>1, <3>2
    <3> QED BY <3>1, <3>3, <1>4
  <2>3. CASE i > bottom
    <3>1. i \in bottom + 1..Len(s) /\ i - bottom \in 1..Len(s) - bottom /\ bottom + (i - bottom) = i
      BY <2>3, <1>0
    <3> QED BY <3>1, <2>3, <1>2, <1>4
  <2>4. i < top \/ (top <= i /\ i <= bottom) \/ i > bottom
    BY <1>0
  <2> QED BY <2>1, <2>2, <2>3, <2>4
<1>6. b \o c = [i \in 1..Len(s) |-> (b \o c)[i]]
  BY <1>4, SeqIsFunction
<1>7. b \o c = [i \in 1..Len(s) |-> IF i < top \/ i > bottom THEN s[i] ELSE rows[i - top + 1]]
  BY <1>5, <1>6
<1> QED BY <1>7 DEF a, b, c, WithRows

(* Lines y..bottom of s with n blank lines before what is left of them.    *)
LEMMA InsertedRows ==
  ASSUME NEW s \in Seq(RowType), NEW y \in 1..Len(s), NEW bottom \in y..Len(s),
         NEW n \in 1..bottom - y + 1
  PROVE  LET rows == BlanksBefore(s, y, bottom, n)
         IN  /\ rows \in Seq(RowType) /\ Len(rows) = bottom - y + 1
             /\ \A k \in 1..bottom - y + 1 : rows[k] = IF k <= n THEN BlankRow ELSE s[y + k - 1 - n]
<1> DEFINE a == [i \in 1..n |-> BlankRow]
           r == SubSeq(s, y, bottom)
           c == SubSeq(r, 1, bottom - y + 1 - n)
<1>1. a \in Seq(RowType) /\ Len(a) = n /\ \A k \in 1..n : a[k] = BlankRow
  BY BlankRowOK
<1>2. r \in Seq(RowType) /\ Len(r) = bottom - y + 1 /\ \A k \in 1..bottom - y + 1 : r[k] = s[y + k - 1]
  OBVIOUS
<1> HIDE DEF r
<1>3. c \in Seq(RowType) /\ Len(c) = bottom - y + 1 - n
      /\ \A k \in 1..bottom - y + 1 - n : c[k] = r[k]
  BY <1>2
<1> HIDE DEF a, c
<1>4. /\ a \o c \in Seq(RowType)
      /\ Len(a \o c) = Len(a) + Len(c)
      /\ \A k \in 1..Len(a) : (a \o c)[k] = a[k]
      /\ \A k \in Len(a) + 1..Len(a) + Len(c) : (a \o c)[k] = c[k - Len(a)]
  <2>1. a \in Seq(RowType) /\ c \in Seq(RowType)
    BY <1>1, <1>3
  <2> QED BY <2>1, Concat
<1>5. Len(a) + Len(c) = bottom - y + 1
  BY <1>1, <1>3
<1>6. ASSUME NEW k \in 1..bottom - y + 1
      PROVE  (a \o c)[k] = IF k <= n THEN BlankRow ELSE s[y + k - 1 - n]
  <2>1. CASE k <= n
    <3>1. k \in 1..Len(a) /\ k \in 1..n
      BY <2>1, <1>1
    <3> QED BY <3>1, <2>1, <1>1, <1>4
  <2>2. CASE k > n
    <3>1. k \in Len(a) + 1..Len(a) + Len(c) /\ k - n \in 1..bottom - y + 1 - n
          /\ k - n \in 1..bottom - y + 1 /\ y + (k - n) - 1 = y + k - 1 - n
      BY <2>2, <1>1, <1>5
    <3>2. (a \o c)[k] = c[k - n]
      BY <3>1, <1>1, <1>4
    <3>3. c[k - n] = r[k - n] /\ r[k - n] = s[y + (k - n) - 1]
      BY <3>1, <1>2, <1>3
    <3> QED BY <3>1, <3>2, <3>3, <2>2
  <2>3. k <= n \/ k > n
    OBVIOUS
  <2> QED BY <2>1, <2>2, <2>3
<1> QED BY <1>4, <1>5, <1>6 DEF a, c, r, BlanksBefore

LEMMA Suffix ==
  ASSUME NEW s \in Seq(RowType), NEW n \in 0..Len(s)
  PROVE  /\ SubSeq(s, n + 1, Len(s)) \in Seq(RowType)
         /\ Len(SubSeq(s, n + 1, Len(s))) = Len(s) - n
         /\ \A k \in 1..Len(s) - n : SubSeq(s, n + 1, Len(s))[k] = s[k + n]
  OBVIOUS

(* Lines y..bottom of s without the first n, and n blank lines after.      *)
LEMMA DeletedRows ==
  ASSUME NEW s \in Seq(RowType), NEW y \in 1..Len(s), NEW bottom \in y..Len(s),
         NEW n \in 1..bottom - y + 1
  PROVE  LET rows == BlanksAfter(s, y, bottom, n)
         IN  /\ rows \in Seq(RowType) /\ Len(rows) = bottom - y + 1
             /\ \A k \in 1..bottom - y + 1 :
                  rows[k] = IF k <= bottom - y + 1 - n THEN s[y + k - 1 + n] ELSE BlankRow
<1> DEFINE c == [i \in 1..n |-> BlankRow]
           r == SubSeq(s, y, bottom)
           a == SubSeq(r, n + 1, Len(r))
<1>1. c \in Seq(RowType) /\ Len(c) = n /\ \A k \in 1..n : c[k] = BlankRow
  BY BlankRowOK
<1>2. r \in Seq(RowType) /\ Len(r) = bottom - y + 1 /\ \A k \in 1..bottom - y + 1 : r[k] = s[y + k - 1]
  OBVIOUS
<1> HIDE DEF r
<1>3. a \in Seq(RowType) /\ Len(a) = bottom - y + 1 - n
      /\ \A k \in 1..bottom - y + 1 - n : a[k] = r[k + n]
  <2>1. r \in Seq(RowType) /\ n \in 0..Len(r) /\ Len(r) - n = bottom - y + 1 - n
    BY <1>2
  <2> QED BY <2>1, Suffix
<1> HIDE DEF a, c
<1>4. /\ a \o c \in Seq(RowType)
      /\ Len(a \o c) = Len(a) + Len(c)
      /\ \A k \in 1..Len(a) : (a \o c)[k] = a[k]
      /\ \A k \in Len(a) + 1..Len(a) + Len(c) : (a \o c)[k] = c[k - Len(a)]
  <2>1. a \in Seq(RowType) /\ c \in Seq(RowType)
    BY <1>1, <1>3
  <2> QED BY <2>1, Concat
<1>5. Len(a) + Len(c) = bottom - y + 1
  BY <1>1, <1>3
<1>6. ASSUME NEW k \in 1..bottom - y + 1
      PROVE  (a \o c)[k] = IF k <= bottom - y + 1 - n THEN s[y + k - 1 + n] ELSE BlankRow
  <2>1. CASE k <= bottom - y + 1 - n
    <3>1. k \in 1..Len(a) /\ k \in 1..bottom - y + 1 - n /\ k + n \in 1..bottom - y + 1
          /\ y + (k + n) - 1 = y + k - 1 + n
      BY <2>1, <1>3
    <3>2. (a \o c)[k] = a[k]
      BY <3>1, <1>4
    <3>3. a[k] = r[k + n] /\ r[k + n] = s[y + (k + n) - 1]
      BY <3>1, <1>2, <1>3
    <3> QED BY <3>1, <3>2, <3>3, <2>1
  <2>2. CASE k > bottom - y + 1 - n
    <3>1. k \in Len(a) + 1..Len(a) + Len(c) /\ k - Len(a) \in 1..n
      BY <2>2, <1>3, <1>5
    <3>2. (a \o c)[k] = c[k - Len(a)]
      BY <3>1, <1>4
    <3>3. c[k - Len(a)] = BlankRow
      BY <3>1, <1>1
    <3> QED BY <3>2, <3>3, <2>2
  <2>3. k <= bottom - y + 1 - n \/ k > bottom - y + 1 - n
    OBVIOUS
  <2> QED BY <2>1, <2>2, <2>3
<1> QED BY <1>4, <1>5, <1>6 DEF a, c, r, BlanksAfter

LEMMA InsertedScreen ==
  ASSUME NEW s \in Seq(RowType), NEW y \in 1..Len(s), NEW bottom \in y..Len(s),
         NEW n \in 1..bottom - y + 1
  PROVE  WithRows(s, y, bottom, BlanksBefore(s, y, bottom, n))
         = [i \in 1..Len(s) |-> IF i < y \/ i > bottom THEN s[i]
                                ELSE IF i < y + n THEN BlankRow ELSE s[i - n]]
<1> DEFINE rows == BlanksBefore(s, y, bottom, n)
<1>1. /\ rows \in Seq(RowType) /\ Len(rows) = bottom - y + 1
      /\ \A k \in 1..bottom - y + 1 : rows[k] = IF k <= n THEN BlankRow ELSE s[y + k - 1 - n]
  BY InsertedRows
<1> HIDE DEF rows
<1>2. WithRows(s, y, bottom, rows)
        = [i \in 1..Len(s) |-> IF i < y \/ i > bottom THEN s[i] ELSE rows[i - y + 1]]
  BY <1>1, RegionReplaced
<1>3. ASSUME NEW i \in 1..Len(s), ~(i < y \/ i > bottom)
      PROVE  rows[i - y + 1] = IF i < y + n THEN BlankRow ELSE s[i - n]
  <2>1. i - y + 1 \in 1..bottom - y + 1 /\ y + (i - y + 1) - 1 - n = i - n
        /\ (i - y + 1 <= n <=> i < y + n)
    BY <1>3
  <2> QED BY <1>1, <2>1
<1>4. [i \in 1..Len(s) |-> IF i < y \/ i > bottom THEN s[i] ELSE rows[i - y + 1]]
        = [i \in 1..Len(s) |-> IF i < y \/ i > bottom THEN s[i]
                               ELSE IF i < y + n THEN BlankRow ELSE s[i - n]]
  BY <1>3
<1> QED BY <1>2, <1>4 DEF rows

LEMMA DeletedScreen ==
  ASSUME NEW s \in Seq(RowType), NEW y \in 1..Len(s), NEW bottom \in y..Len(s),
         NEW n \in 1..bottom - y + 1
  PROVE  WithRows(s, y, bottom, BlanksAfter(s, y, bottom, n))
         = [i \in 1..Len(s) |-> IF i < y \/ i > bottom THEN s[i]
                                ELSE IF i <= bottom - n THEN s[i + n] ELSE BlankRow]
<1> DEFINE rows == BlanksAfter(s, y, bottom, n)
<1>1. /\ rows \in Seq(RowType) /\ Len(rows) = bottom - y + 1
      /\ \A k \in 1..bottom - y + 1 :
           rows[k] = IF k <= bottom - y + 1 - n THEN s[y + k - 1 + n] ELSE BlankRow
  BY DeletedRows
<1> HIDE DEF rows
<1>2. WithRows(s, y, bottom, rows)
        = [i \in 1..Len(s) |-> IF i < y \/ i > bottom THEN s[i] ELSE rows[i - y + 1]]
  BY <1>1, RegionReplaced
<1>3. ASSUME NEW i \in 1..Len(s), ~(i < y \/ i > bottom)
      PROVE  rows[i - y + 1] = IF i <= bottom - n THEN s[i + n] ELSE BlankRow
  <2>1. i - y + 1 \in 1..bottom - y + 1 /\ y + (i - y + 1) - 1 + n = i + n
        /\ (i - y + 1 <= bottom - y + 1 - n <=> i <= bottom - n)
    BY <1>3
  <2> QED BY <1>1, <2>1
<1>4. [i \in 1..Len(s) |-> IF i < y \/ i > bottom THEN s[i] ELSE rows[i - y + 1]]
        = [i \in 1..Len(s) |-> IF i < y \/ i > bottom THEN s[i]
                               ELSE IF i <= bottom - n THEN s[i + n] ELSE BlankRow]
  BY <1>3
<1> QED BY <1>2, <1>4 DEF rows

LEMMA ErasedScreen ==
  ASSUME NEW s \in Seq(RowType), NEW top \in 1..Len(s), NEW bottom \in top..Len(s)
  PROVE  WithRows(s, top, bottom, [i \in 1..bottom - top + 1 |-> BlankRow])
         = [i \in 1..Len(s) |-> IF i < top \/ i > bottom THEN s[i] ELSE BlankRow]
<1> DEFINE rows == [i \in 1..bottom - top + 1 |-> BlankRow]
<1>1. /\ rows \in Seq(RowType) /\ Len(rows) = bottom - top + 1
      /\ \A k \in 1..bottom - top + 1 : rows[k] = BlankRow
  BY BlankRowOK
<1> HIDE DEF rows
<1>2. WithRows(s, top, bottom, rows)
        = [i \in 1..Len(s) |-> IF i < top \/ i > bottom THEN s[i] ELSE rows[i - top + 1]]
  BY <1>1, RegionReplaced
<1>3. ASSUME NEW i \in 1..Len(s), ~(i < top \/ i > bottom)
      PROVE  rows[i - top + 1] = BlankRow
  <2>1. i - top + 1 \in 1..bottom - top + 1
    BY <1>3
  <2> QED BY <1>1, <2>1
<1> QED BY <1>2, <1>3 DEF rows

-----------------------------------------------------------------------------
(* The slot i places after slot start of the ring.                         *)
SlotAt(start, i) == (start + i) % RingLines

LEMMA SlotAtOK ==
  ASSUME NEW start \in Slots, NEW i \in 0..RingLines
  PROVE  SlotAt(start, i) \in Slots
  BY RingLinesAssumption DEF SlotAt, Slots

LEMMA SlotAtWraps ==
  ASSUME NEW start \in Slots, NEW i \in 0..RingLines
  PROVE  SlotAt(start, i) = IF start + i < RingLines THEN start + i ELSE start + i - RingLines
  BY RingLinesAssumption DEF SlotAt, Slots

LEMMA SlotsDiffer ==
  ASSUME NEW start \in Slots, NEW i \in 0..RingLines, NEW j \in 0..RingLines, i < j, j - i < RingLines
  PROVE  SlotAt(start, i) # SlotAt(start, j)
  BY SlotAtWraps, RingLinesAssumption DEF Slots

LEMMA SlotAfterRound ==
  ASSUME NEW start \in Slots
  PROVE  SlotAt(start, RingLines) = start /\ SlotAt(start, 0) = start
  BY SlotAtWraps, RingLinesAssumption DEF Slots

LEMMA SlotAfterNext ==
  ASSUME NEW start \in Slots, NEW i \in 0..RingLines - 1
  PROVE  SlotAt(SlotAt(start, 1), i) = SlotAt(start, i + 1)
<1>1. SlotAt(start, 1) \in Slots
  BY SlotAtOK, RingLinesAssumption
<1>2. SlotAt(start, 1) = IF start + 1 < RingLines THEN start + 1 ELSE start + 1 - RingLines
  BY SlotAtWraps, RingLinesAssumption
<1>3. SlotAt(start, i + 1)
        = IF start + (i + 1) < RingLines THEN start + (i + 1) ELSE start + (i + 1) - RingLines
  BY SlotAtWraps, RingLinesAssumption
<1> DEFINE next == SlotAt(start, 1)
<1> HIDE DEF next
<1>4. SlotAt(next, i) = IF next + i < RingLines THEN next + i ELSE next + i - RingLines
  BY <1>1, SlotAtWraps, RingLinesAssumption DEF next
<1>5. SlotAt(next, i) = SlotAt(start, i + 1)
  BY <1>1, <1>2, <1>3, <1>4, RingLinesAssumption DEF Slots, next
<1> QED BY <1>5 DEF next

(* The ring as a sequence.                                                 *)
PastOf(r) == [i \in 1..r.count |-> r.slots[SlotAt(r.start, i - 1)]]

LEMMA RingParts ==
  ASSUME NEW r \in RingType
  PROVE  /\ r.slots \in [Slots -> RowType] /\ r.start \in Slots /\ r.start \in Int
         /\ r.count \in 0..RingLines /\ r.count \in Nat
  BY RingLinesAssumption DEF RingType, Slots

LEMMA PastIsRead ==
  ASSUME NEW r \in RingType
  PROVE  [i \in 1..r.count |-> HistoryLine(r, r.count - i)] = PastOf(r)
<1>1. ASSUME NEW i \in 1..r.count
      PROVE  r.start + r.count - 1 - Smaller(r.count - 1, r.count - i) = r.start + (i - 1)
  BY RingParts DEF Smaller
<1> QED BY <1>1 DEF PastOf, HistoryLine, IndexOf, SlotAt

LEMMA PastIsSeq ==
  ASSUME NEW r \in RingType
  PROVE  /\ PastOf(r) \in Seq(RowType) /\ Len(PastOf(r)) = r.count
         /\ \A i \in 1..r.count : PastOf(r)[i] = r.slots[SlotAt(r.start, i - 1)]
<1>1. ASSUME NEW i \in 1..r.count
      PROVE  r.slots[SlotAt(r.start, i - 1)] \in RowType
  <2>1. i - 1 \in 0..RingLines
    BY RingParts, RingLinesAssumption
  <2>2. SlotAt(r.start, i - 1) \in Slots
    BY <2>1, RingParts, SlotAtOK
  <2> QED BY <2>2, RingParts
<1> QED BY <1>1, RingParts DEF PastOf

LEMMA PushedParts ==
  ASSUME NEW r \in RingType, NEW row \in RowType
  PROVE  /\ Pushed(r, row).slots = [r.slots EXCEPT ![SlotAt(r.start, r.count)] = row]
         /\ Pushed(r, row).start = IF r.count = RingLines THEN SlotAt(r.start, 1) ELSE r.start
         /\ Pushed(r, row).count = IF r.count = RingLines THEN r.count ELSE r.count + 1
  BY DEF Pushed, SlotAt

(* Pushing a line remembers it, and forgets the oldest of a full ring.     *)
LEMMA PastPushed ==
  ASSUME NEW r \in RingType, NEW row \in RowType
  PROVE  PastOf(Pushed(r, row)) = IF Len(PastOf(r)) < RingLines THEN Append(PastOf(r), row)
                                  ELSE Append(Tail(PastOf(r)), row)
<1> DEFINE n == r.count
           st == r.start
           w == Pushed(r, row)
           p == PastOf(r)
<1>1. r.slots \in [Slots -> RowType] /\ st \in Slots /\ n \in 0..RingLines /\ n \in Nat
  BY RingParts
<1>2. /\ p \in Seq(RowType) /\ Len(p) = n
      /\ \A i \in 1..n : p[i] = r.slots[SlotAt(st, i - 1)]
  BY PastIsSeq
<1>3. /\ w.slots = [r.slots EXCEPT ![SlotAt(st, n)] = row]
      /\ w.start = IF n = RingLines THEN SlotAt(st, 1) ELSE st
      /\ w.count = IF n = RingLines THEN n ELSE n + 1
  BY PushedParts
<1>4. PastOf(w) = [i \in 1..w.count |-> w.slots[SlotAt(w.start, i - 1)]]
  BY DEF PastOf
<1>5. SlotAt(st, n) \in Slots
  BY <1>1, SlotAtOK
<1> HIDE DEF n, st, w, p
<1>6. CASE n < RingLines
  <2>1. w.start = st /\ w.count = n + 1
    BY <1>6, <1>1, <1>3
  <2>2. PastOf(w) = [i \in 1..n + 1 |-> w.slots[SlotAt(st, i - 1)]]
    BY <2>1, <1>4
  <2>3. Append(p, row) = [i \in 1..n + 1 |-> IF i = n + 1 THEN row ELSE p[i]]
    BY <1>2, Appended
  <2>4. ASSUME NEW i \in 1..n + 1
        PROVE  w.slots[SlotAt(st, i - 1)] = IF i = n + 1 THEN row ELSE p[i]
    <3>1. CASE i = n + 1
      <4>1. i - 1 = n
        BY <3>1, <1>1
      <4> QED BY <4>1, <3>1, <1>1, <1>3, <1>5
    <3>2. CASE i # n + 1
      <4>1. i \in 1..n /\ i - 1 \in 0..RingLines /\ i - 1 < n /\ n - (i - 1) < RingLines + 1
            /\ (n = RingLines => FALSE) /\ n - (i - 1) < RingLines
        BY <3>2, <1>1, <1>6, RingLinesAssumption
      <4>2. SlotAt(st, i - 1) # SlotAt(st, n)
        BY <4>1, <1>1, SlotsDiffer
      <4>3. SlotAt(st, i - 1) \in Slots
        BY <4>1, <1>1, SlotAtOK
      <4>4. w.slots[SlotAt(st, i - 1)] = r.slots[SlotAt(st, i - 1)]
        BY <4>2, <4>3, <1>1, <1>3
      <4> QED BY <4>1, <4>4, <3>2, <1>2
    <3> QED BY <3>1, <3>2
  <2>5. PastOf(w) = Append(p, row)
    BY <2>2, <2>3, <2>4
  <2> QED BY <2>5, <1>2, <1>6 DEF p, w
<1>7. CASE n = RingLines
  <2>1. w.start = SlotAt(st, 1) /\ w.count = RingLines /\ w.slots = [r.slots EXCEPT ![st] = row]
    BY <1>7, <1>1, <1>3, SlotAfterRound
  <2>2. PastOf(w) = [i \in 1..RingLines |-> w.slots[SlotAt(SlotAt(st, 1), i - 1)]]
    BY <2>1, <1>4
  <2> DEFINE q == Tail(p)
  <2>3. /\ q \in Seq(RowType) /\ Len(q) = RingLines - 1
        /\ \A i \in 1..RingLines - 1 : q[i] = p[i + 1]
    BY <1>2, <1>7, RingLinesAssumption
  <2> HIDE DEF q
  <2>4. Append(q, row) = [i \in 1..RingLines |-> IF i = RingLines THEN row ELSE q[i]]
    <3>1. Len(q) + 1 = RingLines
      BY <2>3, RingLinesAssumption
    <3> QED BY <3>1, <2>3, Appended
  <2>5. ASSUME NEW i \in 1..RingLines
        PROVE  w.slots[SlotAt(SlotAt(st, 1), i - 1)] = IF i = RingLines THEN row ELSE q[i]
    <3>1. i - 1 \in 0..RingLines - 1 /\ (i - 1) + 1 = i /\ i \in 0..RingLines
      BY RingLinesAssumption
    <3>2. SlotAt(SlotAt(st, 1), i - 1) = SlotAt(st, i)
      <4>1. SlotAt(SlotAt(st, 1), i - 1) = SlotAt(st, (i - 1) + 1)
        BY <3>1, <1>1, SlotAfterNext
      <4> QED BY <4>1, <3>1
    <3>3. CASE i = RingLines
      BY <3>2, <3>3, <2>1, <1>1, SlotAfterRound
    <3>4. CASE i # RingLines
      <4>1. i \in 1..RingLines - 1 /\ i + 1 \in 1..n /\ (i + 1) - 1 = i
            /\ 0 \in 0..RingLines /\ 0 < i /\ i - 0 < RingLines
        BY <3>4, <1>1, <1>7, RingLinesAssumption
      <4>2. SlotAt(st, 0) # SlotAt(st, i) /\ SlotAt(st, i) \in Slots
        BY <4>1, <3>1, <1>1, SlotsDiffer, SlotAtOK
      <4>3. SlotAt(st, i) # st
        BY <4>2, <1>1, SlotAfterRound
      <4>4. w.slots[SlotAt(st, i)] = r.slots[SlotAt(st, i)]
        BY <4>2, <4>3, <2>1, <1>1
      <4>5. p[i + 1] = r.slots[SlotAt(st, (i + 1) - 1)]
        BY <4>1, <1>2
      <4>6. q[i] = p[i + 1]
        BY <4>1, <2>3
      <4> QED BY <4>1, <4>4, <4>5, <4>6, <3>2, <3>4
    <3> QED BY <3>3, <3>4
  <2>6. PastOf(w) = Append(q, row)
    BY <2>2, <2>4, <2>5
  <2> QED BY <2>6, <1>2, <1>7, RingLinesAssumption DEF p, q, w
<1> QED BY <1>1, <1>6, <1>7, RingLinesAssumption

(* Popping a line forgets the newest.                                      *)
LEMMA PastPopped ==
  ASSUME NEW r \in RingType, r.count > 0
  PROVE  /\ PastOf(Popped(r)) = SubSeq(PastOf(r), 1, Len(PastOf(r)) - 1)
         /\ PastOf(r) # <<>>
         /\ PastOf(r)[Len(PastOf(r))] = r.slots[Newest(r)]
<1> DEFINE n == r.count
           st == r.start
           p == PastOf(r)
           w == Popped(r)
<1>1. r.slots \in [Slots -> RowType] /\ st \in Slots /\ st \in Int /\ n \in 0..RingLines /\ n \in Nat /\ n > 0
  BY RingParts
<1>2. /\ p \in Seq(RowType) /\ Len(p) = n
      /\ \A i \in 1..n : p[i] = r.slots[SlotAt(st, i - 1)]
  BY PastIsSeq
<1>3. Newest(r) = SlotAt(st, n - 1)
  <2>1. r.start + r.count - 1 = r.start + (r.count - 1)
    BY <1>1
  <2> QED BY <2>1 DEF Newest, SlotAt
<1>4. w.slots = [r.slots EXCEPT ![SlotAt(st, n - 1)] = BlankRow] /\ w.start = st /\ w.count = n - 1
  BY <1>3 DEF Popped
<1>5. PastOf(w) = [i \in 1..w.count |-> w.slots[SlotAt(w.start, i - 1)]]
  BY DEF PastOf
<1> HIDE DEF n, st, w, p
<1>6. PastOf(w) = [i \in 1..n - 1 |-> w.slots[SlotAt(st, i - 1)]]
  BY <1>4, <1>5
<1>7. ASSUME NEW i \in 1..n - 1
      PROVE  w.slots[SlotAt(st, i - 1)] = p[i]
  <2>1. i \in 1..n /\ i - 1 \in 0..RingLines /\ n - 1 \in 0..RingLines /\ i - 1 < n - 1
        /\ (n - 1) - (i - 1) < RingLines
    BY <1>1, RingLinesAssumption
  <2>2. SlotAt(st, i - 1) # SlotAt(st, n - 1) /\ SlotAt(st, i - 1) \in Slots
    BY <2>1, <1>1, SlotsDiffer, SlotAtOK
  <2> QED BY <2>1, <2>2, <1>1, <1>2, <1>4
<1>8. SubSeq(p, 1, Len(p) - 1) = [i \in 1..n - 1 |-> p[i]]
  BY <1>1, <1>2
<1>9. PastOf(w) = SubSeq(p, 1, Len(p) - 1)
  BY <1>6, <1>7, <1>8
<1>10. p # <<>> /\ n \in 1..n
  BY <1>1, <1>2
<1>11. p[Len(p)] = r.slots[Newest(r)]
  BY <1>2, <1>3, <1>10
<1> QED BY <1>9, <1>10, <1>11 DEF p, w

-----------------------------------------------------------------------------
(* The lines of the screen and of the history, as TextLines has them.      *)
Scr == [i \in 1..BufLines |-> Row(i - 1)]
Old == [i \in 1..ring.count |-> HistoryLine(ring, ring.count - i)]

LEMMA ScrIsSeq ==
  ASSUME LsTypeOK
  PROVE  /\ Scr \in Seq(RowType) /\ Len(Scr) = BufLines
         /\ \A i \in 1..BufLines : Scr[i] = Row(i - 1)
<1>1. ASSUME NEW i \in 1..BufLines
      PROVE  Row(i - 1) \in RowType
  <2>1. i - 1 \in Rows
    BY BufLinesAssumption DEF Rows
  <2>2. lmap[i - 1] \in Rows /\ marks[i - 1] \in BOOLEAN
    BY <2>1 DEF LsTypeOK
  <2>3. cells[lmap[i - 1]] \in Nat
    BY <2>2 DEF LsTypeOK
  <2> QED BY <2>2, <2>3 DEF Row, RowOf, RowType
<1> QED BY <1>1, BufLinesAssumption DEF Scr

LEMMA OldIsPast ==
  ASSUME LsTypeOK
  PROVE  Old = PastOf(ring) /\ ring \in RingType
<1>1. ring \in RingType
  BY Parts
<1> QED BY <1>1, PastIsRead DEF Old

LEMMA OldIsPastNext ==
  ASSUME LsTypeOK'
  PROVE  Old' = PastOf(ring')
<1>1. ring' \in RingType
  BY DEF LsTypeOK, RingType, RowType
<1>2. [i \in 1..ring'.count |-> HistoryLine(ring', ring'.count - i)] = PastOf(ring')
  BY <1>1, PastIsRead
<1> QED BY <1>2 DEF Old

(* Each line of the screen comes with its text and mark from where it was. *)
LEMMA MovesRows ==
  ASSUME LsTypeOK, NEW from \in [Rows -> Rows], \A i, j \in Rows : from[i] = from[j] => i = j,
         NEW blank \in SUBSET Rows, Moves(from, blank), NEW i \in Rows
  PROVE  Row(i)' = IF i \in blank THEN BlankRow ELSE Row(from[i])
<1>1. lmap \in [Rows -> Rows] /\ \A k, j \in Rows : lmap[k] = lmap[j] => k = j
  BY DEF LsTypeOK
<1>2. \A j \in Rows : lmap'[j] = lmap[from[j]] /\ lmap'[j] \in Rows
  BY <1>1 DEF Moves
<1>3. \A j \in Rows : lmap'[j] = lmap'[i] => j = i
  BY <1>1, <1>2
<1>4. cells'[lmap'[i]] = IF \E j \in blank : lmap'[j] = lmap'[i] THEN 0 ELSE cells[lmap'[i]]
  BY <1>2 DEF Moves
<1>5. (\E j \in blank : lmap'[j] = lmap'[i]) <=> i \in blank
  BY <1>3
<1>6. marks'[i] = (i \notin blank /\ marks[from[i]])
  BY DEF Moves
<1>7. Row(i)' = RowOf(cells'[lmap'[i]], marks'[i])
  BY DEF Row
<1>8. CASE i \in blank
  <2>1. cells'[lmap'[i]] = 0 /\ marks'[i] = FALSE
    BY <1>4, <1>5, <1>6, <1>8
  <2> QED BY <2>1, <1>7, <1>8 DEF BlankRow
<1>9. CASE i \notin blank
  <2>1. cells'[lmap'[i]] = cells[lmap[from[i]]]
    BY <1>2, <1>4, <1>5, <1>9
  <2>2. marks'[i] = marks[from[i]]
    <3>1. marks[from[i]] \in BOOLEAN
      BY DEF LsTypeOK
    <3> QED BY <3>1, <1>6, <1>9
  <2>3. Row(from[i]) = RowOf(cells[lmap[from[i]]], marks[from[i]])
    BY DEF Row
  <2> QED BY <2>1, <2>2, <2>3, <1>7, <1>9
<1> QED BY <1>8, <1>9

LEMMA MovesScreen ==
  ASSUME LsTypeOK, NEW from \in [Rows -> Rows], \A i, j \in Rows : from[i] = from[j] => i = j,
         NEW blank \in SUBSET Rows, Moves(from, blank)
  PROVE  Scr' = [i \in 1..BufLines |-> IF i - 1 \in blank THEN BlankRow ELSE Scr[from[i - 1] + 1]]
<1>1. ASSUME NEW i \in 1..BufLines
      PROVE  Row(i - 1)' = IF i - 1 \in blank THEN BlankRow ELSE Scr[from[i - 1] + 1]
  <2>1. i - 1 \in Rows
    BY BufLinesAssumption DEF Rows
  <2>2. from[i - 1] \in Rows
    BY <2>1
  <2>3. from[i - 1] + 1 \in 1..BufLines /\ (from[i - 1] + 1) - 1 = from[i - 1]
    BY <2>2, BufLinesAssumption DEF Rows
  <2>4. Scr[from[i - 1] + 1] = Row(from[i - 1])
    BY <2>3, ScrIsSeq
  <2> QED BY <2>1, <2>4, MovesRows
<1>2. Scr' = [i \in 1..BufLines |-> Row(i - 1)']
  BY DEF Scr
<1> QED BY <1>1, <1>2

(* What the moves up and down of the lines y..bottom make of the screen.   *)
LEMMA MovedUp ==
  ASSUME LsTypeOK, NEW y \in Rows, NEW bottom \in Rows, y <= bottom, NEW n \in 1..bottom - y + 1,
         NEW from \in [Rows -> Rows], \A i, j \in Rows : from[i] = from[j] => i = j,
         \A i \in Rows : i \notin bottom - n + 1..bottom => from[i] = IF i \in y..bottom THEN i + n ELSE i,
         Moves(from, bottom - n + 1..bottom)
  PROVE  Scr' = WithRows(Scr, y + 1, bottom + 1, BlanksAfter(Scr, y + 1, bottom + 1, n))
<1>0. /\ y \in Int /\ bottom \in Int /\ n \in Int /\ 0 <= y /\ bottom < BufLines /\ BufLines \in Int
      /\ y + 1 \in 1..BufLines /\ bottom + 1 \in y + 1..BufLines
      /\ n \in 1..(bottom + 1) - (y + 1) + 1 /\ bottom - n + 1..bottom \in SUBSET Rows
  BY BufLinesAssumption DEF Rows
<1> DEFINE blank == bottom - n + 1..bottom
           F(i) == IF i - 1 \in blank THEN BlankRow ELSE Scr[from[i - 1] + 1]
           G(i) == IF i < y + 1 \/ i > bottom + 1 THEN Scr[i]
                   ELSE IF i <= bottom + 1 - n THEN Scr[i + n] ELSE BlankRow
<1>1. Scr' = [i \in 1..BufLines |-> F(i)]
  <2> HIDE DEF blank
  <2>1. blank \in SUBSET Rows /\ Moves(from, blank)
    BY <1>0 DEF blank
  <2> QED BY <2>1, MovesScreen
<1>2. WithRows(Scr, y + 1, bottom + 1, BlanksAfter(Scr, y + 1, bottom + 1, n)) = [i \in 1..BufLines |-> G(i)]
  <2> DEFINE first == y + 1
             last == bottom + 1
  <2>1. Scr \in Seq(RowType) /\ Len(Scr) = BufLines
    BY ScrIsSeq
  <2>2. first \in 1..Len(Scr) /\ last \in first..Len(Scr) /\ n \in 1..last - first + 1
    BY <1>0, <2>1
  <2> HIDE DEF first, last
  <2>3. WithRows(Scr, first, last, BlanksAfter(Scr, first, last, n))
          = [i \in 1..Len(Scr) |-> IF i < first \/ i > last THEN Scr[i]
                                  ELSE IF i <= last - n THEN Scr[i + n] ELSE BlankRow]
    BY <2>1, <2>2, DeletedScreen
  <2>4. WithRows(Scr, first, last, BlanksAfter(Scr, first, last, n))
          = [i \in 1..BufLines |-> IF i < first \/ i > last THEN Scr[i]
                                  ELSE IF i <= last - n THEN Scr[i + n] ELSE BlankRow]
    BY <2>1, <2>3
  <2>5. [i \in 1..BufLines |-> IF i < first \/ i > last THEN Scr[i]
                              ELSE IF i <= last - n THEN Scr[i + n] ELSE BlankRow]
          = [i \in 1..BufLines |-> G(i)]
    <3>1. last - n = bottom + 1 - n /\ first = y + 1 /\ last = bottom + 1
      BY <1>0 DEF first, last
    <3> QED BY <3>1
  <2> HIDE DEF G
  <2> QED BY <2>4, <2>5 DEF first, last
<1>3. ASSUME NEW i \in 1..BufLines
      PROVE  F(i) = G(i)
  <2>1. i - 1 \in Rows
    BY BufLinesAssumption DEF Rows
  <2>2. CASE i - 1 \in bottom - n + 1..bottom
    <3>1. ~(i < y + 1 \/ i > bottom + 1) /\ ~(i <= bottom + 1 - n)
      BY <2>2, <1>0
    <3> QED BY <3>1, <2>2
  <2>3. CASE i - 1 \notin bottom - n + 1..bottom
    <3>1. CASE i - 1 \in y..bottom
      <4>1. ~(i < y + 1 \/ i > bottom + 1) /\ i <= bottom + 1 - n /\ (i - 1 + n) + 1 = i + n
        BY <2>3, <3>1, <1>0
      <4>2. from[i - 1] = i - 1 + n
        BY <2>1, <2>3, <3>1
      <4> QED BY <4>1, <4>2, <2>3
    <3>2. CASE i - 1 \notin y..bottom
      <4>1. (i < y + 1 \/ i > bottom + 1) /\ (i - 1) + 1 = i
        BY <3>2, <1>0
      <4>2. from[i - 1] = i - 1
        BY <2>1, <2>3, <3>2
      <4> QED BY <4>1, <4>2, <2>3
    <3> QED BY <3>1, <3>2
  <2> QED BY <2>2, <2>3
<1> HIDE DEF F, G
<1>4. [i \in 1..BufLines |-> F(i)] = [i \in 1..BufLines |-> G(i)]
  BY <1>3
<1> QED BY <1>1, <1>2, <1>4

LEMMA MovedDown ==
  ASSUME LsTypeOK, NEW y \in Rows, NEW bottom \in Rows, y <= bottom, NEW n \in 1..bottom - y + 1,
         NEW from \in [Rows -> Rows], \A i, j \in Rows : from[i] = from[j] => i = j,
         \A i \in Rows : i \notin y..y + n - 1 => from[i] = IF i \in y..bottom THEN i - n ELSE i,
         Moves(from, y..y + n - 1)
  PROVE  Scr' = WithRows(Scr, y + 1, bottom + 1, BlanksBefore(Scr, y + 1, bottom + 1, n))
<1>0. /\ y \in Int /\ bottom \in Int /\ n \in Int /\ 0 <= y /\ bottom < BufLines /\ BufLines \in Int
      /\ y + 1 \in 1..BufLines /\ bottom + 1 \in y + 1..BufLines
      /\ n \in 1..(bottom + 1) - (y + 1) + 1 /\ y..y + n - 1 \in SUBSET Rows
  BY BufLinesAssumption DEF Rows
<1> DEFINE blank == y..y + n - 1
           F(i) == IF i - 1 \in blank THEN BlankRow ELSE Scr[from[i - 1] + 1]
           G(i) == IF i < y + 1 \/ i > bottom + 1 THEN Scr[i]
                   ELSE IF i < y + 1 + n THEN BlankRow ELSE Scr[i - n]
<1>1. Scr' = [i \in 1..BufLines |-> F(i)]
  <2> HIDE DEF blank
  <2>1. blank \in SUBSET Rows /\ Moves(from, blank)
    BY <1>0 DEF blank
  <2> QED BY <2>1, MovesScreen
<1>2. WithRows(Scr, y + 1, bottom + 1, BlanksBefore(Scr, y + 1, bottom + 1, n)) = [i \in 1..BufLines |-> G(i)]
  <2> DEFINE first == y + 1
             last == bottom + 1
  <2>1. Scr \in Seq(RowType) /\ Len(Scr) = BufLines
    BY ScrIsSeq
  <2>2. first \in 1..Len(Scr) /\ last \in first..Len(Scr) /\ n \in 1..last - first + 1
    BY <1>0, <2>1
  <2> HIDE DEF first, last
  <2>3. WithRows(Scr, first, last, BlanksBefore(Scr, first, last, n))
          = [i \in 1..Len(Scr) |-> IF i < first \/ i > last THEN Scr[i]
                                  ELSE IF i < first + n THEN BlankRow ELSE Scr[i - n]]
    BY <2>1, <2>2, InsertedScreen
  <2> QED BY <2>1, <2>3 DEF first, last
<1>3. ASSUME NEW i \in 1..BufLines
      PROVE  F(i) = G(i)
  <2>1. i - 1 \in Rows
    BY BufLinesAssumption DEF Rows
  <2>2. CASE i - 1 \in y..y + n - 1
    <3>1. ~(i < y + 1 \/ i > bottom + 1) /\ i < y + 1 + n
      BY <2>2, <1>0
    <3> QED BY <3>1, <2>2
  <2>3. CASE i - 1 \notin y..y + n - 1
    <3>1. CASE i - 1 \in y..bottom
      <4>1. ~(i < y + 1 \/ i > bottom + 1) /\ ~(i < y + 1 + n) /\ (i - 1 - n) + 1 = i - n
        BY <2>3, <3>1, <1>0
      <4>2. from[i - 1] = i - 1 - n
        BY <2>1, <2>3, <3>1
      <4> QED BY <4>1, <4>2, <2>3
    <3>2. CASE i - 1 \notin y..bottom
      <4>1. (i < y + 1 \/ i > bottom + 1) /\ (i - 1) + 1 = i
        BY <3>2, <1>0
      <4>2. from[i - 1] = i - 1
        BY <2>1, <2>3, <3>2
      <4> QED BY <4>1, <4>2, <2>3
    <3> QED BY <3>1, <3>2
  <2> QED BY <2>2, <2>3
<1> HIDE DEF F, G
<1>4. [i \in 1..BufLines |-> F(i)] = [i \in 1..BufLines |-> G(i)]
  BY <1>3
<1> QED BY <1>1, <1>2, <1>4

-----------------------------------------------------------------------------
(* The steps of TextLines in terms of these sequences.                     *)
LEMMA TailIsSkip ==
  ASSUME NEW s \in Seq(RowType), Len(s) >= 1
  PROVE  Tail(s) = SubSeq(s, 2, Len(s))
  OBVIOUS

LEMMA AbstractUp ==
  ASSUME NEW top, NEW bottom,
         Scr' = WithRows(Scr, top, bottom, Tail(SubSeq(Scr, top, bottom)) \o [i \in 1..1 |-> BlankRow]),
         Old' = IF top = 1 THEN IF Len(Old) < RingLines THEN Append(Old, Scr[1])
                                ELSE Append(Tail(Old), Scr[1])
                ELSE Old
  PROVE  Stored!Up(top, bottom)
  BY DEF Stored!Up, Stored!WithRegion, Stored!RegionOf, Stored!Taken, Stored!Skipped, Stored!Blanks,
         Stored!Remembered, WithRows, Scr, Old

LEMMA AbstractDown ==
  ASSUME NEW top, NEW bottom,
         Scr' = WithRows(Scr, top, bottom,
                         [i \in 1..1 |-> BlankRow] \o SubSeq(SubSeq(Scr, top, bottom), 1, bottom - top)),
         Old' = Old
  PROVE  Stored!Down(top, bottom)
  BY DEF Stored!Down, Stored!MovedDown, Stored!WithRegion, Stored!RegionOf, Stored!Taken,
         Stored!Skipped, Stored!Blanks, WithRows, Scr, Old

LEMMA AbstractInsert ==
  ASSUME NEW y, NEW bottom, NEW n,
         Scr' = WithRows(Scr, y, bottom, BlanksBefore(Scr, y, bottom, n)),
         Old' = Old
  PROVE  Stored!Insert(n, y, bottom)
  BY DEF Stored!Insert, Stored!WithRegion, Stored!RegionOf, Stored!Taken,
         Stored!Skipped, Stored!Blanks, WithRows, BlanksBefore, Scr, Old

LEMMA AbstractDelete ==
  ASSUME NEW y, NEW bottom, NEW n,
         Scr' = WithRows(Scr, y, bottom, BlanksAfter(Scr, y, bottom, n)),
         Old' = Old
  PROVE  Stored!Delete(n, y, bottom)
  BY DEF Stored!Delete, Stored!WithRegion, Stored!RegionOf, Stored!Taken,
         Stored!Skipped, Stored!Blanks, WithRows, BlanksAfter, Scr, Old

LEMMA AbstractErase ==
  ASSUME NEW top, NEW bottom, NEW all,
         Scr' = WithRows(Scr, top, bottom, [i \in 1..bottom - top + 1 |-> BlankRow]),
         Old' = IF all THEN <<>> ELSE Old
  PROVE  Stored!Erase(top, bottom, all)
  BY DEF Stored!Erase, Stored!WithRegion, Stored!Taken, Stored!Skipped, Stored!Blanks, WithRows, Scr, Old

LEMMA AbstractUnscroll ==
  ASSUME NEW top, NEW bottom, Old # <<>>,
         Scr' = [WithRows(Scr, top, bottom,
                          [i \in 1..1 |-> BlankRow] \o SubSeq(SubSeq(Scr, top, bottom), 1, bottom - top))
                   EXCEPT ![1] = Old[Len(Old)]],
         Old' = SubSeq(Old, 1, Len(Old) - 1)
  PROVE  Stored!Unscroll(top, bottom)
  BY DEF Stored!Unscroll, Stored!MovedDown, Stored!WithRegion, Stored!RegionOf, Stored!Taken,
         Stored!Skipped, Stored!Blanks, WithRows, Scr, Old

LEMMA AbstractChange ==
  ASSUME NEW i, Scr' = [Scr EXCEPT ![i] = Scr'[i]], Old' = Old
  PROVE  Stored!Change(i, Scr'[i])
  BY DEF Stored!Change, Scr, Old

-----------------------------------------------------------------------------
(* Every step of LineStore is one of TextLines or leaves its lines alone.  *)
LEMMA OldStays ==
  ASSUME UNCHANGED ring
  PROVE  Old' = Old
  BY DEF Old, HistoryLine, IndexOf

LEMMA ShiftedUp ==
  ASSUME NEW s \in Seq(RowType), NEW top \in 1..Len(s), NEW bottom \in top..Len(s)
  PROVE  Tail(SubSeq(s, top, bottom)) \o [i \in 1..1 |-> BlankRow] = BlanksAfter(s, top, bottom, 1)
<1> DEFINE reg == SubSeq(s, top, bottom)
<1>1. reg \in Seq(RowType) /\ Len(reg) >= 1
  OBVIOUS
<1> HIDE DEF reg
<1>2. Tail(reg) = SubSeq(reg, 2, Len(reg))
  BY <1>1, TailIsSkip
<1>3. BlanksAfter(s, top, bottom, 1) = SubSeq(reg, 2, Len(reg)) \o [i \in 1..1 |-> BlankRow]
  BY DEF BlanksAfter, reg
<1> QED BY <1>2, <1>3 DEF reg

LEMMA ShiftedDown ==
  ASSUME NEW s, NEW top \in Int, NEW bottom \in Int
  PROVE  [i \in 1..1 |-> BlankRow] \o SubSeq(SubSeq(s, top, bottom), 1, bottom - top)
           = BlanksBefore(s, top, bottom, 1)
<1>1. bottom - top + 1 - 1 = bottom - top
  OBVIOUS
<1> QED BY <1>1 DEF BlanksBefore

LEMMA RegionInScreen ==
  ASSUME LsTypeOK
  PROVE  /\ region.top \in Rows /\ region.bottom \in Rows /\ region.top <= region.bottom
         /\ region.top \in Int /\ region.bottom \in Int
         /\ region.top + 1 \in 1..BufLines /\ region.bottom + 1 \in region.top + 1..BufLines
         /\ 1 \in 1..region.bottom - region.top + 1
<1>1. region.top \in Rows /\ region.bottom \in Rows /\ region.top <= region.bottom
  BY DEF LsTypeOK
<1> DEFINE top == region.top
           bottom == region.bottom
<1> HIDE DEF top, bottom
<1>2. top \in Rows /\ bottom \in Rows /\ top <= bottom
  BY <1>1 DEF top, bottom
<1>3. /\ top \in Int /\ bottom \in Int
      /\ top + 1 \in 1..BufLines /\ bottom + 1 \in top + 1..BufLines
      /\ 1 \in 1..bottom - top + 1
  BY <1>2, BufLinesAssumption DEF Rows
<1> QED BY <1>1, <1>3 DEF top, bottom

LEMMA IndexStep ==
  ASSUME LsTypeOK, LsTypeOK', IndexLines
  PROVE  Stored!Up(region.top + 1, region.bottom + 1)
<1> DEFINE top == region.top
           bottom == region.bottom
           from == [i \in Rows |-> FromBelow(i, top, bottom)]
<1>1. /\ top \in Rows /\ bottom \in Rows /\ top <= bottom /\ top \in Int /\ bottom \in Int
      /\ top + 1 \in 1..BufLines /\ bottom + 1 \in top + 1..BufLines /\ 1 \in 1..bottom - top + 1
  BY RegionInScreen
<1>2. Moves(from, {bottom})
  BY DEF IndexLines
<1>3. ring' = IF top = 0 THEN Pushed(ring, Row(0)) ELSE ring
  BY DEF IndexLines, Row
<1> HIDE DEF top, bottom
<1>4. bottom - 1 + 1..bottom = {bottom}
  BY <1>1
<1>5. from \in [Rows -> Rows] /\ \A i, j \in Rows : from[i] = from[j] => i = j
  BY <1>1, BelowIsMove
<1>6. \A i \in Rows : i \notin bottom - 1 + 1..bottom => from[i] = IF i \in top..bottom THEN i + 1 ELSE i
  BY <1>1 DEF FromBelow, Rows
<1> HIDE DEF from
<1>7. Scr' = WithRows(Scr, top + 1, bottom + 1, BlanksAfter(Scr, top + 1, bottom + 1, 1))
  <2>1. Moves(from, bottom - 1 + 1..bottom)
    BY <1>2, <1>4
  <2> QED BY <2>1, <1>1, <1>5, <1>6, MovedUp
<1>8. Scr' = WithRows(Scr, top + 1, bottom + 1,
                      Tail(SubSeq(Scr, top + 1, bottom + 1)) \o [i \in 1..1 |-> BlankRow])
  <2> DEFINE first == top + 1
             last == bottom + 1
  <2>1. Scr \in Seq(RowType) /\ first \in 1..Len(Scr) /\ last \in first..Len(Scr)
    BY <1>1, ScrIsSeq
  <2> HIDE DEF first, last
  <2>2. Tail(SubSeq(Scr, first, last)) \o [i \in 1..1 |-> BlankRow] = BlanksAfter(Scr, first, last, 1)
    BY <2>1, ShiftedUp
  <2> QED BY <2>2, <1>7 DEF first, last
<1>9. Old' = IF top + 1 = 1 THEN IF Len(Old) < RingLines THEN Append(Old, Scr[1])
                                 ELSE Append(Tail(Old), Scr[1])
             ELSE Old
  <2>1. CASE top = 0
    <3>1. Scr[1] = Row(0) /\ Row(0) \in RowType
      <4>1. 1 \in 1..BufLines /\ 1 - 1 = 0
        BY BufLinesAssumption
      <4>2. Scr[1] = Row(0)
        BY <4>1, ScrIsSeq
      <4>3. 0 \in Rows
        BY BufLinesAssumption DEF Rows
      <4>4. lmap[0] \in Rows /\ marks[0] \in BOOLEAN
        BY <4>3 DEF LsTypeOK
      <4>5. Row(0) \in RowType
        BY <4>4 DEF LsTypeOK, Row, RowOf, RowType
      <4> QED BY <4>2, <4>5
    <3>2. Old = PastOf(ring) /\ ring \in RingType /\ Old' = PastOf(ring')
      BY OldIsPast, OldIsPastNext
    <3>3. Old' = PastOf(Pushed(ring, Row(0)))
      BY <3>2, <2>1, <1>3
    <3> QED BY <3>1, <3>2, <3>3, <2>1, PastPushed
  <2>2. CASE top # 0
    <3>1. Old' = Old
      BY <2>2, <1>3, OldStays
    <3>2. top + 1 # 1
      BY <2>2, <1>1
    <3> QED BY <3>1, <3>2
  <2> QED BY <2>1, <2>2
<1>10. Stored!Up(top + 1, bottom + 1)
  BY <1>8, <1>9, AbstractUp
<1> QED BY <1>10 DEF top, bottom

(* The screen moved down a line, as both scrolling back and down need it.  *)
LEMMA ScrolledDown ==
  ASSUME LsTypeOK,
         Moves([i \in Rows |-> FromAbove(i, region.top, region.bottom)], {region.top})
  PROVE  Scr' = WithRows(Scr, region.top + 1, region.bottom + 1,
                         BlanksBefore(Scr, region.top + 1, region.bottom + 1, 1))
<1> DEFINE top == region.top
           bottom == region.bottom
           from == [i \in Rows |-> FromAbove(i, top, bottom)]
<1>1. /\ top \in Rows /\ bottom \in Rows /\ top <= bottom /\ top \in Int /\ bottom \in Int
      /\ 1 \in 1..bottom - top + 1
  BY RegionInScreen
<1>2. Moves(from, {top})
  OBVIOUS
<1> HIDE DEF top, bottom
<1>4. top..top + 1 - 1 = {top}
  BY <1>1
<1>5. from \in [Rows -> Rows] /\ \A i, j \in Rows : from[i] = from[j] => i = j
  BY <1>1, AboveIsMove
<1>6. \A i \in Rows : i \notin top..top + 1 - 1 => from[i] = IF i \in top..bottom THEN i - 1 ELSE i
  BY <1>1 DEF FromAbove, Rows
<1> HIDE DEF from
<1>7. Scr' = WithRows(Scr, top + 1, bottom + 1, BlanksBefore(Scr, top + 1, bottom + 1, 1))
  <2>1. Moves(from, top..top + 1 - 1)
    BY <1>2, <1>4
  <2> QED BY <2>1, <1>1, <1>5, <1>6, MovedDown
<1> QED BY <1>7 DEF top, bottom

LEMMA ReverseIndexStep ==
  ASSUME LsTypeOK, ReverseIndexLines
  PROVE  Stored!Down(region.top + 1, region.bottom + 1)
<1> DEFINE first == region.top + 1
           last == region.bottom + 1
<1>1. first \in Int /\ last \in Int
  BY RegionInScreen
<1>2. Scr' = WithRows(Scr, first, last, BlanksBefore(Scr, first, last, 1))
  BY ScrolledDown DEF ReverseIndexLines
<1>3. Old' = Old
  BY OldStays DEF ReverseIndexLines
<1> HIDE DEF first, last
<1>4. BlanksBefore(Scr, first, last, 1)
        = [i \in 1..1 |-> BlankRow] \o SubSeq(SubSeq(Scr, first, last), 1, last - first)
  BY <1>1, ShiftedDown
<1>5. Stored!Down(first, last)
  BY <1>2, <1>3, <1>4, AbstractDown
<1> QED BY <1>5 DEF first, last

LEMMA InsertStep ==
  ASSUME LsTypeOK, NEW y \in region.top..region.bottom, NEW n \in 1..region.bottom - y + 1,
         Moves([i \in Rows |-> FromInsert(i, n, y, region.bottom)], y..y + n - 1),
         UNCHANGED ring
  PROVE  Stored!Insert(n, y + 1, region.bottom + 1)
<1> DEFINE bottom == region.bottom
           from == [i \in Rows |-> FromInsert(i, n, y, bottom)]
<1>1. /\ y \in Rows /\ bottom \in Rows /\ y <= bottom /\ y \in Int /\ bottom \in Int
      /\ n \in 1..bottom - y + 1
  BY RegionInScreen, BufLinesAssumption DEF Rows
<1>2. Moves(from, y..y + n - 1)
  OBVIOUS
<1> HIDE DEF bottom
<1>5. from \in [Rows -> Rows] /\ \A i, j \in Rows : from[i] = from[j] => i = j
  BY <1>1, InsertIsMove
<1>6. \A i \in Rows : i \notin y..y + n - 1 => from[i] = IF i \in y..bottom THEN i - n ELSE i
  BY <1>1 DEF FromInsert, Rows
<1> HIDE DEF from
<1>7. Scr' = WithRows(Scr, y + 1, bottom + 1, BlanksBefore(Scr, y + 1, bottom + 1, n))
  BY <1>1, <1>2, <1>5, <1>6, MovedDown
<1>8. Stored!Insert(n, y + 1, bottom + 1)
  BY <1>7, OldStays, AbstractInsert
<1> QED BY <1>8 DEF bottom

LEMMA DeleteStep ==
  ASSUME LsTypeOK, NEW y \in region.top..region.bottom, NEW n \in 1..region.bottom - y + 1,
         Moves([i \in Rows |-> FromDelete(i, n, y, region.bottom)], region.bottom - n + 1..region.bottom),
         UNCHANGED ring
  PROVE  Stored!Delete(n, y + 1, region.bottom + 1)
<1> DEFINE bottom == region.bottom
           from == [i \in Rows |-> FromDelete(i, n, y, bottom)]
<1>1. /\ y \in Rows /\ bottom \in Rows /\ y <= bottom /\ y \in Int /\ bottom \in Int
      /\ n \in 1..bottom - y + 1
  BY RegionInScreen, BufLinesAssumption DEF Rows
<1>2. Moves(from, bottom - n + 1..bottom)
  OBVIOUS
<1> HIDE DEF bottom
<1>5. from \in [Rows -> Rows] /\ \A i, j \in Rows : from[i] = from[j] => i = j
  BY <1>1, DeleteIsMove
<1>6. \A i \in Rows : i \notin bottom - n + 1..bottom => from[i] = IF i \in y..bottom THEN i + n ELSE i
  BY <1>1 DEF FromDelete, Rows
<1> HIDE DEF from
<1>7. Scr' = WithRows(Scr, y + 1, bottom + 1, BlanksAfter(Scr, y + 1, bottom + 1, n))
  BY <1>1, <1>2, <1>5, <1>6, MovedUp
<1>8. Stored!Delete(n, y + 1, bottom + 1)
  BY <1>7, OldStays, AbstractDelete
<1> QED BY <1>8 DEF bottom

LEMMA FillStep ==
  ASSUME LsTypeOK, LsTypeOK', FillLine
  PROVE  Stored!Unscroll(region.top + 1, region.bottom + 1)
<1> DEFINE top == region.top
           bottom == region.bottom
           from(i) == FromAbove(i, top, bottom)
           row == ring.slots[Newest(ring)]
           G(i) == IF i < top + 1 \/ i > bottom + 1 THEN Scr[i]
                   ELSE IF i < top + 2 THEN BlankRow ELSE Scr[i - 1]
<1>1. /\ top \in Rows /\ bottom \in Rows /\ top <= bottom /\ top \in Int /\ bottom \in Int
      /\ top + 1 \in 1..BufLines /\ bottom + 1 \in top + 1..BufLines /\ 1 \in 1..bottom - top + 1
  BY RegionInScreen
<1>2. /\ ring.count > 0 /\ ring' = Popped(ring)
      /\ lmap' = [i \in Rows |-> lmap[from(i)]]
      /\ cells' = [c \in Rows |-> IF c = lmap[from(0)] THEN row.text
                                  ELSE IF c = lmap[bottom] THEN 0 ELSE cells[c]]
      /\ marks' = [i \in Rows |-> IF i = 0 THEN row.mark ELSE i # top /\ marks[from(i)]]
  BY DEF FillLine
<1>3. ring \in RingType /\ Old = PastOf(ring) /\ Old' = PastOf(ring')
  BY OldIsPast, OldIsPastNext
<1>4. /\ Old' = SubSeq(Old, 1, Len(Old) - 1)
      /\ Old # <<>>
      /\ Old[Len(Old)] = row
  BY <1>2, <1>3, PastPopped
<1>5. row \in RowType
  <2>1. Newest(ring) \in Slots
    BY <1>2, <1>3, NewestOK
  <2> QED BY <2>1, <1>3, RingParts
<1> HIDE DEF top, bottom, row
<1>6. /\ \A i \in Rows : from(i) \in Rows
      /\ \A i, j \in Rows : from(i) = from(j) => i = j
      /\ \A i \in Rows : from(i) = bottom <=> i = top
      /\ \A i \in Rows : i # top => from(i) = IF i \in top..bottom THEN i - 1 ELSE i
      /\ 0 \in Rows
  <2>1. \A i \in Rows : from(i) \in Rows
    BY <1>1, AboveIsMove
  <2>2. \A i, j \in Rows : from(i) = from(j) => i = j
    BY <1>1, AboveIsMove
  <2>3. from(top) = bottom
    BY <1>1 DEF FromAbove
  <2>4. \A i \in Rows : from(i) = bottom <=> i = top
    BY <2>2, <2>3, <1>1
  <2>5. \A i \in Rows : i # top => from(i) = IF i \in top..bottom THEN i - 1 ELSE i
    BY <1>1 DEF FromAbove, Rows
  <2> QED BY <2>1, <2>2, <2>4, <2>5, BufLinesAssumption DEF Rows
<1> HIDE DEF from
<1>7. lmap \in [Rows -> Rows] /\ \A k, j \in Rows : lmap[k] = lmap[j] => k = j
  BY DEF LsTypeOK
<1>8. ASSUME NEW i \in Rows
      PROVE  Row(i)' = IF i = 0 THEN row ELSE IF i = top THEN BlankRow ELSE Row(from(i))
  <2>1. lmap'[i] = lmap[from(i)] /\ lmap'[i] \in Rows /\ from(i) \in Rows /\ from(0) \in Rows
    BY <1>2, <1>6, <1>7
  <2>2. cells'[lmap'[i]] = IF lmap'[i] = lmap[from(0)] THEN row.text
                           ELSE IF lmap'[i] = lmap[bottom] THEN 0 ELSE cells[lmap'[i]]
    BY <1>2, <2>1
  <2>3. (lmap'[i] = lmap[from(0)] <=> i = 0) /\ (lmap'[i] = lmap[bottom] <=> i = top)
    BY <2>1, <1>1, <1>6, <1>7
  <2>4. marks'[i] = IF i = 0 THEN row.mark ELSE i # top /\ marks[from(i)]
    BY <1>2
  <2>5. Row(i)' = RowOf(cells'[lmap'[i]], marks'[i])
    BY DEF Row
  <2>6. marks[from(i)] \in BOOLEAN
    BY <2>1 DEF LsTypeOK
  <2>7. CASE i = 0
    <3>1. cells'[lmap'[i]] = row.text /\ marks'[i] = row.mark
      BY <2>2, <2>3, <2>4, <2>7
    <3>2. RowOf(row.text, row.mark) = row
      BY <1>5 DEF RowOf, RowType
    <3> QED BY <3>1, <3>2, <2>5, <2>7
  <2>8. CASE i # 0 /\ i = top
    <3>1. cells'[lmap'[i]] = 0 /\ marks'[i] = FALSE
      BY <2>2, <2>3, <2>4, <2>8
    <3> QED BY <3>1, <2>5, <2>8 DEF BlankRow
  <2>9. CASE i # 0 /\ i # top
    <3>1. cells'[lmap'[i]] = cells[lmap[from(i)]]
      BY <2>1, <2>2, <2>3, <2>9
    <3>2. marks'[i] = marks[from(i)]
      BY <2>4, <2>6, <2>9
    <3>3. Row(from(i)) = RowOf(cells[lmap[from(i)]], marks[from(i)])
      BY DEF Row
    <3> QED BY <3>1, <3>2, <3>3, <2>5, <2>9
  <2> QED BY <2>7, <2>8, <2>9
<1>9. ASSUME NEW i \in 1..BufLines
      PROVE  Row(i - 1)' = IF i = 1 THEN row ELSE G(i)
  <2>1. i - 1 \in Rows /\ (i - 1 = 0 <=> i = 1) /\ i \in Int
    BY BufLinesAssumption DEF Rows
  <2>2. CASE i = 1
    BY <2>1, <2>2, <1>8
  <2>3. CASE i # 1 /\ i - 1 = top
    <3>1. ~(i < top + 1 \/ i > bottom + 1) /\ i < top + 2
      BY <2>1, <2>3, <1>1
    <3> QED BY <3>1, <2>1, <2>3, <1>8
  <2>4. CASE i # 1 /\ i - 1 # top
    <3>1. from(i - 1) \in Rows /\ from(i - 1) = IF i - 1 \in top..bottom THEN i - 1 - 1 ELSE i - 1
      BY <2>1, <2>4, <1>6
    <3>2. from(i - 1) + 1 \in 1..BufLines /\ (from(i - 1) + 1) - 1 = from(i - 1)
      BY <3>1, BufLinesAssumption DEF Rows
    <3>3. Scr[from(i - 1) + 1] = Row(from(i - 1))
      BY <3>2, ScrIsSeq
    <3>4. Row(i - 1)' = Row(from(i - 1))
      BY <2>1, <2>4, <1>8
    <3>5. CASE i - 1 \in top..bottom
      <4>1. ~(i < top + 1 \/ i > bottom + 1) /\ ~(i < top + 2) /\ from(i - 1) + 1 = i - 1
        BY <3>1, <3>5, <2>1, <2>4, <1>1
      <4> QED BY <4>1, <3>3, <3>4, <2>4
    <3>6. CASE i - 1 \notin top..bottom
      <4>1. (i < top + 1 \/ i > bottom + 1) /\ from(i - 1) + 1 = i
        BY <3>1, <3>6, <2>1, <2>4, <1>1
      <4> QED BY <4>1, <3>3, <3>4, <2>4
    <3> QED BY <3>5, <3>6
  <2> QED BY <2>2, <2>3, <2>4
<1>10. Scr' = [i \in 1..BufLines |-> IF i = 1 THEN row ELSE G(i)]
  <2>1. Scr' = [i \in 1..BufLines |-> Row(i - 1)']
    BY DEF Scr
  <2> HIDE DEF G
  <2> QED BY <2>1, <1>9
<1> DEFINE first == top + 1
           last == bottom + 1
<1>11. WithRows(Scr, first, last, BlanksBefore(Scr, first, last, 1)) = [i \in 1..BufLines |-> G(i)]
  <2>1. Scr \in Seq(RowType) /\ Len(Scr) = BufLines
    BY ScrIsSeq
  <2>2. first \in 1..Len(Scr) /\ last \in first..Len(Scr) /\ 1 \in 1..last - first + 1
    BY <1>1, <2>1
  <2>3. first + 1 = top + 2
    BY <1>1
  <2> HIDE DEF first, last
  <2>5. WithRows(Scr, first, last, BlanksBefore(Scr, first, last, 1))
         
          = [i \in 1..Len(Scr) |-> IF i < first \/ i > last THEN Scr[i]
                                  ELSE IF i < first + 1 THEN BlankRow ELSE Scr[i - 1]]
    BY <2>1, <2>2, InsertedScreen
  <2>6. first = top + 1 /\ last = bottom + 1
    BY DEF first, last
  <2> QED BY <2>1, <2>3, <2>5, <2>6
<1>12. Scr' = [WithRows(Scr, first, last,
                        [i \in 1..1 |-> BlankRow] \o SubSeq(SubSeq(Scr, first, last), 1, last - first))
                 EXCEPT ![1] = Old[Len(Old)]]
  <2>1. first \in Int /\ last \in Int
    BY <1>1
  <2> HIDE DEF first, last, G
  <2>2. BlanksBefore(Scr, first, last, 1)
          = [i \in 1..1 |-> BlankRow] \o SubSeq(SubSeq(Scr, first, last), 1, last - first)
    BY <2>1, ShiftedDown
  <2>3. [[i \in 1..BufLines |-> G(i)] EXCEPT ![1] = row]
          = [i \in 1..BufLines |-> IF i = 1 THEN row ELSE G(i)]
    OBVIOUS
  <2> QED BY <2>2, <2>3, <1>4, <1>10, <1>11
<1>13. Stored!Unscroll(first, last)
  <2> HIDE DEF first, last
  <2> QED BY <1>4, <1>12, AbstractUnscroll
<1> QED BY <1>13 DEF top, bottom, first, last

LEMMA WriteStep ==
  ASSUME LsTypeOK, WriteLine
  PROVE  \E i \in 1..BufLines : Stored!Change(i, Scr'[i])
<1>1. PICK y \in Rows, mark \in BOOLEAN :
        /\ cells' = [cells EXCEPT ![lmap[y]] = texts + 1]
        /\ marks' = [marks EXCEPT ![y] = @ \/ mark]
        /\ UNCHANGED <<lmap, ring>>
  BY DEF WriteLine
<1>2. lmap \in [Rows -> Rows] /\ \A k, j \in Rows : lmap[k] = lmap[j] => k = j
  BY DEF LsTypeOK
<1>3. ASSUME NEW i \in Rows, i # y
      PROVE  Row(i)' = Row(i)
  <2>1. lmap'[i] = lmap[i] /\ lmap[i] # lmap[y]
    BY <1>1, <1>2, <1>3
  <2>2. cells'[lmap'[i]] = cells[lmap[i]]
    BY <2>1, <1>1, <1>2 DEF LsTypeOK
  <2>3. marks'[i] = marks[i]
    BY <1>1, <1>3 DEF LsTypeOK
  <2> QED BY <2>2, <2>3 DEF Row
<1>4. y + 1 \in 1..BufLines
  BY BufLinesAssumption DEF Rows
<1>5. Scr' = [i \in 1..BufLines |-> Row(i - 1)']
  BY DEF Scr
<1>6. \A i \in 1..BufLines : i # y + 1 => Scr'[i] = Scr[i]
  <2> SUFFICES ASSUME NEW i \in 1..BufLines, i # y + 1
               PROVE  Scr'[i] = Scr[i]
    OBVIOUS
  <2>1. i - 1 \in Rows /\ i - 1 # y
    BY BufLinesAssumption DEF Rows
  <2>2. Row(i - 1)' = Row(i - 1)
    BY <2>1, <1>3
  <2> QED BY <2>2, <1>5, ScrIsSeq
<1>7. Scr = [i \in 1..BufLines |-> Scr[i]] /\ Scr' = [i \in 1..BufLines |-> Scr'[i]]
  BY <1>5 DEF Scr
<1>8. Scr' = [Scr EXCEPT ![y + 1] = Scr'[y + 1]]
  BY <1>4, <1>6, <1>7
<1> QED BY <1>1, <1>4, <1>8, OldStays, AbstractChange

(* Erasing takes every line from where it is.                              *)
LEMMA ErasedRows ==
  ASSUME LsTypeOK, NEW top \in Rows, NEW bottom \in Rows, top <= bottom,
         cells' = [c \in Rows |-> IF \E i \in top..bottom : lmap[i] = c THEN 0 ELSE cells[c]],
         marks' = [i \in Rows |-> i \notin top..bottom /\ marks[i]],
         UNCHANGED lmap
  PROVE  Scr' = WithRows(Scr, top + 1, bottom + 1, [i \in 1..(bottom + 1) - (top + 1) + 1 |-> BlankRow])
<1> DEFINE from == [i \in Rows |-> i]
           blank == top..bottom
           first == top + 1
           last == bottom + 1
<1>1. /\ top \in Int /\ bottom \in Int /\ blank \in SUBSET Rows
      /\ first \in 1..BufLines /\ last \in first..BufLines
  BY BufLinesAssumption DEF Rows
<1>2. Moves(from, blank)
  <2>1. lmap' = [i \in Rows |-> lmap[from[i]]]
    BY DEF LsTypeOK
  <2>2. \A i \in blank : lmap'[i] = lmap[i]
    OBVIOUS
  <2>3. marks' = [i \in Rows |-> i \notin blank /\ marks[from[i]]]
    OBVIOUS
  <2> QED BY <2>1, <2>2, <2>3 DEF Moves
<1>3. from \in [Rows -> Rows] /\ (\A i, j \in Rows : from[i] = from[j] => i = j)
      /\ \A i \in Rows : from[i] = i
  OBVIOUS
<1> HIDE DEF from, blank
<1>4. Scr' = [i \in 1..BufLines |-> IF i - 1 \in blank THEN BlankRow ELSE Scr[from[i - 1] + 1]]
  BY <1>1, <1>2, <1>3, MovesScreen
<1>5. \A i \in 1..BufLines : from[i - 1] + 1 = i /\ (i - 1 \in blank <=> ~(i < first \/ i > last))
  <2> SUFFICES ASSUME NEW i \in 1..BufLines
               PROVE  from[i - 1] + 1 = i /\ (i - 1 \in blank <=> ~(i < first \/ i > last))
    OBVIOUS
  <2>1. i - 1 \in Rows /\ (i - 1) + 1 = i
    BY BufLinesAssumption DEF Rows
  <2>2. from[i - 1] = i - 1
    BY <2>1, <1>3
  <2>3. i - 1 \in blank <=> ~(i < first \/ i > last)
    BY <1>1 DEF blank
  <2> QED BY <2>1, <2>2, <2>3
<1> HIDE DEF first, last
<1>6. Scr' = [i \in 1..BufLines |-> IF i < first \/ i > last THEN Scr[i] ELSE BlankRow]
  BY <1>4, <1>5
<1>7. WithRows(Scr, first, last, [i \in 1..last - first + 1 |-> BlankRow])
        = [i \in 1..BufLines |-> IF i < first \/ i > last THEN Scr[i] ELSE BlankRow]
  BY <1>1, ScrIsSeq, ErasedScreen
<1> QED BY <1>6, <1>7 DEF first, last

LEMMA EmptyIsPast ==
  ASSUME ring = EmptyRing
  PROVE  Old = <<>>
  BY DEF EmptyRing, Old

LEMMA EraseStep ==
  ASSUME LsTypeOK, EraseLines
  PROVE  \E top \in 1..BufLines : \E bottom \in top..BufLines : \E all \in BOOLEAN :
            Stored!Erase(top, bottom, all)
<1>1. PICK lines \in {0..y : y \in Rows} \cup {y..BufLines - 1 : y \in Rows}, all \in BOOLEAN :
        /\ cells' = [c \in Rows |-> IF \E i \in lines : lmap[i] = c THEN 0 ELSE cells[c]]
        /\ marks' = [i \in Rows |-> i \notin lines /\ marks[i]]
        /\ ring' = IF all THEN EmptyRing ELSE ring
        /\ UNCHANGED lmap
  BY DEF EraseLines
<1>2. PICK top \in Rows, bottom \in Rows : top <= bottom /\ lines = top..bottom
  <2>1. 0 \in Rows /\ BufLines - 1 \in Rows /\ \A y \in Rows : 0 <= y /\ y <= BufLines - 1
    BY BufLinesAssumption DEF Rows
  <2>2. CASE lines \in {0..y : y \in Rows}
    BY <2>1, <2>2
  <2>3. CASE lines \in {y..BufLines - 1 : y \in Rows}
    BY <2>1, <2>3
  <2> QED BY <2>2, <2>3
<1>3. top + 1 \in 1..BufLines /\ bottom + 1 \in top + 1..BufLines
  BY <1>2, BufLinesAssumption DEF Rows
<1>4. Scr' = WithRows(Scr, top + 1, bottom + 1, [i \in 1..(bottom + 1) - (top + 1) + 1 |-> BlankRow])
  BY <1>1, <1>2, ErasedRows
<1>5. Old' = IF all THEN <<>> ELSE Old
  <2>1. CASE all
    BY <2>1, <1>1 DEF EmptyRing, Old
  <2>2. CASE ~all
    BY <2>2, <1>1, OldStays
  <2> QED BY <2>1, <2>2
<1>6. Stored!Erase(top + 1, bottom + 1, all)
  BY <1>4, <1>5, AbstractErase
<1> QED BY <1>3, <1>6

LEMMA ResetStep ==
  ASSUME LsTypeOK, ResetLines
  PROVE  Stored!Erase(1, BufLines, TRUE)
<1>1. \A i \in Rows : Row(i)' = BlankRow
  BY DEF ResetLines, Row, BlankRow
<1>2. \A i \in 1..BufLines : Row(i - 1)' = BlankRow
  BY <1>1, BufLinesAssumption DEF Rows
<1>3. Scr' = [i \in 1..BufLines |-> BlankRow]
  BY <1>2 DEF Scr
<1>4. 1 \in 1..BufLines /\ BufLines \in 1..BufLines /\ BufLines \in Nat
  BY BufLinesAssumption
<1>5. WithRows(Scr, 1, BufLines, [i \in 1..BufLines - 1 + 1 |-> BlankRow])
        = [i \in 1..BufLines |-> IF i < 1 \/ i > BufLines THEN Scr[i] ELSE BlankRow]
  BY <1>4, ScrIsSeq, ErasedScreen
<1>6. [i \in 1..BufLines |-> IF i < 1 \/ i > BufLines THEN Scr[i] ELSE BlankRow]
        = [i \in 1..BufLines |-> BlankRow]
  BY <1>4
<1>7. Old' = <<>>
  BY DEF ResetLines, EmptyRing, Old
<1> QED BY <1>3, <1>5, <1>6, <1>7, AbstractErase

LEMMA TextStep ==
  ASSUME LsTypeOK, LsTypeOK', [LsNext]_lsvars
  PROVE  Stored!Next \/ UNCHANGED <<Scr, Old>>
<1>1. region.top + 1 \in 1..BufLines /\ region.bottom + 1 \in region.top + 1..BufLines
  BY RegionInScreen
<1>2. CASE WriteLine
  <2>1. PICK i \in 1..BufLines : Stored!Change(i, Scr'[i])
    BY <1>2, WriteStep
  <2> QED BY <2>1 DEF Stored!Next, Scr
<1>3. CASE IndexLines
  <2>1. Stored!Up(region.top + 1, region.bottom + 1)
    BY <1>3, IndexStep
  <2> QED BY <2>1, <1>1 DEF Stored!Next
<1>4. CASE ReverseIndexLines
  <2>1. Stored!Down(region.top + 1, region.bottom + 1)
    BY <1>4, ReverseIndexStep
  <2> QED BY <2>1, <1>1 DEF Stored!Next
<1>5. CASE FillLine
  <2>1. Stored!Unscroll(region.top + 1, region.bottom + 1)
    BY <1>5, FillStep
  <2> QED BY <2>1, <1>1 DEF Stored!Next
<1>6. CASE InsertLines
  <2>1. PICK y \in region.top..region.bottom : \E n \in 1..region.bottom - y + 1 :
          /\ Moves([i \in Rows |-> FromInsert(i, n, y, region.bottom)], y..y + n - 1)
          /\ UNCHANGED ring
    BY <1>6 DEF InsertLines
  <2>2. PICK n \in 1..region.bottom - y + 1 :
          /\ Moves([i \in Rows |-> FromInsert(i, n, y, region.bottom)], y..y + n - 1)
          /\ UNCHANGED ring
    BY <2>1
  <2>3. Stored!Insert(n, y + 1, region.bottom + 1)
    BY <2>2, InsertStep
  <2>4. /\ y + 1 \in 1..BufLines /\ region.bottom + 1 \in y + 1..BufLines
        /\ n \in 1..(region.bottom + 1) - (y + 1) + 1
    BY RegionInScreen, BufLinesAssumption DEF Rows
  <2> QED BY <2>3, <2>4 DEF Stored!Next
<1>7. CASE DeleteLines
  <2>1. PICK y \in region.top..region.bottom : \E n \in 1..region.bottom - y + 1 :
          /\ Moves([i \in Rows |-> FromDelete(i, n, y, region.bottom)],
                   region.bottom - n + 1..region.bottom)
          /\ UNCHANGED ring
    BY <1>7 DEF DeleteLines
  <2>2. PICK n \in 1..region.bottom - y + 1 :
          /\ Moves([i \in Rows |-> FromDelete(i, n, y, region.bottom)],
                   region.bottom - n + 1..region.bottom)
          /\ UNCHANGED ring
    BY <2>1
  <2>3. Stored!Delete(n, y + 1, region.bottom + 1)
    BY <2>2, DeleteStep
  <2>4. /\ y + 1 \in 1..BufLines /\ region.bottom + 1 \in y + 1..BufLines
        /\ n \in 1..(region.bottom + 1) - (y + 1) + 1
    BY RegionInScreen, BufLinesAssumption DEF Rows
  <2> QED BY <2>3, <2>4 DEF Stored!Next
<1>8. CASE EraseLines
  <2>1. PICK top \in 1..BufLines : \E bottom \in top..BufLines : \E all \in BOOLEAN :
            Stored!Erase(top, bottom, all)
    BY <1>8, EraseStep
  <2> QED BY <2>1 DEF Stored!Next
<1>9. CASE ResetLines
  <2>1. Stored!Erase(1, BufLines, TRUE)
    BY <1>9, ResetStep
  <2>2. 1 \in 1..BufLines /\ BufLines \in 1..BufLines
    BY BufLinesAssumption
  <2> QED BY <2>1, <2>2 DEF Stored!Next
<1>10. CASE SetRegion \/ UNCHANGED lsvars
  <2>1. UNCHANGED <<lmap, cells, marks, ring>>
    BY <1>10 DEF SetRegion, lsvars
  <2>2. Old' = Old
    BY <2>1, OldStays
  <2>3. Scr' = Scr
    BY <2>1 DEF Scr, Row
  <2> QED BY <2>2, <2>3
<1> QED BY <1>2, <1>3, <1>4, <1>5, <1>6, <1>7, <1>8, <1>9, <1>10 DEF LsNext

(* The permutation of line-buf.c and the ring of history.c hold the two    *)
(* sequences of lines that TextLines describes, after any scrolling,       *)
(* inserting, deleting, erasing or filling from the scrollback.            *)
THEOREM LinesAreSequences == LsSpec => TextIsSequences
<1>1. LsInit => Stored!Init
  <2> SUFFICES ASSUME LsInit
               PROVE  Stored!Init
    OBVIOUS
  <2>1. \A i \in Rows : Row(i) = BlankRow
    BY DEF LsInit, Row, BlankRow
  <2>2. \A i \in 1..BufLines : Row(i - 1) = BlankRow
    BY <2>1, BufLinesAssumption DEF Rows
  <2>3. Scr = [i \in 1..BufLines |-> BlankRow]
    BY <2>2 DEF Scr
  <2>4. Old = <<>>
    BY EmptyIsPast DEF LsInit
  <2> QED BY <2>3, <2>4 DEF Stored!Init, Stored!Blanks, Scr, Old
<1>2. LsTypeOK /\ LsTypeOK' /\ [LsNext]_lsvars => Stored!Next \/ UNCHANGED <<Scr, Old>>
  BY TextStep
<1> QED BY <1>1, <1>2, LinesKeepTheirCells, PTL DEF LsSpec, TextIsSequences, Stored!Spec, Scr, Old
-----------------------------------------------------------------------------
(* What follows the text: Scrollback.                                      *)

LineType == [text : Nat, mark : BOOLEAN]
Lines == 0..ScreenLines - 1

TextTyped ==
    /\ screen \in Seq(LineType) /\ Len(screen) = ScreenLines
    /\ past \in Seq(LineType) /\ Len(past) <= HistoryMax
MarginTyped == margin \in [top : Lines, bottom : Lines] /\ margin.top <= margin.bottom
ViewTyped == scrolled \in Nat /\ added \in Nat /\ drawn \in Nat
VisitedTyped == visited \in [on : BOOLEAN, y : Lines, by : Nat]
SelTyped == sel \in [on : BOOLEAN, y : Lines, by : Int]
SbTypeOK == TextTyped /\ MarginTyped /\ ViewTyped /\ VisitedTyped /\ SelTyped

-----------------------------------------------------------------------------
(* Sequences of lines.                                                     *)
LEMMA Joined ==
  ASSUME NEW a \in Seq(LineType), NEW b \in Seq(LineType)
  PROVE  /\ a \o b \in Seq(LineType)
         /\ Len(a \o b) = Len(a) + Len(b)
         /\ \A i \in 1..Len(a) : (a \o b)[i] = a[i]
         /\ \A i \in Len(a) + 1..Len(a) + Len(b) : (a \o b)[i] = b[i - Len(a)]
  OBVIOUS

LEMMA Part ==
  ASSUME NEW s \in Seq(LineType), NEW m \in Int, NEW n \in Int, 1 <= m, m <= n + 1, n <= Len(s)
  PROVE  /\ SubSeq(s, m, n) \in Seq(LineType)
         /\ Len(SubSeq(s, m, n)) = n - m + 1
         /\ \A i \in 1..n - m + 1 : SubSeq(s, m, n)[i] = s[m + i - 1]
  OBVIOUS

LEMMA Rest ==
  ASSUME NEW s \in Seq(LineType), Len(s) >= 1
  PROVE  /\ Tail(s) \in Seq(LineType)
         /\ Len(Tail(s)) = Len(s) - 1
         /\ \A i \in 1..Len(s) - 1 : Tail(s)[i] = s[i + 1]
  OBVIOUS

LEMMA Longer ==
  ASSUME NEW s \in Seq(LineType), NEW row \in LineType
  PROVE  /\ Append(s, row) \in Seq(LineType)
         /\ Len(Append(s, row)) = Len(s) + 1
         /\ \A i \in 1..Len(s) : Append(s, row)[i] = s[i]
         /\ Append(s, row)[Len(s) + 1] = row
  OBVIOUS

LEMMA EmptyLines ==
  ASSUME NEW n \in Nat
  PROVE  /\ [i \in 1..n |-> Empty] \in Seq(LineType)
         /\ Len([i \in 1..n |-> Empty]) = n
  BY DEF Empty, LineType

LEMMA LenIsNat ==
  ASSUME NEW s \in Seq(LineType)
  PROVE  Len(s) \in Nat
  OBVIOUS

(* The lines of a region replaced by as many.                              *)
Replaced(s, top, bottom, rows) ==
    SubSeq(s, 1, top - 1) \o rows \o SubSeq(s, bottom + 1, Len(s))

LEMMA ReplacedTyped ==
  ASSUME NEW s \in Seq(LineType), NEW rows \in Seq(LineType),
         NEW top \in 1..Len(s), NEW bottom \in top..Len(s),
         Len(rows) = bottom - top + 1
  PROVE  /\ Replaced(s, top, bottom, rows) \in Seq(LineType)
         /\ Len(Replaced(s, top, bottom, rows)) = Len(s)
<1> DEFINE a == SubSeq(s, 1, top - 1)
           c == SubSeq(s, bottom + 1, Len(s))
<1>1. a \in Seq(LineType) /\ Len(a) = top - 1
  <2>1. /\ 1 \in Int /\ top - 1 \in Int /\ 1 <= 1 /\ 1 <= (top - 1) + 1 /\ top - 1 <= Len(s)
        /\ (top - 1) - 1 + 1 = top - 1
    BY LenIsNat
  <2> QED BY <2>1, Part
<1>2. c \in Seq(LineType) /\ Len(c) = Len(s) - bottom
  <2>1. /\ bottom + 1 \in Int /\ Len(s) \in Int /\ 1 <= bottom + 1 /\ bottom + 1 <= Len(s) + 1
        /\ Len(s) <= Len(s) /\ Len(s) - (bottom + 1) + 1 = Len(s) - bottom
    BY LenIsNat
  <2> QED BY <2>1, Part
<1> HIDE DEF a, c
<1>3. a \o rows \in Seq(LineType) /\ Len(a \o rows) = Len(a) + Len(rows)
  BY <1>1, Joined
<1>4. (a \o rows) \o c \in Seq(LineType) /\ Len((a \o rows) \o c) = Len(a \o rows) + Len(c)
  BY <1>2, <1>3, Joined
<1>5. (top - 1) + (bottom - top + 1) + (Len(s) - bottom) = Len(s)
  BY LenIsNat
<1> QED BY <1>1, <1>2, <1>3, <1>4, <1>5 DEF a, c, Replaced

LEMMA AllReplaced ==
  ASSUME NEW s \in Seq(LineType), NEW rows \in Seq(LineType), Len(rows) = Len(s)
  PROVE  Replaced(s, 1, Len(s), rows) = rows
<1>1. SubSeq(s, 1, 0) = <<>> /\ SubSeq(s, Len(s) + 1, Len(s)) = <<>>
  OBVIOUS
<1>2. <<>> \o rows = rows /\ rows \o <<>> = rows
  OBVIOUS
<1> QED BY <1>1, <1>2 DEF Replaced

-----------------------------------------------------------------------------
(* The lines that TextLines puts in a region.                              *)
UpRows(s, top, bottom) == Tail(SubSeq(s, top, bottom)) \o [i \in 1..1 |-> Empty]
DownRows(s, top, bottom) ==
    [i \in 1..1 |-> Empty] \o SubSeq(SubSeq(s, top, bottom), 1, bottom - top)
InsertRows(s, y, bottom, n) ==
    [i \in 1..n |-> Empty] \o SubSeq(SubSeq(s, y, bottom), 1, bottom - y + 1 - n)
DeleteRows(s, y, bottom, n) ==
    SubSeq(SubSeq(s, y, bottom), n + 1, Len(SubSeq(s, y, bottom))) \o [i \in 1..n |-> Empty]

LEMMA RegionPart ==
  ASSUME NEW s \in Seq(LineType), NEW top \in 1..Len(s), NEW bottom \in top..Len(s)
  PROVE  /\ SubSeq(s, top, bottom) \in Seq(LineType)
         /\ Len(SubSeq(s, top, bottom)) = bottom - top + 1
         /\ \A i \in 1..bottom - top + 1 : SubSeq(s, top, bottom)[i] = s[top + i - 1]
<1>1. top \in Int /\ bottom \in Int /\ 1 <= top /\ top <= bottom + 1 /\ bottom <= Len(s)
  BY LenIsNat
<1> QED BY <1>1, Part

LEMMA UpRowsAre ==
  ASSUME NEW s \in Seq(LineType), NEW top \in 1..Len(s), NEW bottom \in top..Len(s)
  PROVE  /\ UpRows(s, top, bottom) \in Seq(LineType)
         /\ Len(UpRows(s, top, bottom)) = bottom - top + 1
         /\ \A i \in 1..bottom - top : UpRows(s, top, bottom)[i] = s[top + i]
<1> DEFINE r == SubSeq(s, top, bottom)
           b == [i \in 1..1 |-> Empty]
           q == Tail(r)
<1>1. /\ r \in Seq(LineType) /\ Len(r) = bottom - top + 1
      /\ \A i \in 1..bottom - top + 1 : r[i] = s[top + i - 1]
  BY RegionPart
<1>2. b \in Seq(LineType) /\ Len(b) = 1
  BY EmptyLines
<1> HIDE DEF r, b
<1>3. /\ q \in Seq(LineType) /\ Len(q) = Len(r) - 1
      /\ \A i \in 1..Len(r) - 1 : q[i] = r[i + 1]
  BY <1>1, Rest
<1> HIDE DEF q
<1>4. /\ q \o b \in Seq(LineType) /\ Len(q \o b) = Len(q) + Len(b)
      /\ \A i \in 1..Len(q) : (q \o b)[i] = q[i]
  BY <1>2, <1>3, Joined
<1>5. Len(q) = bottom - top /\ Len(q \o b) = bottom - top + 1
  BY <1>1, <1>2, <1>3, <1>4
<1>6. ASSUME NEW i \in 1..bottom - top
      PROVE  (q \o b)[i] = s[top + i]
  <2>1. i \in 1..Len(q) /\ i \in 1..Len(r) - 1 /\ i + 1 \in 1..bottom - top + 1 /\ top + (i + 1) - 1 = top + i
    BY <1>1, <1>5
  <2>2. (q \o b)[i] = q[i] /\ q[i] = r[i + 1] /\ r[i + 1] = s[top + (i + 1) - 1]
    BY <2>1, <1>1, <1>3, <1>4
  <2> QED BY <2>1, <2>2
<1> QED BY <1>4, <1>5, <1>6 DEF r, b, q, UpRows

LEMMA InsertRowsAre ==
  ASSUME NEW s \in Seq(LineType), NEW y \in 1..Len(s), NEW bottom \in y..Len(s),
         NEW n \in 1..bottom - y + 1
  PROVE  /\ InsertRows(s, y, bottom, n) \in Seq(LineType)
         /\ Len(InsertRows(s, y, bottom, n)) = bottom - y + 1
         /\ \A i \in n + 1..bottom - y + 1 : InsertRows(s, y, bottom, n)[i] = s[y + i - 1 - n]
<1> DEFINE r == SubSeq(s, y, bottom)
           b == [i \in 1..n |-> Empty]
           q == SubSeq(r, 1, bottom - y + 1 - n)
<1>1. /\ r \in Seq(LineType) /\ Len(r) = bottom - y + 1
      /\ \A i \in 1..bottom - y + 1 : r[i] = s[y + i - 1]
  BY RegionPart
<1>2. b \in Seq(LineType) /\ Len(b) = n
  BY EmptyLines
<1> HIDE DEF r, b
<1>3. /\ q \in Seq(LineType) /\ Len(q) = bottom - y + 1 - n
      /\ \A i \in 1..bottom - y + 1 - n : q[i] = r[i]
  <2> DEFINE m == bottom - y + 1 - n
  <2>1. m \in Int /\ 1 \in Int /\ 1 <= 1 /\ 1 <= m + 1 /\ m <= Len(r) /\ m - 1 + 1 = m
    BY <1>1
  <2> HIDE DEF m
  <2>2. /\ SubSeq(r, 1, m) \in Seq(LineType)
        /\ Len(SubSeq(r, 1, m)) = m - 1 + 1
        /\ \A i \in 1..m - 1 + 1 : SubSeq(r, 1, m)[i] = r[1 + i - 1]
    BY <2>1, <1>1, Part
  <2>3. \A i \in 1..m : 1 + i - 1 = i
    BY <2>1
  <2> QED BY <2>1, <2>2, <2>3 DEF m
<1> HIDE DEF q
<1>4. /\ b \o q \in Seq(LineType) /\ Len(b \o q) = Len(b) + Len(q)
      /\ \A i \in Len(b) + 1..Len(b) + Len(q) : (b \o q)[i] = q[i - Len(b)]
  BY <1>2, <1>3, Joined
<1>5. Len(b) + Len(q) = bottom - y + 1
  BY <1>2, <1>3
<1>6. ASSUME NEW i \in n + 1..bottom - y + 1
      PROVE  (b \o q)[i] = s[y + i - 1 - n]
  <2>1. /\ i \in Len(b) + 1..Len(b) + Len(q) /\ i - Len(b) = i - n /\ i - n \in 1..bottom - y + 1 - n
        /\ i - n \in 1..bottom - y + 1 /\ y + (i - n) - 1 = y + i - 1 - n
    BY <1>2, <1>5
  <2>2. (b \o q)[i] = q[i - Len(b)]
    BY <2>1, <1>4
  <2>3. q[i - n] = r[i - n] /\ r[i - n] = s[y + (i - n) - 1]
    BY <2>1, <1>1, <1>3
  <2> QED BY <2>1, <2>2, <2>3
<1> QED BY <1>4, <1>5, <1>6 DEF r, b, q, InsertRows

LEMMA DownRowsAre ==
  ASSUME NEW s \in Seq(LineType), NEW top \in 1..Len(s), NEW bottom \in top..Len(s)
  PROVE  /\ DownRows(s, top, bottom) \in Seq(LineType)
         /\ Len(DownRows(s, top, bottom)) = bottom - top + 1
         /\ \A i \in 2..bottom - top + 1 : DownRows(s, top, bottom)[i] = s[top + i - 2]
<1>1. bottom - top + 1 - 1 = bottom - top /\ 1 \in 1..bottom - top + 1
  OBVIOUS
<1>2. DownRows(s, top, bottom) = InsertRows(s, top, bottom, 1)
  BY <1>1 DEF DownRows, InsertRows
<1>3. /\ InsertRows(s, top, bottom, 1) \in Seq(LineType)
      /\ Len(InsertRows(s, top, bottom, 1)) = bottom - top + 1
      /\ \A i \in 1 + 1..bottom - top + 1 : InsertRows(s, top, bottom, 1)[i] = s[top + i - 1 - 1]
  BY <1>1, InsertRowsAre
<1>4. 1 + 1 = 2 /\ \A i \in 2..bottom - top + 1 : top + i - 1 - 1 = top + i - 2
  OBVIOUS
<1> QED BY <1>2, <1>3, <1>4

LEMMA DeleteRowsAre ==
  ASSUME NEW s \in Seq(LineType), NEW y \in 1..Len(s), NEW bottom \in y..Len(s),
         NEW n \in 1..bottom - y + 1
  PROVE  /\ DeleteRows(s, y, bottom, n) \in Seq(LineType)
         /\ Len(DeleteRows(s, y, bottom, n)) = bottom - y + 1
<1> DEFINE r == SubSeq(s, y, bottom)
           b == [i \in 1..n |-> Empty]
           q == SubSeq(r, n + 1, Len(r))
<1>1. r \in Seq(LineType) /\ Len(r) = bottom - y + 1
  BY RegionPart
<1>2. b \in Seq(LineType) /\ Len(b) = n
  BY EmptyLines
<1> HIDE DEF r, b
<1>3. q \in Seq(LineType) /\ Len(q) = Len(r) - n
  <2>1. /\ n + 1 \in Int /\ Len(r) \in Int /\ 1 <= n + 1 /\ n + 1 <= Len(r) + 1 /\ Len(r) <= Len(r)
        /\ Len(r) - (n + 1) + 1 = Len(r) - n
    BY <1>1
  <2> QED BY <2>1, <1>1, Part
<1> HIDE DEF q
<1>4. q \o b \in Seq(LineType) /\ Len(q \o b) = Len(q) + Len(b)
  BY <1>2, <1>3, Joined
<1>5. Len(q) + Len(b) = bottom - y + 1
  BY <1>1, <1>2, <1>3
<1> QED BY <1>4, <1>5 DEF r, b, q, DeleteRows

-----------------------------------------------------------------------------
(* The steps of TextLines in these terms.                                  *)
LEMMA UpIs ==
  ASSUME NEW top, NEW bottom, Text!Up(top, bottom)
  PROVE  /\ screen' = Replaced(screen, top, bottom, UpRows(screen, top, bottom))
         /\ past' = IF top = 1 THEN IF Len(past) < HistoryMax THEN Append(past, screen[1])
                                    ELSE Append(Tail(past), screen[1])
                    ELSE past
  BY DEF Text!Up, Text!WithRegion, Text!RegionOf, Text!Taken, Text!Skipped, Text!Blanks,
         Text!Remembered, Replaced, UpRows

LEMMA DownIs ==
  ASSUME NEW top, NEW bottom, Text!Down(top, bottom)
  PROVE  /\ screen' = Replaced(screen, top, bottom, DownRows(screen, top, bottom))
         /\ past' = past
  BY DEF Text!Down, Text!MovedDown, Text!WithRegion, Text!RegionOf, Text!Taken, Text!Skipped,
         Text!Blanks, Replaced, DownRows

LEMMA UnscrollIs ==
  ASSUME NEW top, NEW bottom, Text!Unscroll(top, bottom)
  PROVE  /\ screen' = [Replaced(screen, top, bottom, DownRows(screen, top, bottom))
                         EXCEPT ![1] = past[Len(past)]]
         /\ past # <<>>
         /\ past' = SubSeq(past, 1, Len(past) - 1)
  BY DEF Text!Unscroll, Text!MovedDown, Text!WithRegion, Text!RegionOf, Text!Taken, Text!Skipped,
         Text!Blanks, Replaced, DownRows

LEMMA InsertIs ==
  ASSUME NEW n, NEW y, NEW bottom, Text!Insert(n, y, bottom)
  PROVE  screen' = Replaced(screen, y, bottom, InsertRows(screen, y, bottom, n)) /\ past' = past
  BY DEF Text!Insert, Text!WithRegion, Text!RegionOf, Text!Taken, Text!Skipped, Text!Blanks,
         Replaced, InsertRows

LEMMA DeleteIs ==
  ASSUME NEW n, NEW y, NEW bottom, Text!Delete(n, y, bottom)
  PROVE  screen' = Replaced(screen, y, bottom, DeleteRows(screen, y, bottom, n)) /\ past' = past
  BY DEF Text!Delete, Text!WithRegion, Text!RegionOf, Text!Taken, Text!Skipped, Text!Blanks,
         Replaced, DeleteRows

LEMMA EraseIs ==
  ASSUME NEW top, NEW bottom, NEW all, Text!Erase(top, bottom, all)
  PROVE  /\ screen' = Replaced(screen, top, bottom, [i \in 1..bottom - top + 1 |-> Empty])
         /\ past' = IF all THEN <<>> ELSE past
  BY DEF Text!Erase, Text!WithRegion, Text!Taken, Text!Skipped, Text!Blanks, Replaced

-----------------------------------------------------------------------------
(* Types.                                                                  *)
LEMMA RegionTyped ==
  ASSUME TextTyped, MarginTyped
  PROVE  /\ margin.top \in Int /\ margin.bottom \in Int
         /\ margin.top + 1 \in 1..Len(screen) /\ margin.bottom + 1 \in margin.top + 1..Len(screen)
<1>1. margin.top \in Lines /\ margin.bottom \in Lines /\ margin.top <= margin.bottom /\ Len(screen) = ScreenLines
  BY DEF MarginTyped, TextTyped
<1> DEFINE top == margin.top
           bottom == margin.bottom
           n == Len(screen)
<1> HIDE DEF top, bottom, n
<1>2. top \in Lines /\ bottom \in Lines /\ top <= bottom /\ n = ScreenLines
  BY <1>1 DEF top, bottom, n
<1>3. top \in Int /\ bottom \in Int /\ top + 1 \in 1..n /\ bottom + 1 \in top + 1..n
  BY <1>2, ScreenLinesAssumption DEF Lines
<1> QED BY <1>3 DEF top, bottom, n

LEMMA FirstLine ==
  ASSUME TextTyped
  PROVE  screen[1] \in LineType
  BY ScreenLinesAssumption DEF TextTyped

(* A region replaced by as many lines leaves a screen of the same size.    *)
LEMMA ScreenReplaced ==
  ASSUME TextTyped, NEW top \in 1..Len(screen), NEW bottom \in top..Len(screen),
         NEW rows \in Seq(LineType), Len(rows) = bottom - top + 1
  PROVE  /\ Replaced(screen, top, bottom, rows) \in Seq(LineType)
         /\ Len(Replaced(screen, top, bottom, rows)) = ScreenLines
<1>1. screen \in Seq(LineType) /\ Len(screen) = ScreenLines
  BY DEF TextTyped
<1>2. /\ Replaced(screen, top, bottom, rows) \in Seq(LineType)
      /\ Len(Replaced(screen, top, bottom, rows)) = Len(screen)
  BY <1>1, ReplacedTyped
<1> QED BY <1>1, <1>2

LEMMA UpTyped ==
  ASSUME TextTyped, NEW top \in 1..Len(screen), NEW bottom \in top..Len(screen), Text!Up(top, bottom)
  PROVE  TextTyped'
<1>1. screen \in Seq(LineType) /\ past \in Seq(LineType) /\ Len(past) <= HistoryMax /\ Len(past) \in Nat
  BY LenIsNat DEF TextTyped
<1>2. UpRows(screen, top, bottom) \in Seq(LineType) /\ Len(UpRows(screen, top, bottom)) = bottom - top + 1
  BY <1>1, UpRowsAre
<1>3. screen' \in Seq(LineType) /\ Len(screen') = ScreenLines
  BY <1>2, UpIs, ScreenReplaced
<1>4. CASE top # 1
  BY <1>1, <1>3, <1>4, UpIs DEF TextTyped
<1>5. CASE top = 1 /\ Len(past) < HistoryMax
  <2>1. past' = Append(past, screen[1])
    BY <1>5, UpIs
  <2>2. past' \in Seq(LineType) /\ Len(past') = Len(past) + 1
    BY <2>1, <1>1, FirstLine, Longer
  <2> QED BY <2>2, <1>1, <1>3, <1>5, HistoryMaxAssumption DEF TextTyped
<1>6. CASE top = 1 /\ ~(Len(past) < HistoryMax)
  <2>1. past' = Append(Tail(past), screen[1]) /\ Len(past) = HistoryMax /\ Len(past) >= 1
    BY <1>1, <1>6, UpIs, HistoryMaxAssumption
  <2>2. Tail(past) \in Seq(LineType) /\ Len(Tail(past)) = Len(past) - 1
    BY <2>1, <1>1, Rest
  <2>3. past' \in Seq(LineType) /\ Len(past') = Len(Tail(past)) + 1
    BY <2>1, <2>2, FirstLine, Longer
  <2> QED BY <2>1, <2>2, <2>3, <1>3, HistoryMaxAssumption DEF TextTyped
<1> QED BY <1>4, <1>5, <1>6

LEMMA DownTyped ==
  ASSUME TextTyped, NEW top \in 1..Len(screen), NEW bottom \in top..Len(screen), Text!Down(top, bottom)
  PROVE  TextTyped'
<1>1. screen \in Seq(LineType)
  BY DEF TextTyped
<1>2. DownRows(screen, top, bottom) \in Seq(LineType) /\ Len(DownRows(screen, top, bottom)) = bottom - top + 1
  BY <1>1, DownRowsAre
<1>3. screen' \in Seq(LineType) /\ Len(screen') = ScreenLines
  BY <1>2, DownIs, ScreenReplaced
<1> QED BY <1>3, DownIs DEF TextTyped

LEMMA UnscrollTyped ==
  ASSUME TextTyped, NEW top \in 1..Len(screen), NEW bottom \in top..Len(screen), Text!Unscroll(top, bottom)
  PROVE  TextTyped' /\ Len(past) >= 1 /\ Len(past') = Len(past) - 1
<1>1. screen \in Seq(LineType) /\ past \in Seq(LineType) /\ Len(past) <= HistoryMax /\ Len(past) \in Nat
  BY LenIsNat DEF TextTyped
<1>2. DownRows(screen, top, bottom) \in Seq(LineType) /\ Len(DownRows(screen, top, bottom)) = bottom - top + 1
  BY <1>1, DownRowsAre
<1> DEFINE d == Replaced(screen, top, bottom, DownRows(screen, top, bottom))
<1>3. d \in Seq(LineType) /\ Len(d) = ScreenLines
  BY <1>2, ScreenReplaced
<1>4. screen' = [d EXCEPT ![1] = past[Len(past)]]
  BY UnscrollIs
<1> HIDE DEF d
<1>5. Len(past) >= 1 /\ past[Len(past)] \in LineType
  BY <1>1, UnscrollIs
<1>6. screen' \in Seq(LineType) /\ Len(screen') = ScreenLines
  <2>1. 1 \in 1..Len(d)
    BY <1>3, ScreenLinesAssumption
  <2> DEFINE row == past[Len(past)]
  <2> HIDE DEF row
  <2>2. row \in LineType
    BY <1>5 DEF row
  <2>3. [d EXCEPT ![1] = row] \in Seq(LineType) /\ Len([d EXCEPT ![1] = row]) = Len(d)
    BY <2>1, <2>2, <1>3
  <2> QED BY <2>3, <1>3, <1>4 DEF row
<1>7. past' \in Seq(LineType) /\ Len(past') = Len(past) - 1
  <2> DEFINE n == Len(past) - 1
  <2>1. 1 \in Int /\ n \in Int /\ 1 <= 1 /\ 1 <= n + 1 /\ n <= Len(past) /\ n - 1 + 1 = n
    BY <1>1, <1>5
  <2>2. past' = SubSeq(past, 1, n)
    BY UnscrollIs
  <2> HIDE DEF n
  <2>3. past' \in Seq(LineType) /\ Len(past') = n
    BY <2>1, <2>2, <1>1, Part
  <2> QED BY <2>3 DEF n
<1> QED BY <1>1, <1>5, <1>6, <1>7, HistoryMaxAssumption DEF TextTyped

LEMMA EraseTyped ==
  ASSUME TextTyped, NEW top \in 1..Len(screen), NEW bottom \in top..Len(screen), NEW all \in BOOLEAN,
         Text!Erase(top, bottom, all)
  PROVE  TextTyped'
<1>1. bottom - top + 1 \in Nat
  BY DEF TextTyped
<1>2. /\ [i \in 1..bottom - top + 1 |-> Empty] \in Seq(LineType)
      /\ Len([i \in 1..bottom - top + 1 |-> Empty]) = bottom - top + 1
  BY <1>1, EmptyLines
<1>3. screen' \in Seq(LineType) /\ Len(screen') = ScreenLines
  BY <1>2, EraseIs, ScreenReplaced
<1>4. past' = <<>> \/ past' = past
  BY EraseIs
<1>5. <<>> \in Seq(LineType) /\ Len(<<>>) <= HistoryMax
  BY HistoryMaxAssumption
<1> QED BY <1>3, <1>4, <1>5 DEF TextTyped

LEMMA EditTyped ==
  ASSUME TextTyped, NEW y \in 1..Len(screen), NEW bottom \in y..Len(screen), NEW n \in 1..bottom - y + 1,
         Text!Insert(n, y, bottom) \/ Text!Delete(n, y, bottom)
  PROVE  TextTyped' /\ past' = past
<1>1. screen \in Seq(LineType)
  BY DEF TextTyped
<1>2. CASE Text!Insert(n, y, bottom)
  <2>1. /\ InsertRows(screen, y, bottom, n) \in Seq(LineType)
        /\ Len(InsertRows(screen, y, bottom, n)) = bottom - y + 1
    BY <1>1, InsertRowsAre
  <2>2. screen' \in Seq(LineType) /\ Len(screen') = ScreenLines
    BY <2>1, <1>2, InsertIs, ScreenReplaced
  <2> QED BY <2>2, <1>2, InsertIs DEF TextTyped
<1>3. CASE Text!Delete(n, y, bottom)
  <2>1. /\ DeleteRows(screen, y, bottom, n) \in Seq(LineType)
        /\ Len(DeleteRows(screen, y, bottom, n)) = bottom - y + 1
    BY <1>1, DeleteRowsAre
  <2>2. screen' \in Seq(LineType) /\ Len(screen') = ScreenLines
    BY <2>1, <1>3, DeleteIs, ScreenReplaced
  <2> QED BY <2>2, <1>3, DeleteIs DEF TextTyped
<1> QED BY <1>2, <1>3

LEMMA SelectionTyped ==
  ASSUME SelTyped, SelectionUp \/ SelectionDown \/ ClearSelection \/ UNCHANGED sel
  PROVE  SelTyped'
<1>1. sel.on \in BOOLEAN /\ sel.y \in Lines /\ sel.by \in Int /\ sel = [on |-> sel.on, y |-> sel.y, by |-> sel.by]
  BY DEF SelTyped
<1>2. CASE SelectionUp
  <2>1. sel.by + 1 \in Int /\ (sel.y # 0 => sel.y - 1 \in Lines)
    BY <1>1, ScreenLinesAssumption DEF Lines
  <2> QED BY <2>1, <1>1, <1>2 DEF SelectionUp, SelTyped
<1>3. CASE SelectionDown
  <2>1. sel.by - 1 \in Int /\ (~(sel.y >= ScreenLines - 1) => sel.y + 1 \in Lines)
    BY <1>1, ScreenLinesAssumption DEF Lines
  <2> QED BY <2>1, <1>1, <1>3 DEF SelectionDown, SelTyped
<1>4. CASE ClearSelection
  BY <1>4, ScreenLinesAssumption DEF ClearSelection, SelTyped, Nowhere, Lines
<1> QED BY <1>2, <1>3, <1>4 DEF SelTyped

LEMMA NowhereTyped == Nowhere \in [on : BOOLEAN, y : Lines, by : Int] /\ Nowhere \in [on : BOOLEAN, y : Lines, by : Nat]
  BY ScreenLinesAssumption DEF Nowhere, Lines

LEMMA VisitedMoved ==
  ASSUME VisitedTyped, NEW n \in Nat
  PROVE  /\ VisitedDown \in [on : BOOLEAN, y : Lines, by : Nat]
         /\ VisitedUp(n) \in [on : BOOLEAN, y : Lines, by : Nat]
<1>1. /\ visited.on \in BOOLEAN /\ visited.y \in Lines /\ visited.by \in Nat
      /\ visited = [on |-> visited.on, y |-> visited.y, by |-> visited.by]
  BY DEF VisitedTyped
<1>2. /\ visited.by > 0 => visited.by - 1 \in Nat
      /\ visited.y < ScreenLines - 1 => visited.y + 1 \in Lines
      /\ visited.by + 1 \in Nat
  BY <1>1, ScreenLinesAssumption DEF Lines
<1>3. VisitedDown \in [on : BOOLEAN, y : Lines, by : Nat]
  BY <1>1, <1>2 DEF VisitedDown
<1>4. VisitedUp(n) \in [on : BOOLEAN, y : Lines, by : Nat]
  BY <1>1, <1>2 DEF VisitedUp
<1> QED BY <1>3, <1>4

-----------------------------------------------------------------------------
LEMMA InitTyped == SbInit => SbTypeOK
<1> SUFFICES ASSUME SbInit
             PROVE  SbTypeOK
  OBVIOUS
<1>1. screen = [i \in 1..ScreenLines |-> Empty] /\ past = <<>>
  BY DEF SbInit, Text!Init, Text!Blanks
<1>2. TextTyped
  <2>1. ScreenLines \in Nat
    BY ScreenLinesAssumption
  <2>2. screen \in Seq(LineType) /\ Len(screen) = ScreenLines
    BY <2>1, <1>1, EmptyLines
  <2>3. <<>> \in Seq(LineType) /\ Len(<<>>) <= HistoryMax
    BY HistoryMaxAssumption
  <2> QED BY <1>1, <2>2, <2>3 DEF TextTyped
<1>3. MarginTyped
  <2>1. 0 \in Lines /\ ScreenLines - 1 \in Lines /\ 0 <= ScreenLines - 1
    BY ScreenLinesAssumption DEF Lines
  <2> QED BY <2>1 DEF SbInit, MarginTyped, AllLines
<1>4. ViewTyped
  BY DEF SbInit, ViewTyped
<1>5. VisitedTyped /\ SelTyped
  BY NowhereTyped DEF SbInit, VisitedTyped, SelTyped
<1> QED BY <1>2, <1>3, <1>4, <1>5 DEF SbTypeOK

LEMMA WriteTyped ==
  ASSUME SbTypeOK, Write
  PROVE  SbTypeOK'
<1>1. PICK y \in 1..ScreenLines, mark \in BOOLEAN :
        /\ drawn' = drawn + 1
        /\ Text!Change(y, [text |-> drawn + 1, mark |-> mark \/ screen[y].mark])
        /\ sel' = Nowhere \/ sel' = sel
        /\ UNCHANGED <<margin, scrolled, added, visited>>
  BY DEF Write
<1> DEFINE row == [text |-> drawn + 1, mark |-> mark \/ screen[y].mark]
<1>2. screen \in Seq(LineType) /\ Len(screen) = ScreenLines /\ y \in 1..Len(screen)
  BY DEF SbTypeOK, TextTyped
<1>3. row \in LineType
  BY <1>2 DEF SbTypeOK, ViewTyped, LineType
<1>4. screen' = [screen EXCEPT ![y] = row] /\ past' = past
  BY <1>1 DEF Text!Change
<1> HIDE DEF row
<1>5. screen' \in Seq(LineType) /\ Len(screen') = ScreenLines
  BY <1>2, <1>3, <1>4
<1>6. TextTyped'
  BY <1>4, <1>5 DEF SbTypeOK, TextTyped
<1>7. ViewTyped' /\ MarginTyped' /\ VisitedTyped'
  BY <1>1 DEF SbTypeOK, ViewTyped, MarginTyped, VisitedTyped
<1>8. SelTyped'
  BY <1>1, NowhereTyped DEF SbTypeOK, SelTyped
<1> QED BY <1>6, <1>7, <1>8 DEF SbTypeOK

LEMMA IndexUpTyped ==
  ASSUME SbTypeOK, IndexUpOne
  PROVE  SbTypeOK'
<1>1. TextTyped'
  <2>1. TextTyped /\ MarginTyped
    BY DEF SbTypeOK
  <2>2. Text!Up(margin.top + 1, margin.bottom + 1)
    BY DEF IndexUpOne
  <2> QED BY <2>1, <2>2, RegionTyped, UpTyped
<1>2. ViewTyped'
  BY DEF IndexUpOne, SbTypeOK, ViewTyped
<1>3. VisitedTyped'
  <2>1. Len(past') \in Nat
    BY <1>1, LenIsNat DEF TextTyped
  <2>2. visited' = visited \/ visited' = VisitedUp(Len(past'))
    BY DEF IndexUpOne
  <2> QED BY <2>1, <2>2, VisitedMoved DEF SbTypeOK, VisitedTyped
<1>4. SelTyped'
  BY SelectionTyped DEF IndexUpOne, SbTypeOK
<1>5. MarginTyped'
  BY DEF IndexUpOne, SbTypeOK, MarginTyped
<1> QED BY <1>1, <1>2, <1>3, <1>4, <1>5 DEF SbTypeOK

LEMMA IndexDownTyped ==
  ASSUME SbTypeOK, IndexDownOne
  PROVE  SbTypeOK'
<1>1. TextTyped'
  <2>1. TextTyped /\ MarginTyped
    BY DEF SbTypeOK
  <2>2. Text!Down(margin.top + 1, margin.bottom + 1) \/ Text!Unscroll(margin.top + 1, margin.bottom + 1)
    BY DEF IndexDownOne
  <2> QED BY <2>1, <2>2, RegionTyped, DownTyped, UnscrollTyped
<1>2. ViewTyped' /\ MarginTyped'
  BY DEF IndexDownOne, SbTypeOK, ViewTyped, MarginTyped
<1>3. VisitedTyped'
  <2>1. visited' = VisitedDown /\ 0 \in Nat
    BY DEF IndexDownOne
  <2> QED BY <2>1, VisitedMoved DEF SbTypeOK, VisitedTyped
<1>4. SelTyped'
  BY SelectionTyped DEF IndexDownOne, SbTypeOK
<1> QED BY <1>1, <1>2, <1>3, <1>4 DEF SbTypeOK

LEMMA EditLinesTyped ==
  ASSUME SbTypeOK, EditLinesAt
  PROVE  SbTypeOK' /\ past' = past
<1>1. PICK y \in margin.top + 1..margin.bottom + 1 : \E n \in 1..margin.bottom + 2 - y :
        Text!Insert(n, y, margin.bottom + 1) \/ Text!Delete(n, y, margin.bottom + 1)
  BY DEF EditLinesAt
<1>2. PICK n \in 1..margin.bottom + 2 - y :
        Text!Insert(n, y, margin.bottom + 1) \/ Text!Delete(n, y, margin.bottom + 1)
  BY <1>1
<1>3. TextTyped /\ MarginTyped
  BY DEF SbTypeOK
<1>4. /\ margin.top \in Int /\ margin.bottom \in Int
      /\ margin.top + 1 \in 1..Len(screen) /\ margin.bottom + 1 \in margin.top + 1..Len(screen)
  BY <1>3, RegionTyped
<1> DEFINE top == margin.top
           last == margin.bottom + 1
<1>5. y \in 1..Len(screen) /\ last \in y..Len(screen) /\ n \in 1..last - y + 1
  <2> DEFINE bottom == margin.bottom
             len == Len(screen)
  <2>1. top \in Int /\ bottom \in Int /\ top + 1 \in 1..len /\ bottom + 1 \in top + 1..len
        /\ y \in top + 1..bottom + 1 /\ n \in 1..bottom + 2 - y /\ len \in Int
    BY <1>3, <1>4, LenIsNat DEF TextTyped
  <2> HIDE DEF top, bottom, len
  <2>2. y \in Int /\ y <= bottom + 1 /\ top + 1 <= y /\ bottom + 1 <= len /\ 1 <= top + 1
    BY <2>1
  <2>3. y \in 1..len /\ bottom + 1 \in y..len
    BY <2>1, <2>2
  <2>4. n \in 1..(bottom + 1) - y + 1
    BY <2>1, <2>2
  <2> QED BY <2>3, <2>4 DEF bottom, len
<1> HIDE DEF last
<1>6. TextTyped' /\ past' = past
  <2>1. Text!Insert(n, y, last) \/ Text!Delete(n, y, last)
    BY <1>2 DEF last
  <2> QED BY <2>1, <1>3, <1>5, EditTyped
<1>7. ViewTyped' /\ MarginTyped' /\ VisitedTyped'
  BY DEF EditLinesAt, SbTypeOK, ViewTyped, MarginTyped, VisitedTyped
<1>8. SelTyped'
  BY SelectionTyped DEF EditLinesAt, SbTypeOK
<1> QED BY <1>6, <1>7, <1>8 DEF SbTypeOK

LEMMA EraseDisplayTyped ==
  ASSUME SbTypeOK, EraseDisplay
  PROVE  SbTypeOK' /\ (past' = past \/ past' = <<>>)
<1>1. PICK top \in 1..ScreenLines, bottom \in 1..ScreenLines, all \in BOOLEAN :
        /\ top = 1 \/ bottom = ScreenLines
        /\ Text!Erase(top, bottom, all)
        /\ sel' = sel \/ sel' = Nowhere
        /\ scrolled' = IF all THEN 0 ELSE scrolled
        /\ UNCHANGED <<margin, added, visited, drawn>>
  BY DEF EraseDisplay
<1>2. TextTyped /\ Len(screen) = ScreenLines
  BY DEF SbTypeOK, TextTyped
<1>3. top \in 1..Len(screen) /\ bottom \in top..Len(screen)
  BY <1>1, <1>2, ScreenLinesAssumption
<1>4. TextTyped' /\ (past' = past \/ past' = <<>>)
  BY <1>1, <1>2, <1>3, EraseTyped, EraseIs
<1>5. ViewTyped' /\ MarginTyped' /\ VisitedTyped'
  BY <1>1 DEF SbTypeOK, ViewTyped, MarginTyped, VisitedTyped
<1>6. SelTyped'
  BY <1>1, NowhereTyped DEF SbTypeOK, SelTyped
<1> QED BY <1>4, <1>5, <1>6 DEF SbTypeOK

LEMMA ResetTyped ==
  ASSUME SbTypeOK, ResetScreen
  PROVE  SbTypeOK' /\ past' = <<>>
<1>1. TextTyped /\ Len(screen) = ScreenLines
  BY DEF SbTypeOK, TextTyped
<1>2. 1 \in 1..Len(screen) /\ ScreenLines \in 1..Len(screen)
  BY <1>1, ScreenLinesAssumption
<1>3. Text!Erase(1, ScreenLines, TRUE)
  BY DEF ResetScreen
<1>4. TextTyped' /\ past' = <<>>
  BY <1>1, <1>2, <1>3, EraseTyped, EraseIs
<1>5. MarginTyped'
  <2>1. 0 \in Lines /\ ScreenLines - 1 \in Lines /\ 0 <= ScreenLines - 1
    BY ScreenLinesAssumption DEF Lines
  <2> QED BY <2>1 DEF ResetScreen, MarginTyped, AllLines
<1>6. ViewTyped' /\ VisitedTyped'
  BY DEF ResetScreen, SbTypeOK, ViewTyped, VisitedTyped
<1>7. SelTyped'
  BY SelectionTyped DEF ResetScreen, SbTypeOK
<1> QED BY <1>4, <1>5, <1>6, <1>7 DEF SbTypeOK

(* The actions that only move the view or what is followed.                *)
LEMMA FollowTyped ==
  ASSUME SbTypeOK,
         \/ SetMargin \/ HistoryScroll \/ ScrollToPrompt \/ ScrollToVisited \/ Visit \/ Select
         \/ UpdateCellData \/ UNCHANGED sbvars
  PROVE  SbTypeOK' /\ UNCHANGED <<screen, past>>
<1> USE DEF SbTypeOK
<1>1. UNCHANGED <<screen, past>>
  BY DEF SetMargin, HistoryScroll, ScrollToPrompt, ScrollToVisited, Visit, Select, UpdateCellData, sbvars
<1>2. TextTyped'
  BY <1>1 DEF TextTyped
<1>3. Len(past) \in Nat
  BY LenIsNat DEF TextTyped
<1>4. CASE SetMargin
  <2>1. PICK top \in Lines, bottom \in Lines : top < bottom /\ margin' = [top |-> top, bottom |-> bottom]
    BY <1>4 DEF SetMargin, Lines
  <2>2. MarginTyped'
    BY <2>1, ScreenLinesAssumption DEF MarginTyped, Lines
  <2> QED BY <2>2, <1>1, <1>2, <1>4 DEF SetMargin, ViewTyped, VisitedTyped, SelTyped
<1>5. CASE HistoryScroll
  <2>1. scrolled' \in Nat
    BY <1>3, <1>5 DEF HistoryScroll
  <2> QED BY <2>1, <1>1, <1>2, <1>5 DEF HistoryScroll, ViewTyped, MarginTyped, VisitedTyped, SelTyped
<1>6. CASE ScrollToPrompt
  <2>1. PICK y \in -Len(past)..ScreenLines - 1 :
          /\ scrolled' = IF y >= 0 THEN 0 ELSE -y
          /\ visited' = [on |-> TRUE, y |-> 0, by |-> scrolled']
    BY <1>6 DEF ScrollToPrompt
  <2>2. scrolled' \in Nat
    BY <2>1, <1>3
  <2>3. VisitedTyped'
    BY <2>1, <2>2, ScreenLinesAssumption DEF VisitedTyped, Lines
  <2> QED BY <2>2, <2>3, <1>1, <1>2, <1>6 DEF ScrollToPrompt, ViewTyped, MarginTyped, SelTyped
<1>7. CASE ScrollToVisited
  <2>1. scrolled' \in Nat
    BY <1>7 DEF ScrollToVisited, VisitedTyped
  <2> QED BY <2>1, <1>1, <1>2, <1>7 DEF ScrollToVisited, ViewTyped, MarginTyped, VisitedTyped, SelTyped
<1>8. CASE Visit
  <2>1. VisitedTyped'
    BY <1>8 DEF Visit, VisitedTyped, ViewTyped, Lines
  <2> QED BY <2>1, <1>1, <1>2, <1>8 DEF Visit, ViewTyped, MarginTyped, SelTyped
<1>9. CASE Select
  <2>1. SelTyped'
    BY <1>9 DEF Select, SelTyped, ViewTyped, Lines
  <2> QED BY <2>1, <1>1, <1>2, <1>9 DEF Select, ViewTyped, MarginTyped, VisitedTyped
<1>10. CASE UpdateCellData
  <2>1. scrolled' \in Nat /\ added' \in Nat
    BY <1>3, <1>10 DEF UpdateCellData, ScrolledBy, Fewer, ViewTyped
  <2> QED BY <2>1, <1>1, <1>2, <1>10 DEF UpdateCellData, ViewTyped, MarginTyped, VisitedTyped, SelTyped
<1>11. CASE UNCHANGED sbvars
  BY <1>1, <1>2, <1>11 DEF sbvars, ViewTyped, MarginTyped, VisitedTyped, SelTyped
<1> QED BY <1>1, <1>4, <1>5, <1>6, <1>7, <1>8, <1>9, <1>10, <1>11

LEMMA NextTyped == SbTypeOK /\ [SbNext]_sbvars => SbTypeOK'
  BY WriteTyped, IndexUpTyped, IndexDownTyped, EditLinesTyped, EraseDisplayTyped, ResetTyped, FollowTyped
     DEF SbNext

LEMMA ScrollbackTyped == SbSpec => []SbTypeOK
  BY InitTyped, NextTyped, PTL DEF SbSpec

-----------------------------------------------------------------------------
(* The line at a position of a history and a screen, and where it is after *)
(* a step.                                                                 *)
Shown(h, s, p) == (h \o s)[Len(h) + p + 1]

LEMMA ShownIs ==
  ASSUME NEW h \in Seq(LineType), NEW s \in Seq(LineType)
  PROVE  /\ \A p \in -Len(h)..-1 : Shown(h, s, p) = h[Len(h) + p + 1]
         /\ \A p \in 0..Len(s) - 1 : Shown(h, s, p) = s[p + 1]
<1>1. Len(h) \in Nat /\ Len(s) \in Nat
  BY LenIsNat
<1>2. ASSUME NEW p \in -Len(h)..-1
      PROVE  Shown(h, s, p) = h[Len(h) + p + 1]
  <2>1. Len(h) + p + 1 \in 1..Len(h)
    BY <1>1
  <2> QED BY <2>1, Joined DEF Shown
<1>3. ASSUME NEW p \in 0..Len(s) - 1
      PROVE  Shown(h, s, p) = s[p + 1]
  <2>1. Len(h) + p + 1 \in Len(h) + 1..Len(h) + Len(s) /\ Len(h) + p + 1 - Len(h) = p + 1
    BY <1>1
  <2> QED BY <2>1, Joined DEF Shown
<1> QED BY <1>2, <1>3

(* A line enters the history, which drops its oldest one when it is full.  *)
WithLine(h, row) == IF Len(h) < HistoryMax THEN Append(h, row) ELSE Append(Tail(h), row)

LEMMA PastGoesUp ==
  ASSUME NEW h \in Seq(LineType), Len(h) <= HistoryMax, NEW row \in LineType
  PROVE  /\ WithLine(h, row) \in Seq(LineType)
         /\ Len(WithLine(h, row)) = Fewer(Len(h) + 1, HistoryMax)
         /\ WithLine(h, row)[Len(WithLine(h, row))] = row
         /\ \A p \in -Len(h)..-1 : p - 1 >= -Len(WithLine(h, row))
              => WithLine(h, row)[Len(WithLine(h, row)) + (p - 1) + 1] = h[Len(h) + p + 1]
<1>1. Len(h) \in Nat
  BY LenIsNat
<1>2. CASE Len(h) < HistoryMax
  <2> DEFINE g == Append(h, row)
  <2>1. g \in Seq(LineType) /\ Len(g) = Len(h) + 1 /\ (\A i \in 1..Len(h) : g[i] = h[i]) /\ g[Len(h) + 1] = row
    BY Longer
  <2> HIDE DEF g
  <2>2. ASSUME NEW p \in -Len(h)..-1
        PROVE  g[Len(g) + (p - 1) + 1] = h[Len(h) + p + 1]
    <3>1. Len(g) + (p - 1) + 1 = Len(h) + p + 1 /\ Len(h) + p + 1 \in 1..Len(h)
      BY <1>1, <2>1
    <3> QED BY <3>1, <2>1
  <2>3. WithLine(h, row) = g
    BY <1>2 DEF g, WithLine
  <2>4. Fewer(Len(h) + 1, HistoryMax) = Len(h) + 1
    BY <1>1, <1>2, HistoryMaxAssumption DEF Fewer
  <2> QED BY <2>1, <2>2, <2>3, <2>4
<1>3. CASE ~(Len(h) < HistoryMax)
  <2> DEFINE t == Tail(h)
             g == Append(t, row)
  <2>1. Len(h) = HistoryMax /\ Len(h) >= 1
    BY <1>1, <1>3, HistoryMaxAssumption
  <2>2. t \in Seq(LineType) /\ Len(t) = Len(h) - 1 /\ \A i \in 1..Len(h) - 1 : t[i] = h[i + 1]
    BY <2>1, Rest
  <2> HIDE DEF t
  <2>3. g \in Seq(LineType) /\ Len(g) = Len(t) + 1 /\ (\A i \in 1..Len(t) : g[i] = t[i]) /\ g[Len(t) + 1] = row
    BY <2>2, Longer
  <2> HIDE DEF g
  <2>4. Len(g) = Len(h)
    BY <1>1, <2>2, <2>3
  <2>5. ASSUME NEW p \in -Len(h)..-1, p - 1 >= -Len(g)
        PROVE  g[Len(g) + (p - 1) + 1] = h[Len(h) + p + 1]
    <3>1. /\ Len(g) + (p - 1) + 1 = Len(h) + p
          /\ Len(h) + p \in 1..Len(h) - 1 /\ Len(h) + p \in 1..Len(t)
      BY <1>1, <2>2, <2>4, <2>5
    <3>2. g[Len(h) + p] = t[Len(h) + p] /\ t[Len(h) + p] = h[(Len(h) + p) + 1]
      BY <3>1, <2>2, <2>3
    <3> QED BY <3>1, <3>2
  <2>6. WithLine(h, row) = g
    BY <1>3 DEF g, t, WithLine
  <2>7. Fewer(Len(h) + 1, HistoryMax) = Len(h)
    BY <1>1, <2>1, HistoryMaxAssumption DEF Fewer
  <2>8. g[Len(g)] = row
    BY <2>3
  <2> QED BY <2>3, <2>4, <2>5, <2>6, <2>7, <2>8
<1> QED BY <1>2, <1>3

(* The whole screen up: position p goes to p - 1.                          *)
LEMMA ShownUp ==
  ASSUME NEW h \in Seq(LineType), Len(h) <= HistoryMax,
         NEW s \in Seq(LineType), Len(s) = ScreenLines,
         NEW s2 \in Seq(LineType), Len(s2) = ScreenLines,
         \A i \in 1..ScreenLines - 1 : s2[i] = s[i + 1],
         NEW p \in Int, -Len(h) <= p, p < ScreenLines, p - 1 >= -Len(WithLine(h, s[1]))
  PROVE  Shown(WithLine(h, s[1]), s2, p - 1) = Shown(h, s, p)
<1> DEFINE h2 == WithLine(h, s[1])
<1> SUFFICES Shown(h2, s2, p - 1) = Shown(h, s, p)
  OBVIOUS
<1>1. s[1] \in LineType
  BY ScreenLinesAssumption
<1>2. /\ h2 \in Seq(LineType) /\ h2[Len(h2)] = s[1] /\ Len(h2) = Fewer(Len(h) + 1, HistoryMax)
      /\ \A q \in -Len(h)..-1 : q - 1 >= -Len(h2) => h2[Len(h2) + (q - 1) + 1] = h[Len(h) + q + 1]
  BY <1>1, PastGoesUp
<1>3. Len(h) \in Nat /\ Len(h2) \in Nat /\ ScreenLines \in Nat /\ p - 1 >= -Len(h2)
  BY <1>2, LenIsNat, ScreenLinesAssumption
<1> HIDE DEF h2
<1>4. CASE p >= 1
  <2>1. p - 1 \in 0..Len(s2) - 1 /\ p \in 0..Len(s) - 1 /\ p \in 1..ScreenLines - 1 /\ (p - 1) + 1 = p
    BY <1>3, <1>4
  <2>2. Shown(h2, s2, p - 1) = s2[(p - 1) + 1] /\ Shown(h, s, p) = s[p + 1]
    BY <2>1, <1>2, ShownIs
  <2> QED BY <2>1, <2>2
<1>5. CASE p = 0
  <2>1. p - 1 \in -Len(h2)..-1 /\ p \in 0..Len(s) - 1 /\ Len(h2) + (p - 1) + 1 = Len(h2) /\ p + 1 = 1
    BY <1>3, <1>5
  <2>2. Shown(h2, s2, p - 1) = h2[Len(h2) + (p - 1) + 1] /\ Shown(h, s, p) = s[p + 1]
    BY <2>1, <1>2, ShownIs
  <2> QED BY <2>1, <2>2, <1>2
<1>6. CASE p < 0
  <2>1. p - 1 \in -Len(h2)..-1 /\ p \in -Len(h)..-1
    BY <1>3, <1>6
  <2>2. Shown(h2, s2, p - 1) = h2[Len(h2) + (p - 1) + 1] /\ Shown(h, s, p) = h[Len(h) + p + 1]
    BY <2>1, <1>2, ShownIs
  <2> QED BY <2>1, <2>2, <1>2
<1> QED BY <1>4, <1>5, <1>6

(* Down with the history left alone: a line of the screen goes to p + 1.   *)
LEMMA ShownDown ==
  ASSUME NEW h \in Seq(LineType), NEW s \in Seq(LineType), Len(s) = ScreenLines,
         NEW s2 \in Seq(LineType), Len(s2) = ScreenLines,
         \A i \in 2..ScreenLines : s2[i] = s[i - 1],
         NEW p \in Int, 0 <= p, p + 1 < ScreenLines
  PROVE  Shown(h, s2, p + 1) = Shown(h, s, p)
<1>1. /\ p \in 0..Len(s) - 1 /\ p + 1 \in 0..Len(s2) - 1
      /\ (p + 1) + 1 \in 2..ScreenLines /\ (p + 1) + 1 - 1 = p + 1
  BY ScreenLinesAssumption
<1>2. Shown(h, s, p) = s[p + 1] /\ Shown(h, s2, p + 1) = s2[(p + 1) + 1]
  BY <1>1, ShownIs
<1> QED BY <1>1, <1>2

(* The history without its newest line.                                    *)
Older(h) == SubSeq(h, 1, Len(h) - 1)

(* Down with the newest line of the history: any position goes to p + 1.   *)
LEMMA ShownUnscrolled ==
  ASSUME NEW h \in Seq(LineType), Len(h) >= 1, NEW s \in Seq(LineType), Len(s) = ScreenLines,
         NEW s2 \in Seq(LineType), Len(s2) = ScreenLines,
         s2[1] = h[Len(h)], \A i \in 2..ScreenLines : s2[i] = s[i - 1],
         NEW p \in Int, -Len(h) <= p, p + 1 < ScreenLines
  PROVE  Shown(Older(h), s2, p + 1) = Shown(h, s, p)
<1> DEFINE h2 == Older(h)
<1> SUFFICES Shown(h2, s2, p + 1) = Shown(h, s, p)
  OBVIOUS
<1>1. Len(h) \in Nat /\ ScreenLines \in Nat \ {0}
  BY LenIsNat, ScreenLinesAssumption
<1>2. h2 \in Seq(LineType) /\ Len(h2) = Len(h) - 1 /\ \A i \in 1..Len(h) - 1 : h2[i] = h[i]
  <2> DEFINE n == Len(h) - 1
  <2>1. 1 \in Int /\ n \in Int /\ 1 <= 1 /\ 1 <= n + 1 /\ n <= Len(h) /\ n - 1 + 1 = n
    BY <1>1
  <2>2. h2 = SubSeq(h, 1, n)
    BY DEF Older
  <2> HIDE DEF n
  <2>3. /\ h2 \in Seq(LineType) /\ Len(h2) = n - 1 + 1
        /\ \A i \in 1..n - 1 + 1 : h2[i] = h[1 + i - 1]
    BY <2>1, <2>2, Part
  <2>4. \A i \in 1..n : 1 + i - 1 = i
    BY <2>1
  <2> QED BY <2>1, <2>3, <2>4 DEF n
<1> HIDE DEF h2
<1>3. CASE p >= 0
  <2>1. /\ p \in 0..Len(s) - 1 /\ p + 1 \in 0..Len(s2) - 1
        /\ (p + 1) + 1 \in 2..ScreenLines /\ (p + 1) + 1 - 1 = p + 1
    BY <1>1, <1>3
  <2>2. Shown(h, s, p) = s[p + 1] /\ Shown(h2, s2, p + 1) = s2[(p + 1) + 1]
    BY <2>1, <1>2, ShownIs
  <2> QED BY <2>1, <2>2
<1>4. CASE p = -1
  <2>1. /\ p \in -Len(h)..-1 /\ p + 1 \in 0..Len(s2) - 1
        /\ Len(h) + p + 1 = Len(h) /\ (p + 1) + 1 = 1
    BY <1>1, <1>4
  <2>2. Shown(h, s, p) = h[Len(h) + p + 1] /\ Shown(h2, s2, p + 1) = s2[(p + 1) + 1]
    BY <2>1, <1>2, ShownIs
  <2> QED BY <2>1, <2>2
<1>5. CASE p < -1
  <2>1. /\ p \in -Len(h)..-1 /\ p + 1 \in -Len(h2)..-1
        /\ Len(h2) + (p + 1) + 1 = Len(h) + p + 1 /\ Len(h) + p + 1 \in 1..Len(h) - 1
    BY <1>1, <1>2, <1>5
  <2>2. Shown(h, s, p) = h[Len(h) + p + 1] /\ Shown(h2, s2, p + 1) = h2[Len(h2) + (p + 1) + 1]
    BY <2>1, <1>2, ShownIs
  <2> QED BY <2>1, <2>2, <1>2
<1> QED BY <1>3, <1>4, <1>5

-----------------------------------------------------------------------------
(* A step of the whole screen, in terms of positions.                      *)
LEMMA NoMargins ==
  ASSUME SbTypeOK, margin = AllLines
  PROVE  /\ margin.top = 0 /\ margin.top + 1 = 1 /\ margin.bottom + 1 = Len(screen)
         /\ 1 \in 1..Len(screen) /\ Len(screen) \in 1..Len(screen)
         /\ screen \in Seq(LineType) /\ Len(screen) = ScreenLines
         /\ past \in Seq(LineType) /\ Len(past) <= HistoryMax
  BY ScreenLinesAssumption DEF SbTypeOK, TextTyped, AllLines

LEMMA AllGoUp ==
  ASSUME SbTypeOK, SbTypeOK', margin = AllLines, IndexUpOne,
         NEW p \in Int, -Len(past) <= p, p < ScreenLines, p - 1 >= -Len(past')
  PROVE  Shown(past', screen', p - 1) = Shown(past, screen, p)
<1>1. Text!Up(1, Len(screen))
  BY NoMargins DEF IndexUpOne
<1>2. /\ UpRows(screen, 1, Len(screen)) \in Seq(LineType)
      /\ Len(UpRows(screen, 1, Len(screen))) = Len(screen) - 1 + 1
      /\ \A i \in 1..Len(screen) - 1 : UpRows(screen, 1, Len(screen))[i] = screen[1 + i]
  BY NoMargins, UpRowsAre
<1>3. Len(screen) - 1 + 1 = Len(screen)
  BY NoMargins, LenIsNat
<1>4. screen' = UpRows(screen, 1, Len(screen))
  BY <1>1, <1>2, <1>3, NoMargins, UpIs, AllReplaced
<1>5. \A i \in 1..ScreenLines - 1 : screen'[i] = screen[i + 1]
  <2>1. \A i \in 1..ScreenLines - 1 : 1 + i = i + 1
    OBVIOUS
  <2> QED BY <2>1, <1>2, <1>4, NoMargins
<1>6. past' = WithLine(past, screen[1])
  BY <1>1, UpIs DEF WithLine
<1>7. screen' \in Seq(LineType) /\ Len(screen') = ScreenLines
  BY DEF SbTypeOK, TextTyped
<1>8. /\ past \in Seq(LineType) /\ Len(past) <= HistoryMax
      /\ screen \in Seq(LineType) /\ Len(screen) = ScreenLines
  BY NoMargins
<1> QED BY <1>5, <1>6, <1>7, <1>8, ShownUp

LEMMA DownMoves ==
  ASSUME SbTypeOK, margin = AllLines
  PROVE  LET d == Replaced(screen, 1, Len(screen), DownRows(screen, 1, Len(screen)))
         IN  /\ d \in Seq(LineType) /\ Len(d) = ScreenLines
             /\ \A i \in 2..ScreenLines : d[i] = screen[i - 1]
<1>1. /\ DownRows(screen, 1, Len(screen)) \in Seq(LineType)
      /\ Len(DownRows(screen, 1, Len(screen))) = Len(screen) - 1 + 1
      /\ \A i \in 2..Len(screen) - 1 + 1 : DownRows(screen, 1, Len(screen))[i] = screen[1 + i - 2]
  BY NoMargins, DownRowsAre
<1>2. Len(screen) - 1 + 1 = Len(screen)
  BY NoMargins, LenIsNat
<1>3. Replaced(screen, 1, Len(screen), DownRows(screen, 1, Len(screen))) = DownRows(screen, 1, Len(screen))
  BY <1>1, <1>2, NoMargins, AllReplaced
<1>4. \A i \in 2..ScreenLines : 1 + i - 2 = i - 1
  OBVIOUS
<1> QED BY <1>1, <1>2, <1>3, <1>4, NoMargins

LEMMA AllGoDown ==
  ASSUME SbTypeOK, SbTypeOK', margin = AllLines, IndexDownOne,
         NEW p \in Int, -Len(past) <= p, p + 1 < ScreenLines, past' = past => 0 <= p
  PROVE  Shown(past', screen', p + 1) = Shown(past, screen, p)
<1> DEFINE d == Replaced(screen, 1, Len(screen), DownRows(screen, 1, Len(screen)))
<1>1. d \in Seq(LineType) /\ Len(d) = ScreenLines /\ \A i \in 2..ScreenLines : d[i] = screen[i - 1]
  BY DownMoves
<1>2. screen' \in Seq(LineType) /\ Len(screen') = ScreenLines
  BY DEF SbTypeOK, TextTyped
<1>3. Text!Down(1, Len(screen)) \/ Text!Unscroll(1, Len(screen))
  BY NoMargins DEF IndexDownOne
<1>4. CASE Text!Down(1, Len(screen))
  <2>1. screen' = d /\ past' = past
    BY <1>4, DownIs
  <2> HIDE DEF d
  <2> QED BY <2>1, <1>1, <1>2, NoMargins, ShownDown
<1>5. CASE Text!Unscroll(1, Len(screen))
  <2>1. screen' = [d EXCEPT ![1] = past[Len(past)]] /\ past' = SubSeq(past, 1, Len(past) - 1)
    BY <1>5, UnscrollIs
  <2> HIDE DEF d
  <2>2. Len(past) >= 1
    <3>1. TextTyped
      BY DEF SbTypeOK
    <3> QED BY <3>1, <1>5, NoMargins, UnscrollTyped
  <2>3. screen'[1] = past[Len(past)] /\ \A i \in 2..ScreenLines : screen'[i] = screen[i - 1]
    <3> DEFINE row == past[Len(past)]
    <3>1. screen' = [d EXCEPT ![1] = row]
      BY <2>1
    <3> HIDE DEF row
    <3>2. DOMAIN d = 1..ScreenLines /\ 1 \in 1..ScreenLines /\ 2..ScreenLines \subseteq (1..ScreenLines) \ {1}
      BY <1>1, ScreenLinesAssumption
    <3>3. [d EXCEPT ![1] = row][1] = row /\ \A i \in 2..ScreenLines : [d EXCEPT ![1] = row][i] = d[i]
      BY <3>2
    <3> QED BY <3>1, <3>3, <1>1 DEF row
  <2>4. past \in Seq(LineType) /\ screen \in Seq(LineType) /\ Len(screen) = ScreenLines
    BY NoMargins
  <2>5. past' = Older(past)
    BY <2>1 DEF Older
  <2> QED BY <2>2, <2>3, <2>4, <2>5, <1>2, ShownUnscrolled
<1> QED BY <1>3, <1>4, <1>5

(* What is followed moves by as much.                                      *)
LEMMA SelectionMoves ==
  ASSUME SelTyped, sel.on
  PROVE  /\ SelectionUp => sel'.y - sel'.by = (sel.y - sel.by) - 1
         /\ SelectionDown => sel'.y - sel'.by = (sel.y - sel.by) + 1
<1>1. sel.y \in Int /\ sel.by \in Int /\ sel = [on |-> sel.on, y |-> sel.y, by |-> sel.by]
  BY ScreenLinesAssumption DEF SelTyped, Lines
<1>2. ASSUME SelectionUp
      PROVE  sel'.y - sel'.by = (sel.y - sel.by) - 1
  <2>1. (sel'.y = sel.y /\ sel'.by = sel.by + 1) \/ (sel'.y = sel.y - 1 /\ sel'.by = sel.by)
    BY <1>1, <1>2 DEF SelectionUp
  <2> QED BY <2>1, <1>1
<1>3. ASSUME SelectionDown
      PROVE  sel'.y - sel'.by = (sel.y - sel.by) + 1
  <2>1. (sel'.y = sel.y /\ sel'.by = sel.by - 1) \/ (sel'.y = sel.y + 1 /\ sel'.by = sel.by)
    BY <1>1, <1>3 DEF SelectionDown
  <2> QED BY <2>1, <1>1
<1> QED BY <1>2, <1>3

LEMMA VisitedMoves ==
  ASSUME VisitedTyped, visited.on
  PROVE  /\ \A n \in Nat : VisitedUp(n).on =>
              VisitedUp(n).y - VisitedUp(n).by = (visited.y - visited.by) - 1
         /\ VisitedDown.on => VisitedDown.y - VisitedDown.by = (visited.y - visited.by) + 1
<1>1. /\ visited.y \in Int /\ visited.by \in Int
      /\ visited = [on |-> visited.on, y |-> visited.y, by |-> visited.by]
  BY ScreenLinesAssumption DEF VisitedTyped, Lines
<1>2. ASSUME NEW n \in Nat, VisitedUp(n).on
      PROVE  VisitedUp(n).y - VisitedUp(n).by = (visited.y - visited.by) - 1
  <2>1. VisitedUp(n).y = visited.y /\ VisitedUp(n).by = visited.by + 1
    BY <1>1, <1>2 DEF VisitedUp
  <2> QED BY <2>1, <1>1
<1>3. ASSUME VisitedDown.on
      PROVE  VisitedDown.y - VisitedDown.by = (visited.y - visited.by) + 1
  <2>1. \/ VisitedDown.y = visited.y /\ VisitedDown.by = visited.by - 1
        \/ VisitedDown.y = visited.y + 1 /\ VisitedDown.by = visited.by
    BY <1>1, <1>3 DEF VisitedDown
  <2> QED BY <2>1, <1>1
<1> QED BY <1>2, <1>3

(* The text under what is followed, at its two positions.                  *)
LEMMA SamePlace ==
  ASSUME SbTypeOK, SbTypeOK', margin = AllLines, IndexUpOne \/ IndexDownOne,
         NEW p \in Int, NEW q \in Int,
         IndexUpOne => q = p - 1, ~IndexUpOne => q = p + 1,
         -Len(past) <= p, p < ScreenLines, -Len(past') <= q, q < ScreenLines,
         past' = past => 0 <= p \/ IndexUpOne
  PROVE  Shown(past', screen', q) = Shown(past, screen, p)
<1>1. CASE IndexUpOne
  BY <1>1, AllGoUp
<1>2. CASE ~IndexUpOne
  BY <1>2, AllGoDown
<1> QED BY <1>1, <1>2

LEMMA SelectionFollows ==
  ASSUME SbTypeOK, SbTypeOK', margin = AllLines, IndexUpOne \/ IndexDownOne,
         OnText(sel), OnText(sel)', past' = past => sel.by <= sel.y
  PROVE  TextAt(sel)' = TextAt(sel)
<1> DEFINE p == sel.y - sel.by
           q == sel'.y - sel'.by
<1>1. sel.on /\ -Len(past) <= p /\ p < ScreenLines /\ -Len(past') <= q /\ q < ScreenLines
  BY DEF OnText
<1>2. p \in Int /\ q \in Int /\ (past' = past => 0 <= p)
  BY ScreenLinesAssumption DEF SbTypeOK, SelTyped, Lines
<1>3. SelTyped
  BY DEF SbTypeOK
<1>4. (IndexUpOne => q = p - 1) /\ (IndexDownOne => q = p + 1)
  BY <1>1, <1>3, SelectionMoves DEF IndexUpOne, IndexDownOne
<1> HIDE DEF p, q
<1>5. Shown(past', screen', q) = Shown(past, screen, p)
  BY <1>1, <1>2, <1>4, SamePlace
<1> QED BY <1>5 DEF p, q, Shown, TextAt, LineAt

LEMMA VisitedFollows ==
  ASSUME SbTypeOK, SbTypeOK', margin = AllLines, IndexUpOne \/ IndexDownOne,
         OnText(visited), OnText(visited)', past' = past => visited.by <= visited.y
  PROVE  TextAt(visited)' = TextAt(visited)
<1> DEFINE p == visited.y - visited.by
           q == visited'.y - visited'.by
<1>1. /\ visited.on /\ visited'.on
      /\ -Len(past) <= p /\ p < ScreenLines /\ -Len(past') <= q /\ q < ScreenLines
  BY DEF OnText
<1>2. p \in Int /\ q \in Int /\ (past' = past => 0 <= p)
  BY ScreenLinesAssumption DEF SbTypeOK, VisitedTyped, Lines
<1>3. VisitedTyped /\ Len(past') \in Nat
  BY LenIsNat DEF SbTypeOK, TextTyped
<1>4. (IndexUpOne => q = p - 1) /\ (IndexDownOne => q = p + 1)
  <2>1. ASSUME IndexUpOne
        PROVE  q = p - 1
    <3>1. margin.top = 0
      BY NoMargins
    <3>2. visited' = VisitedUp(Len(past'))
      BY <2>1, <3>1 DEF IndexUpOne
    <3> QED BY <3>2, <1>1, <1>3, VisitedMoves
  <2>2. ASSUME IndexDownOne
        PROVE  q = p + 1
    <3>1. visited' = VisitedDown
      BY <2>2 DEF IndexDownOne
    <3> QED BY <3>1, <1>1, <1>3, VisitedMoves
  <2> QED BY <2>1, <2>2
<1> HIDE DEF p, q
<1>5. Shown(past', screen', q) = Shown(past, screen, p)
  BY <1>1, <1>2, <1>4, SamePlace
<1> QED BY <1>5 DEF p, q, Shown, TextAt, LineAt

(* When the whole screen scrolls, the selection and the prompt last        *)
(* visited stay on their text, into the history and out of it: how far     *)
(* index_selection() and INDEX_UP, INDEX_DOWN move them is how far the     *)
(* lines moved, whatever the size of the screen and of the history.        *)
THEOREM MarksGoWithTheirText == SbSpec => MarksFollowText
<1>1. SbTypeOK /\ SbTypeOK' /\ [SbNext]_sbvars =>
        [/\ margin = AllLines
         /\ IndexUpOne \/ IndexDownOne
         => /\ OnText(sel) /\ OnText(sel)' /\ (past' = past => sel.by <= sel.y)
                 => TextAt(sel)' = TextAt(sel)
            /\ OnText(visited) /\ OnText(visited)' /\ (past' = past => visited.by <= visited.y)
                 => TextAt(visited)' = TextAt(visited)]_sbvars
  BY SelectionFollows, VisitedFollows
<1> QED BY <1>1, ScrollbackTyped, PTL DEF SbSpec, MarksFollowText

-----------------------------------------------------------------------------
(* How far up the next frame looks, and the line there.                    *)
Away == Fewer(scrolled + added, Len(past))

LEMMA PastShown ==
  ASSUME NEW h \in Seq(LineType), NEW s \in Seq(LineType), NEW a \in 1..Len(h)
  PROVE  Shown(h, s, -a) = h[Len(h) - a + 1]
<1>1. -a \in -Len(h)..-1 /\ Len(h) + (-a) + 1 = Len(h) - a + 1
  BY LenIsNat
<1> QED BY <1>1, ShownIs

LEMMA FewerIs ==
  ASSUME NEW a \in Nat, NEW b \in Nat, 0 < a, 0 < b
  PROVE  Fewer(a, b) \in 1..b
  BY DEF Fewer

LEMMA ViewTopIs ==
  ASSUME SbTypeOK, 0 < scrolled, 0 < Len(past)
  PROVE  /\ Away \in 1..Len(past)
         /\ ViewTop = past[Len(past) - Away + 1]
<1>1. scrolled \in Nat /\ added \in Nat /\ past \in Seq(LineType) /\ screen \in Seq(LineType)
  BY DEF SbTypeOK, ViewTyped, TextTyped
<1>2. Len(past) \in Nat
  BY <1>1, LenIsNat
<1>3. Away \in 1..Len(past)
  BY <1>1, <1>2 DEF Away, Fewer
<1>4. ViewTop = Shown(past, screen, -Away)
  BY DEF ViewTop, Away, LineAt, Shown
<1> QED BY <1>1, <1>3, <1>4, PastShown

LEMMA NextViewTopIs ==
  ASSUME SbTypeOK', 0 < scrolled', 0 < Len(past')
  PROVE  /\ Away' \in 1..Len(past')
         /\ ViewTop' = past'[Len(past') - Away' + 1]
<1>1. scrolled' \in Nat /\ added' \in Nat /\ past' \in Seq(LineType) /\ screen' \in Seq(LineType)
  BY DEF SbTypeOK, ViewTyped, TextTyped
<1>2. Len(past') \in Nat
  BY <1>1, LenIsNat
<1>3. Away' \in 1..Len(past')
  <2>1. Away' = Fewer(scrolled' + added', Len(past'))
    BY DEF Away
  <2>2. ASSUME NEW a \in Nat, NEW b \in Nat, 0 < a
        PROVE  a + b \in Nat /\ 0 < a + b
    BY <2>2
  <2>3. scrolled' + added' \in Nat /\ 0 < scrolled' + added'
    BY <1>1, <2>2
  <2> QED BY <2>1, <2>3, <1>2, FewerIs
<1>4. ViewTop' = Shown(past', screen', -Away')
  BY DEF ViewTop, Away, LineAt, Shown
<1> QED BY <1>1, <1>3, <1>4, PastShown

(* A step that looks as far up the same history.                           *)
LEMMA SameView ==
  ASSUME SbTypeOK, SbTypeOK', 0 < scrolled, 0 < scrolled', 0 < Len(past), past' = past, Away' = Away
  PROVE  ViewTop' = ViewTop
<1>1. 0 < Len(past')
  OBVIOUS
<1> QED BY <1>1, ViewTopIs, NextViewTopIs

LEMMA QuietView ==
  ASSUME SbTypeOK, SbTypeOK', 0 < scrolled, 0 < Len(past), UNCHANGED <<past, scrolled, added>>
  PROVE  ViewTop' = ViewTop
<1>1. Away' = Away /\ 0 < scrolled'
  BY DEF Away, Fewer
<1> QED BY <1>1, SameView

(* The frame takes the lines added into the offset of the view.            *)
LEMMA FrameView ==
  ASSUME SbTypeOK, SbTypeOK', 0 < scrolled, 0 < Len(past), UpdateCellData
  PROVE  ViewTop' = ViewTop
<1>1. scrolled \in Nat /\ added \in Nat /\ Len(past) \in Nat
  BY LenIsNat DEF SbTypeOK, ViewTyped, TextTyped
<1>2. past' = past /\ scrolled' = Fewer(scrolled + added, Len(past)) /\ added' = 0
  BY <1>1 DEF UpdateCellData, ScrolledBy
<1>3. Away' = Fewer(scrolled' + 0, Len(past))
  BY <1>2 DEF Away
<1>4. Away' = Away /\ 0 < scrolled'
  BY <1>1, <1>2, <1>3 DEF Away, Fewer
<1> QED BY <1>2, <1>4, SameView

(* A line that enters the history moves the view one line further up.      *)
LEMMA OutputView ==
  ASSUME SbTypeOK, SbTypeOK', 0 < scrolled, 0 < Len(past), scrolled + added < HistoryMax,
         past' = WithLine(past, screen[1]), scrolled' = scrolled, added' = added + 1
  PROVE  ViewTop' = ViewTop
<1>1. /\ scrolled \in Nat /\ added \in Nat /\ Len(past) \in Nat
      /\ past \in Seq(LineType) /\ Len(past) <= HistoryMax /\ screen[1] \in LineType
  BY LenIsNat, FirstLine DEF SbTypeOK, ViewTyped, TextTyped
<1>2. Away \in 1..Len(past) /\ ViewTop = past[Len(past) - Away + 1]
  BY ViewTopIs
<1>3. Len(past') = Fewer(Len(past) + 1, HistoryMax)
  BY <1>1, PastGoesUp
<1>4. Away' = Away + 1
  <2>1. Away' = Fewer(scrolled + (added + 1), Fewer(Len(past) + 1, HistoryMax))
    BY <1>3 DEF Away
  <2> QED BY <2>1, <1>1, HistoryMaxAssumption DEF Away, Fewer
<1>5. 0 < scrolled' /\ 0 < Len(past')
  BY <1>1, <1>3, HistoryMaxAssumption DEF Fewer
<1>6. Away' \in 1..Len(past') /\ ViewTop' = past'[Len(past') - Away' + 1]
  BY <1>5, NextViewTopIs
<1> DEFINE a == Away
           h2 == past'
<1>7. a \in Int /\ a + 1 \in 1..Len(h2) /\ a \in 1..Len(past) /\ Len(h2) \in Nat
  BY <1>1, <1>2, <1>3, <1>4, <1>6
<1>8. \A p \in -Len(past)..-1 : p - 1 >= -Len(h2) => h2[Len(h2) + (p - 1) + 1] = past[Len(past) + p + 1]
  BY <1>1, PastGoesUp
<1>9. ViewTop = past[Len(past) - a + 1] /\ ViewTop' = h2[Len(h2) - (a + 1) + 1]
  BY <1>2, <1>4, <1>6
<1> DEFINE p == -a
<1> HIDE DEF a, h2
<1>10. /\ p \in -Len(past)..-1 /\ p - 1 >= -Len(h2)
       /\ Len(h2) + (p - 1) + 1 = Len(h2) - (a + 1) + 1 /\ Len(past) + p + 1 = Len(past) - a + 1
  BY <1>1, <1>7
<1> HIDE DEF p
<1>11. h2[Len(h2) + (p - 1) + 1] = past[Len(past) + p + 1]
  BY <1>8, <1>10
<1> QED BY <1>9, <1>10, <1>11

(* While the view is scrolled, output, frames and the other commands leave *)
(* the line at its top where it is until the history drops that line: what *)
(* screen_update_cell_data() adds to scrolled_by is what INDEX_UP has put  *)
(* into the history, whatever the size of the screen and of the history.   *)
THEOREM ReaderKeepsTheirLine == SbSpec => ViewStaysPut
<1>1. ASSUME SbTypeOK, SbTypeOK', SbNext,
             0 < scrolled, scrolled <= Len(past), scrolled' > 0, Len(past) <= Len(past'),
             scrolled + added < HistoryMax, ~HistoryScroll, ~ScrollToPrompt, ~ScrollToVisited
      PROVE  ViewTop' = ViewTop
  <2>1. scrolled \in Nat /\ Len(past) \in Nat /\ 0 < Len(past) /\ past' # <<>>
    <3>1. scrolled \in Nat /\ Len(past) \in Nat /\ 0 < Len(past)
      BY <1>1, LenIsNat DEF SbTypeOK, ViewTyped, TextTyped
    <3> QED BY <3>1, <1>1
  <2>2. CASE Write \/ SetMargin \/ Visit \/ Select
    <3>1. UNCHANGED <<past, scrolled, added>>
      BY <2>2 DEF Write, SetMargin, Visit, Select, Text!Change
    <3> QED BY <3>1, <1>1, <2>1, QuietView
  <2>3. CASE IndexUpOne
    <3>1. Text!Up(margin.top + 1, margin.bottom + 1) /\ scrolled' = scrolled
      BY <2>3 DEF IndexUpOne
    <3>2. CASE margin.top = 0
      <4>1. margin.top + 1 = 1 /\ added' = added + 1
        BY <2>3, <3>2 DEF IndexUpOne
      <4>2. past' = WithLine(past, screen[1])
        BY <3>1, <4>1, UpIs DEF WithLine
      <4> QED BY <3>1, <4>1, <4>2, <1>1, <2>1, OutputView
    <3>3. CASE margin.top # 0
      <4>1. added' = added /\ margin.top + 1 # 1
        BY <2>3, <3>3, <1>1, ScreenLinesAssumption DEF IndexUpOne, SbTypeOK, MarginTyped, Lines
      <4>2. past' = past
        BY <3>1, <4>1, UpIs
      <4> QED BY <3>1, <4>1, <4>2, <1>1, <2>1, QuietView
    <3> QED BY <3>2, <3>3
  <2>4. CASE IndexDownOne
    <3>1. UNCHANGED <<scrolled, added>>
      BY <2>4 DEF IndexDownOne
    <3>2. CASE Text!Down(margin.top + 1, margin.bottom + 1)
      BY <3>1, <3>2, <1>1, <2>1, DownIs, QuietView
    <3>3. CASE Text!Unscroll(margin.top + 1, margin.bottom + 1)
      <4>1. TextTyped /\ MarginTyped
        BY <1>1 DEF SbTypeOK
      <4>2. Len(past') = Len(past) - 1
        BY <4>1, <3>3, RegionTyped, UnscrollTyped
      <4> QED BY <4>2, <1>1, <2>1
    <3> QED BY <2>4, <3>2, <3>3 DEF IndexDownOne
  <2>5. CASE EditLinesAt
    <3>1. UNCHANGED <<scrolled, added>> /\ past' = past
      BY <2>5, <1>1, EditLinesTyped DEF EditLinesAt
    <3> QED BY <3>1, <1>1, <2>1, QuietView
  <2>6. CASE EraseDisplay
    <3>1. past' = past
      BY <2>6, <1>1, <2>1, EraseDisplayTyped
    <3>2. UNCHANGED <<scrolled, added>>
      BY <2>6, <1>1 DEF EraseDisplay
    <3> QED BY <3>1, <3>2, <1>1, <2>1, QuietView
  <2>7. CASE ResetScreen
    BY <2>7, <1>1, <2>1, ResetTyped
  <2>8. CASE UpdateCellData
    BY <2>8, <1>1, <2>1, FrameView
  <2> QED BY <1>1, <2>2, <2>3, <2>4, <2>5, <2>6, <2>7, <2>8 DEF SbNext
<1>2. SbTypeOK /\ SbTypeOK' /\ [SbNext]_sbvars =>
        [/\ 0 < scrolled /\ scrolled <= Len(past) /\ scrolled' > 0
         /\ Len(past) <= Len(past')
         /\ scrolled + added < HistoryMax
         /\ ~HistoryScroll /\ ~ScrollToPrompt /\ ~ScrollToVisited
         => ViewTop' = ViewTop]_sbvars
  BY <1>1
<1> QED BY <1>2, ScrollbackTyped, PTL DEF SbSpec, ViewStaysPut
=============================================================================
