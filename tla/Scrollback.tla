----------------------------- MODULE Scrollback -----------------------------
(***************************************************************************)
(* What refers to the lines of the main screen and of its scrollback       *)
(* (src/smelly/screen.c): the part that is shown, the selection and the    *)
(* prompt last visited, which screen.c moves along with the text.  The     *)
(* text itself is TextLines, which LineStore implements.  A code with a    *)
(* count is that many steps.                                               *)
(***************************************************************************)
EXTENDS Integers, Sequences

CONSTANTS ScreenLines,  \* self->lines
          HistoryMax,   \* historybuf->ynum
          MaxDrawn,     \* bound on the texts drawn
          MaxAdded,     \* bound on the lines that enter the history between two frames
          MaxAway,      \* bound on how far a selection is from the screen
          MaxFollowed   \* bound on what is followed: a selection, a prompt, or both

ASSUME ScreenLinesAssumption == ScreenLines \in Nat \ {0}
ASSUME HistoryMaxAssumption == HistoryMax \in Nat \ {0}

VARIABLES
    screen,    \* linebuf, line 0 first
    past,      \* historybuf, oldest line first
    margin,    \* margin_top, margin_bottom
    scrolled,  \* scrolled_by
    added,     \* history_line_added_count
    visited,   \* last_visited_prompt: y, by (scrolled_by)
    sel,       \* the selection, of one line: y, by (start_scrolled_by)
    drawn      \* texts drawn so far

sbvars == <<screen, past, margin, scrolled, added, visited, sel, drawn>>

Empty == [text |-> 0, mark |-> FALSE]
AllLines == [top |-> 0, bottom |-> ScreenLines - 1]
Nowhere == [on |-> FALSE, y |-> 0, by |-> 0]
Fewer(a, b) == IF a < b THEN a ELSE b

Text == INSTANCE TextLines WITH BlankRow <- Empty

-----------------------------------------------------------------------------
(* index_selection(): at the edge of the screen by changes, within it y.   *)
SelectionUp == sel' = IF ~sel.on THEN sel
                      ELSE IF sel.y = 0 THEN [sel EXCEPT !.by = @ + 1]
                      ELSE [sel EXCEPT !.y = @ - 1]
SelectionDown == sel' = IF ~sel.on THEN sel
                        ELSE IF sel.y >= ScreenLines - 1 THEN [sel EXCEPT !.by = @ - 1]
                        ELSE [sel EXCEPT !.y = @ + 1]
ClearSelection == sel' = Nowhere

(* Mutant: a prompt in the history is not brought back.                    *)
VisitedDownOnScreen ==
    IF ~visited.on \/ visited.by > 0 THEN visited
    ELSE IF visited.y < ScreenLines - 1 THEN [visited EXCEPT !.y = @ + 1]
    ELSE [visited EXCEPT !.on = FALSE]

VisitedDown ==
    IF ~visited.on THEN visited
    ELSE IF visited.by > 0 THEN [visited EXCEPT !.by = @ - 1]
    ELSE IF visited.y < ScreenLines - 1 THEN [visited EXCEPT !.y = @ + 1]
    ELSE [visited EXCEPT !.on = FALSE]

(* When a line enters the history, which then has n.                       *)
VisitedUp(n) ==
    IF ~visited.on THEN visited
    ELSE IF visited.by < n THEN [visited EXCEPT !.by = @ + 1]
    ELSE [visited EXCEPT !.on = FALSE]

SbInit ==
    /\ Text!Init
    /\ margin = AllLines
    /\ scrolled = 0
    /\ added = 0
    /\ visited = Nowhere
    /\ sel = Nowhere
    /\ drawn = 0

(* Text is drawn on a line, with or without a prompt mark; a selection of  *)
(* the line is cleared.                                                    *)
Write == \E y \in 1..ScreenLines, mark \in BOOLEAN :
    /\ drawn < MaxDrawn
    /\ drawn' = drawn + 1
    /\ Text!Change(y, [text |-> drawn + 1, mark |-> mark \/ screen[y].mark])
    /\ sel' = IF sel.on /\ sel.y - sel.by = y - 1 THEN Nowhere ELSE sel
    /\ UNCHANGED <<margin, scrolled, added, visited>>

(* INDEX_UP                                                                *)
IndexUpOne ==
    /\ added < MaxAdded
    /\ sel.on => sel.by < MaxAway
    /\ Text!Up(margin.top + 1, margin.bottom + 1)
    /\ IF margin.top = 0 THEN added' = added + 1 /\ visited' = VisitedUp(Len(past'))
       ELSE UNCHANGED <<added, visited>>
    /\ SelectionUp
    /\ UNCHANGED <<margin, scrolled, drawn>>

(* INDEX_DOWN, alone or, after a line came out of the history, in one step *)
(* of _reverse_scroll() with fill_from_scrollback.                         *)
IndexDownOne ==
    /\ sel.on => sel.by > -MaxAway
    /\ \/ Text!Down(margin.top + 1, margin.bottom + 1)
       \/ Text!Unscroll(margin.top + 1, margin.bottom + 1)
    /\ visited' = VisitedDown
    /\ SelectionDown
    /\ UNCHANGED <<margin, scrolled, added, drawn>>

(* screen_insert_lines(), screen_delete_lines()                            *)
EditLinesAt == \E y \in margin.top + 1..margin.bottom + 1 : \E n \in 1..margin.bottom + 2 - y :
    /\ Text!Insert(n, y, margin.bottom + 1) \/ Text!Delete(n, y, margin.bottom + 1)
    /\ ClearSelection
    /\ UNCHANGED <<margin, scrolled, added, visited, drawn>>

(* screen_erase_in_display(): the lines up to the cursor or below it, or   *)
(* all, and the scrollback with them.  The cursor is at the end of its     *)
(* line; alone on the first, it clears only a selection that is there.     *)
EraseDisplay == \E top, bottom \in 1..ScreenLines, all \in BOOLEAN :
    /\ top = 1 \/ bottom = ScreenLines
    /\ all => bottom - top = ScreenLines - 1
    /\ Text!Erase(top, bottom, all)
    /\ sel' = IF bottom = 1 /\ sel.y - sel.by # 0 THEN sel ELSE Nowhere
    /\ scrolled' = IF all THEN 0 ELSE scrolled
    /\ UNCHANGED <<margin, added, visited, drawn>>

(* screen_reset() clears the history under a view that is scrolled.        *)
ResetScreen ==
    /\ Text!Erase(1, ScreenLines, TRUE)
    /\ margin' = AllLines
    /\ ClearSelection
    /\ UNCHANGED <<scrolled, added, visited, drawn>>

SetMargin == \E top, bottom \in 0..ScreenLines - 1 :
    /\ top < bottom
    /\ margin' = [top |-> top, bottom |-> bottom]
    /\ UNCHANGED <<screen, past, scrolled, added, visited, sel, drawn>>

(* screen_history_scroll() to n lines from the bottom.                     *)
HistoryScroll == \E n \in 0..Len(past) :
    /\ n # scrolled
    /\ scrolled' = n
    /\ UNCHANGED <<screen, past, margin, added, visited, sel, drawn>>

(* The line at position p, of the screen or, from -1 up, of the history.   *)
LineAt(p) == (past \o screen)[Len(past) + p + 1]

MayVisit == sel.on => MaxFollowed > 1
MaySelect == visited.on => MaxFollowed > 1

(* screen_history_scroll_to_prompt(): to a prompt above or below the line  *)
(* at the top of the view.                                                 *)
ScrollToPrompt == \E y \in -Len(past)..ScreenLines - 1 :
    /\ MayVisit
    /\ scrolled <= Len(past)
    /\ y # -scrolled
    /\ LineAt(y).mark
    /\ scrolled' = IF y >= 0 THEN 0 ELSE -y
    /\ visited' = [on |-> TRUE, y |-> 0, by |-> scrolled']
    /\ UNCHANGED <<screen, past, margin, added, sel, drawn>>

ScrollToVisited ==
    /\ visited.on /\ visited.by <= Len(past) /\ visited.y < ScreenLines
    /\ scrolled' = visited.by
    /\ UNCHANGED <<screen, past, margin, added, visited, sel, drawn>>

(* A click on line y of the view visits its prompt.                        *)
Visit == \E y \in 0..ScreenLines - 1 :
    /\ MayVisit
    /\ visited' = [on |-> TRUE, y |-> y, by |-> scrolled]
    /\ UNCHANGED <<screen, past, margin, scrolled, added, sel, drawn>>

Select == \E y \in 0..ScreenLines - 1 :
    /\ MaySelect
    /\ sel' = [on |-> TRUE, y |-> y, by |-> scrolled]
    /\ UNCHANGED <<screen, past, margin, scrolled, added, visited, drawn>>

(* Mutant: the lines added since the last frame are forgotten.             *)
ScrolledByNow == Fewer(scrolled, Len(past))

(* The view moves by the lines that entered the history since the last     *)
(* frame.                                                                  *)
ScrolledBy == IF scrolled = 0 THEN 0 ELSE Fewer(scrolled + added, Len(past))

(* screen_update_cell_data()                                               *)
UpdateCellData ==
    /\ scrolled' = ScrolledBy
    /\ added' = 0
    /\ UNCHANGED <<screen, past, margin, visited, sel, drawn>>

SbNext ==
    \/ Write \/ IndexUpOne \/ IndexDownOne \/ EditLinesAt \/ EraseDisplay \/ ResetScreen
    \/ SetMargin \/ HistoryScroll \/ ScrollToPrompt \/ ScrollToVisited \/ Visit \/ Select
    \/ UpdateCellData

SbSpec == SbInit /\ [][SbNext]_sbvars

-----------------------------------------------------------------------------
(* The line at the top of the view of the next frame.                      *)
ViewTop == LineAt(-Fewer(scrolled + added, Len(past)))

(* What is read stays under the eyes of its reader: while the view is      *)
(* scrolled, output and frames leave the line at its top where it is,      *)
(* until the history drops that line.  Left out are the commands that      *)
(* scroll the view and the codes that take lines out of the history.       *)
ViewStaysPut ==
    [][/\ 0 < scrolled /\ scrolled <= Len(past) /\ scrolled' > 0
       /\ Len(past) <= Len(past')
       /\ scrolled + added < HistoryMax
       /\ ~HistoryScroll /\ ~ScrollToPrompt /\ ~ScrollToVisited
       => ViewTop' = ViewTop]_sbvars

OnText(m) == m.on /\ -Len(past) <= m.y - m.by /\ m.y - m.by < ScreenLines
TextAt(m) == LineAt(m.y - m.by).text

(* When the whole screen scrolls, the selection and the prompt last        *)
(* visited go with the text they are on, into the history and back.  A     *)
(* step down that leaves the history alone is held to it for the lines of  *)
(* the screen only: those of the history stay and what is on them does not.*)
MarksFollowText ==
    [][/\ margin = AllLines
       /\ IndexUpOne \/ IndexDownOne
       => /\ OnText(sel) /\ OnText(sel)' /\ (past' = past => sel.by <= sel.y)
               => TextAt(sel)' = TextAt(sel)
          /\ OnText(visited) /\ OnText(visited)' /\ (past' = past => visited.by <= visited.y)
               => TextAt(visited)' = TextAt(visited)]_sbvars
=============================================================================
