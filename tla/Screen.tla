------------------------------- MODULE Screen -------------------------------
(***************************************************************************)
(* The progress bar, the background and the two pages of screen_ui.cpp.  A   *)
(* method of ScreenRecoveryUI takes the state u to the next one, under       *)
(* updateMutex.  Sizes are in units of which the bar has Full; the fraction  *)
(* of a segment that is done is in parts of which it has Parts.              *)
(***************************************************************************)
EXTENDS Integers

CONSTANTS
    Full, Parts,
    Width       \* of the bar, in pixels

ASSUME ScreenAssumption == {Full, Parts, Width} \subseteq Nat \ {0}

Icons == {"NONE", "INSTALLING_UPDATE", "ERASING", "NO_COMMAND", "ERROR"}
Bars == {"EMPTY", "INDETERMINATE", "DETERMINATE"}
NoBar == -1
EmptyBar == -2      \* INDETERMINATE: the space for it, and nothing in it

\* A page shows the log and the menu, or an icon and perhaps a bar.
Pages == [text : BOOLEAN, icon : Icons, bar : {NoBar, EmptyBar} \cup Nat]

Ui == [icon : Icons, type : Bars, start : Nat, size : Nat, prog : 0..Parts,
       timed : BOOLEAN,             \* progressScopeDuration > 0
       showText : BOOLEAN,
       identical : BOOLEAN,         \* pagesIdentical
       double : BOOLEAN,            \* double_buffered
       front : Pages, back : Pages] \* the page on display, and gr_draw

Blank == [text |-> FALSE, icon |-> "NONE", bar |-> NoBar]

InitUi(double) ==
    [icon |-> "NONE", type |-> "EMPTY", start |-> 0, size |-> 0, prog |-> 0,
     timed |-> FALSE, showText |-> FALSE, identical |-> FALSE, double |-> double,
     front |-> Blank, back |-> Blank]

\* Where the bar ends, and what SetProgress takes for it within the segment
Pos(u) == ((u.start * Parts + u.prog * u.size) * Width) \div (Full * Parts)
PosWithin(u, part) == (part * u.size * Width) \div (Full * Parts)

-----------------------------------------------------------------------------
\* draw_progress_locked, on a page that is there already
DrawProgress(u, page) ==
    IF u.icon = "ERROR" \/ u.type = "EMPTY" THEN page
    ELSE [page EXCEPT !.bar = IF u.type = "DETERMINATE" THEN Pos(u) ELSE EmptyBar]

\* draw_background_locked
DrawBackground(u) == [text |-> FALSE, icon |-> u.icon, bar |-> NoBar]

\* draw_screen_locked: the page, and pagesIdentical
DrawScreen(u) ==
    IF u.showText THEN [u EXCEPT !.back = [Blank EXCEPT !.text = TRUE]]
    ELSE [u EXCEPT !.back = DrawProgress(u, DrawBackground(u)), !.identical = FALSE]

\* gr_flip: the pages change places, or the one in memory is copied.
Flip(u) == [u EXCEPT !.front = u.back, !.back = IF u.double THEN u.front ELSE @]

\* update_screen_locked
UpdateScreen(u) == Flip(DrawScreen(u))

\* Mistake: the pages are taken for identical before they are.
UpdateProgress_Always(u) ==
    IF u.showText THEN Flip(DrawScreen(u))
    ELSE Flip([u EXCEPT !.back = DrawProgress(u, @)])

\* update_progress_locked: the whole screen once, then only the bar
UpdateProgress(u) ==
    IF u.showText \/ ~u.identical THEN Flip([DrawScreen(u) EXCEPT !.identical = TRUE])
    ELSE Flip([u EXCEPT !.back = DrawProgress(u, @)])

-----------------------------------------------------------------------------
\* One turn of progress_loop, in a thread of its own, when p parts of the time of
\* the segment have passed.
ProgressLoop(u, p) ==
    LET animated == u.icon \in {"INSTALLING_UPDATE", "ERASING"} /\ ~u.showText
        moves == u.type = "DETERMINATE" /\ u.timed /\ p > u.prog
        u1 == IF moves THEN [u EXCEPT !.prog = p] ELSE u
    IN IF animated \/ moves THEN UpdateProgress(u1) ELSE u

SetBackground(u, icon) == UpdateScreen([u EXCEPT !.icon = icon])

\* The duration of an earlier segment stays.
SetProgressType(u, type) ==
    UpdateProgress([u EXCEPT !.type = type, !.start = 0, !.size = 0, !.prog = 0])

\* Mistake: the segment that ends is not added.
ShowProgress_NoStart(u, portion, seconds) ==
    UpdateProgress([u EXCEPT !.type = "DETERMINATE", !.size = portion,
                             !.timed = seconds > 0, !.prog = 0])

ShowProgress(u, portion, seconds) ==
    UpdateProgress([u EXCEPT !.type = "DETERMINATE", !.start = @ + u.size, !.size = portion,
                             !.timed = seconds > 0, !.prog = 0])

\* Only forward, and only if it can be seen
SetProgress(u, fraction) ==
    LET f == IF fraction > Parts THEN Parts ELSE fraction
    IN IF u.type = "DETERMINATE" /\ f > u.prog /\ PosWithin(u, u.prog) # PosWithin(u, f)
         THEN UpdateProgress([u EXCEPT !.prog = f]) ELSE u

\* Print, StartMenu, EndMenu, Redraw: for the pages a redraw, whatever the log and menu hold
PrintText(u) == UpdateScreen(u)
StartMenu(u) == UpdateScreen(u)
EndMenu(u) == UpdateScreen(u)

ShowText(u, visible) == UpdateScreen([u EXCEPT !.showText = visible])
=============================================================================
