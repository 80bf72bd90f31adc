--------------------------- MODULE Install_proofs ---------------------------
(***************************************************************************)
(* Proofs about Install, for scripts, faults and power cuts of any number.   *)
(***************************************************************************)
EXTENDS Install, SequenceTheorems, TLAPS

(***************************************************************************)
(* The screen                                                                *)
(***************************************************************************)

\* The fields of the screen, whatever is in them
Fields == {"icon", "type", "start", "size", "prog", "timed", "showText", "identical",
           "double", "front", "back"}

\* The page that the state asks for
Due(x) == IF x.showText THEN [Blank EXCEPT !.text = TRUE] ELSE DrawProgress(x, DrawBackground(x))

NoBarDue(x) == x.icon = "ERROR" \/ x.type = "EMPTY"

\* A page on which it is enough to draw the bar: the background, perhaps with a bar
Ready(x, page) ==
    \/ page = DrawBackground(x)
    \/ ~NoBarDue(x) /\ page = [DrawBackground(x) EXCEPT !.bar = page.bar]

\* The page on display is the one due, and if the pages are taken for identical the
\* other needs no more than its bar drawn.
Sound(x) ==
    /\ DOMAIN x = Fields
    /\ x.front = Due(x)
    /\ x.identical /\ ~x.showText => Ready(x, x.back)

\* Between SetProgressType(EMPTY) and the menu the progress thread has nothing to draw.
Still(x) ==
    /\ DOMAIN x = Fields
    /\ x.type = "EMPTY"
    /\ x.icon \in {"NO_COMMAND", "ERROR"}

ScreenInv ==
    /\ pc # "menu" => Sound(u)
    /\ pc = "menu" => Still(u)
    /\ pc = "empty" => u.icon \in {"NO_COMMAND", "ERROR"}

\* What a redraw leaves alone: all that the page depends on
Same(x, y) ==
    /\ DOMAIN y = Fields
    /\ y.icon = x.icon /\ y.type = x.type /\ y.start = x.start /\ y.size = x.size
    /\ y.prog = x.prog /\ y.showText = x.showText

\* The page that is due depends on nothing else.
LEMMA SameDue == ASSUME NEW x, NEW y, Same(x, y) PROVE Due(y) = Due(x)
<1>1. Pos(y) = Pos(x)
  BY DEF Same, Pos
<1>2. DrawBackground(y) = DrawBackground(x)
  BY DEF Same, DrawBackground
<1> QED BY <1>1, <1>2 DEF Same, Due, DrawProgress

\* A bar is drawn over another one.
LEMMA OtherBar ==
  ASSUME NEW p, NEW c, NEW d
  PROVE  [[p EXCEPT !.bar = c] EXCEPT !.bar = d] = [p EXCEPT !.bar = d]
BY Zenon

\* On a page that is ready, drawing the bar gives the page that is due.
LEMMA DrawProgressDraws ==
  ASSUME NEW x, NEW page, ~x.showText, Ready(x, page)
  PROVE  DrawProgress(x, page) = Due(x)
<1> DEFINE b == DrawBackground(x)
           bar == IF x.type = "DETERMINATE" THEN Pos(x) ELSE EmptyBar
<1>1. Due(x) = DrawProgress(x, b)
  BY DEF Due
<1>2. CASE page = b
  BY <1>1, <1>2
<1>3. CASE ~NoBarDue(x) /\ page = [b EXCEPT !.bar = page.bar]
  <2>1. DrawProgress(x, page) = [page EXCEPT !.bar = bar] /\ DrawProgress(x, b) = [b EXCEPT !.bar = bar]
    BY <1>3 DEF DrawProgress, NoBarDue
  <2> HIDE DEF b, bar
  <2>2. [page EXCEPT !.bar = bar] = [b EXCEPT !.bar = bar]
    BY <1>3, OtherBar, Zenon
  <2> QED BY <1>1, <2>1, <2>2
<1> QED BY <1>2, <1>3 DEF Ready

\* gr_flip shows the page that was drawn on.
LEMMA FlipShows ==
  ASSUME NEW x, DOMAIN x = Fields
  PROVE  /\ Same(x, Flip(x))
         /\ Flip(x).front = x.back
         /\ Flip(x).back = x.back \/ Flip(x).back = x.front
         /\ Flip(x).identical = x.identical
BY DEF Flip, Same, Fields

\* draw_screen_locked draws the page that is due, and says that the other is not like it.
LEMMA DrawScreenDraws ==
  ASSUME NEW x, DOMAIN x = Fields
  PROVE  /\ Same(x, DrawScreen(x))
         /\ DrawScreen(x).back = Due(x)
         /\ DrawScreen(x).front = x.front
         /\ ~x.showText => DrawScreen(x).identical = FALSE
BY DEF DrawScreen, Same, Due, Fields

\* update_screen_locked leaves the screen sound, whatever it was.
LEMMA UpdateScreenSound ==
  ASSUME NEW x, DOMAIN x = Fields
  PROVE  Same(x, UpdateScreen(x)) /\ Sound(UpdateScreen(x))
<1> DEFINE d == DrawScreen(x)
           y == Flip(d)
<1>1. Same(x, d) /\ d.back = Due(x) /\ (~x.showText => d.identical = FALSE)
  BY DrawScreenDraws, Zenon
<1>2. DOMAIN d = Fields
  BY <1>1 DEF Same
<1> HIDE DEF d
<1>3. Same(d, y) /\ y.front = d.back /\ y.identical = d.identical
  BY <1>2, FlipShows
<1> HIDE DEF y
<1>4. Same(x, y)
  BY <1>1, <1>3 DEF Same
<1>5. Due(y) = Due(x)
  BY <1>4, SameDue
<1>6. Sound(y)
  BY <1>1, <1>3, <1>4, <1>5, SMTT(30) DEF Sound, Same
<1>7. UpdateScreen(x) = y
  BY DEF UpdateScreen, d, y
<1> QED BY <1>4, <1>6, <1>7

\* The page that is due is ready.
LEMMA DueReady ==
  ASSUME NEW x, ~x.showText
  PROVE  Ready(x, Due(x))
<1> DEFINE b == DrawBackground(x)
<1>1. Due(x) = DrawProgress(x, b) /\ "bar" \in DOMAIN b
  BY DEF Due, DrawBackground
<1> HIDE DEF b
<1>2. CASE NoBarDue(x)
  BY <1>1, <1>2 DEF DrawProgress, NoBarDue, Ready, b
<1>3. CASE ~NoBarDue(x)
  <2>1. PICK bar : DrawProgress(x, b) = [b EXCEPT !.bar = bar]
    BY <1>3, Zenon DEF DrawProgress, NoBarDue
  <2> QED BY <1>1, <1>3, <2>1, SMTT(30) DEF Ready, b
<1> QED BY <1>2, <1>3

\* update_progress_locked leaves the screen sound if the page on display is ready,
\* and so is the other if they are taken for identical.
LEMMA UpdateProgressSound ==
  ASSUME NEW x, DOMAIN x = Fields,
         ~x.showText => Ready(x, x.front),
         x.identical /\ ~x.showText => Ready(x, x.back)
  PROVE  Same(x, UpdateProgress(x)) /\ Sound(UpdateProgress(x))
<1>1. PICK d : /\ UpdateProgress(x) = Flip(d) /\ Same(x, d) /\ d.back = Due(x)
               /\ d.front = x.front
  <2>1. CASE x.showText \/ ~x.identical
    <3> DEFINE e == DrawScreen(x)
               d == [e EXCEPT !.identical = TRUE]
    <3>1. Same(x, e) /\ e.back = Due(x) /\ e.front = x.front
      BY DrawScreenDraws, Zenon
    <3>2. UpdateProgress(x) = Flip(d)
      BY <2>1 DEF UpdateProgress
    <3> HIDE DEF e
    <3>3. Same(x, d) /\ d.back = Due(x) /\ d.front = x.front
      BY <3>1 DEF Same, Fields
    <3> QED BY <3>2, <3>3, Zenon
  <2>2. CASE ~x.showText /\ x.identical
    <3> DEFINE p == DrawProgress(x, x.back)
               d == [x EXCEPT !.back = p]
    <3>1. p = Due(x)
      BY <2>2, DrawProgressDraws
    <3>2. UpdateProgress(x) = Flip(d)
      BY <2>2 DEF UpdateProgress
    <3> HIDE DEF p
    <3>3. Same(x, d) /\ d.back = Due(x) /\ d.front = x.front
      BY <3>1 DEF Same, Fields
    <3> QED BY <3>2, <3>3, Zenon
  <2> QED BY <2>1, <2>2
<1> DEFINE y == Flip(d)
<1>2. Same(d, y) /\ y.front = d.back /\ (y.back = d.back \/ y.back = d.front)
  BY <1>1, FlipShows DEF Same
<1> HIDE DEF y
<1>3. Same(x, y)
  BY <1>1, <1>2 DEF Same
<1>4. Due(y) = Due(x)
  BY <1>3, SameDue
<1>5. ~x.showText => Ready(x, y.back)
  BY <1>1, <1>2, DueReady
<1>6. ~y.showText => Ready(y, y.back)
  <2>1. DrawBackground(y) = DrawBackground(x)
    BY <1>3 DEF Same, DrawBackground
  <2> QED BY <1>3, <1>5, <2>1, SMTT(30) DEF Same, Ready, NoBarDue
<1>7. Sound(y)
  BY <1>1, <1>2, <1>3, <1>4, <1>6, SMTT(30) DEF Sound, Same
<1> QED BY <1>1, <1>3, <1>7, SMTT(30) DEF y

\* update_progress_locked changes none of it, sound or not.
LEMMA UpdateProgressSame ==
  ASSUME NEW x, DOMAIN x = Fields
  PROVE  Same(x, UpdateProgress(x))
<1>1. PICK d : UpdateProgress(x) = Flip(d) /\ Same(x, d)
  <2>1. CASE x.showText \/ ~x.identical
    <3> DEFINE e == DrawScreen(x)
               d == [e EXCEPT !.identical = TRUE]
    <3>1. Same(x, e)
      BY DrawScreenDraws, Zenon
    <3>2. UpdateProgress(x) = Flip(d)
      BY <2>1 DEF UpdateProgress
    <3> HIDE DEF e
    <3>3. Same(x, d)
      BY <3>1 DEF Same, Fields
    <3> QED BY <3>2, <3>3
  <2>2. CASE ~x.showText /\ x.identical
    <3> DEFINE p == DrawProgress(x, x.back)
               d == [x EXCEPT !.back = p]
    <3>2. UpdateProgress(x) = Flip(d)
      BY <2>2 DEF UpdateProgress
    <3> HIDE DEF p
    <3>3. Same(x, d)
      BY DEF Same, Fields
    <3> QED BY <3>2, <3>3
  <2> QED BY <2>1, <2>2
<1>2. Same(d, Flip(d))
  BY <1>1, FlipShows DEF Same
<1> QED BY <1>1, <1>2 DEF Same

\* What a method has set before it calls update_progress_locked: neither the icon nor
\* the pages, and no bar is taken away.
Prepared(x, y) ==
    /\ DOMAIN y = Fields
    /\ y.icon = x.icon /\ y.showText = x.showText /\ y.identical = x.identical
    /\ y.front = x.front /\ y.back = x.back
    /\ NoBarDue(y) => NoBarDue(x)

LEMMA PreparedSound ==
  ASSUME NEW x, NEW y, Sound(x), Prepared(x, y)
  PROVE  Sound(UpdateProgress(y)) /\ UpdateProgress(y).icon = x.icon
<1>1. \A page : Ready(x, page) => Ready(y, page)
  <2>1. DrawBackground(y) = DrawBackground(x)
    BY DEF Prepared, DrawBackground
  <2> QED BY <2>1 DEF Ready, Prepared
<1>2. ~y.showText => Ready(y, y.front)
  <2>1. ~x.showText => Ready(x, x.front)
    BY DueReady DEF Sound
  <2> QED BY <1>1, <2>1 DEF Prepared
<1>3. y.identical /\ ~y.showText => Ready(y, y.back)
  BY <1>1 DEF Sound, Prepared
<1>4. DOMAIN y = Fields /\ y.icon = x.icon
  BY DEF Prepared
<1>5. Same(y, UpdateProgress(y)) /\ Sound(UpdateProgress(y))
  BY <1>2, <1>3, <1>4, UpdateProgressSound, SMTT(30)
<1> QED BY <1>4, <1>5 DEF Same

\* More of a segment is done.
LEMMA FurtherSound ==
  ASSUME NEW x, Sound(x), NEW f
  PROVE  /\ Sound(UpdateProgress([x EXCEPT !.prog = f]))
         /\ UpdateProgress([x EXCEPT !.prog = f]).icon = x.icon
<1> DEFINE y == [x EXCEPT !.prog = f]
<1>1. Prepared(x, y)
  BY DEF Sound, Prepared, Fields, NoBarDue
<1> HIDE DEF y
<1>2. Sound(UpdateProgress(y)) /\ UpdateProgress(y).icon = x.icon
  BY <1>1, PreparedSound
<1> QED BY <1>2 DEF y

\* The methods the main thread calls.  SetProgressType(EMPTY) is for StillAfter.
LEMMA MethodsSound ==
  ASSUME NEW x, Sound(x)
  PROVE  /\ Sound(PrintText(x)) /\ Sound(StartMenu(x)) /\ Sound(EndMenu(x))
         /\ \A icon : Sound(SetBackground(x, icon)) /\ SetBackground(x, icon).icon = icon
         /\ \A type : type # "EMPTY" => Sound(SetProgressType(x, type))
         /\ \A portion, seconds : Sound(ShowProgress(x, portion, seconds))
         /\ \A fraction : Sound(SetProgress(x, fraction)) /\ SetProgress(x, fraction).icon = x.icon
<1>0. DOMAIN x = Fields
  BY DEF Sound
<1>1. Sound(PrintText(x)) /\ Sound(StartMenu(x)) /\ Sound(EndMenu(x))
  BY <1>0, UpdateScreenSound DEF PrintText, StartMenu, EndMenu
<1>2. ASSUME NEW icon
      PROVE  Sound(SetBackground(x, icon)) /\ SetBackground(x, icon).icon = icon
  <2> DEFINE y == [x EXCEPT !.icon = icon]
  <2>1. DOMAIN y = Fields /\ y.icon = icon
    BY <1>0 DEF Fields
  <2> HIDE DEF y
  <2>2. Sound(UpdateScreen(y)) /\ Same(y, UpdateScreen(y))
    BY <2>1, UpdateScreenSound
  <2>3. SetBackground(x, icon) = UpdateScreen(y)
    BY DEF SetBackground, y
  <2> QED BY <2>1, <2>2, <2>3, SMTT(30) DEF Same
<1>3. ASSUME NEW type, type # "EMPTY" PROVE Sound(SetProgressType(x, type))
  <2> DEFINE y == [x EXCEPT !.type = type, !.start = 0, !.size = 0, !.prog = 0]
  <2>1. Prepared(x, y)
    BY <1>0, <1>3 DEF Prepared, Fields, NoBarDue
  <2> HIDE DEF y
  <2>2. Sound(UpdateProgress(y))
    BY <2>1, PreparedSound, SMTT(30)
  <2> QED BY <2>2 DEF SetProgressType, y
<1>4. ASSUME NEW portion, NEW seconds PROVE Sound(ShowProgress(x, portion, seconds))
  <2> DEFINE y == [x EXCEPT !.type = "DETERMINATE", !.start = @ + x.size, !.size = portion,
                            !.timed = seconds > 0, !.prog = 0]
  <2>1. Prepared(x, y)
    BY <1>0, SMTT(30) DEF Prepared, Fields, NoBarDue
  <2> HIDE DEF y
  <2>2. Sound(UpdateProgress(y))
    BY <2>1, PreparedSound
  <2> QED BY <2>2 DEF ShowProgress, y
<1>5. ASSUME NEW fraction
      PROVE  Sound(SetProgress(x, fraction)) /\ SetProgress(x, fraction).icon = x.icon
  <2>1. \A f : Sound(UpdateProgress([x EXCEPT !.prog = f]))
               /\ UpdateProgress([x EXCEPT !.prog = f]).icon = x.icon
    BY <1>0, FurtherSound, SMTT(30)
  <2> QED BY <2>1 DEF SetProgress
<1> QED BY <1>1, <1>2, <1>3, <1>4, <1>5, SMTT(30)

\* The progress thread
LEMMA ProgressLoopSound ==
  ASSUME NEW x, Sound(x), NEW p
  PROVE  Sound(ProgressLoop(x, p)) /\ ProgressLoop(x, p).icon = x.icon
<1>1. Prepared(x, x)
  BY DEF Sound, Prepared
<1>2. Sound(UpdateProgress(x)) /\ UpdateProgress(x).icon = x.icon
  BY <1>1, PreparedSound
<1>3. /\ Sound(UpdateProgress([x EXCEPT !.prog = p]))
      /\ UpdateProgress([x EXCEPT !.prog = p]).icon = x.icon
  BY FurtherSound
<1> QED BY <1>2, <1>3, SMTT(30) DEF ProgressLoop

\* The key that toggles the text redraws the screen, whatever it was.
LEMMA ShowTextSound ==
  ASSUME NEW x, DOMAIN x = Fields, NEW visible
  PROVE  /\ Sound(ShowText(x, visible))
         /\ ShowText(x, visible).icon = x.icon /\ ShowText(x, visible).type = x.type
<1> DEFINE y == [x EXCEPT !.showText = visible]
<1>1. DOMAIN y = Fields /\ y.icon = x.icon /\ y.type = x.type
  BY DEF Fields
<1> HIDE DEF y
<1>2. Sound(UpdateScreen(y)) /\ Same(y, UpdateScreen(y))
  BY <1>1, UpdateScreenSound
<1>3. ShowText(x, visible) = UpdateScreen(y)
  BY DEF ShowText, y
<1> QED BY <1>1, <1>2, <1>3, SMTT(30) DEF Same

\* prompt_and_wait takes the bar away; nothing is drawn until the menu is.
LEMMA StillAfter ==
  ASSUME NEW x, DOMAIN x = Fields, x.icon \in {"NO_COMMAND", "ERROR"}
  PROVE  Still(SetProgressType(x, "EMPTY"))
<1> DEFINE y == [x EXCEPT !.type = "EMPTY", !.start = 0, !.size = 0, !.prog = 0]
<1>1. DOMAIN y = Fields /\ y.icon = x.icon /\ y.type = "EMPTY"
  BY DEF Fields
<1> HIDE DEF y
<1>2. Same(y, UpdateProgress(y))
  BY <1>1, UpdateProgressSame
<1>3. SetProgressType(x, "EMPTY") = UpdateProgress(y)
  BY DEF SetProgressType, y
<1> QED BY <1>1, <1>2, <1>3, SMTT(30) DEF Same, Still

LEMMA StillStays ==
  ASSUME NEW x, Still(x), NEW p
  PROVE  ProgressLoop(x, p) = x
BY DEF Still, ProgressLoop

\* A call of the main thread's that is not part of the menu's beginning
LEMMA StepSound ==
  ASSUME NEW from, NEW to, NEW new, Step(from, to, new), ScreenInv,
         Sound(new), to \notin {"menu", "empty"}
  PROVE  ScreenInv'
BY DEF Step, ScreenInv

\* What the main thread shows keeps the screen sound.
LEMMA MainSound == ScreenInv /\ MainThread => ScreenInv'
<1> SUFFICES ASSUME ScreenInv, MainThread PROVE ScreenInv'
  OBVIOUS
<1>1. ASSUME pc \notin {"menu"}
      PROVE  /\ Sound(u) /\ Sound(PrintText(u)) /\ Sound(StartMenu(u)) /\ Sound(EndMenu(u))
             /\ \A icon : Sound(SetBackground(u, icon)) /\ SetBackground(u, icon).icon = icon
             /\ \A type : type # "EMPTY" => Sound(SetProgressType(u, type))
             /\ \A portion, seconds : Sound(ShowProgress(u, portion, seconds))
             /\ \A fraction : Sound(SetProgress(u, fraction)) /\ SetProgress(u, fraction).icon = u.icon
  <2>1. Sound(u)
    BY <1>1 DEF ScreenInv
  <2> QED BY <2>1, MethodsSound
<1>2. CASE InstallPackage
  BY <1>1, <1>2 DEF InstallPackage, End, ScreenInv
<1>3. CASE ShowInstall
  <2>1. pc # "menu"
    BY <1>3 DEF ShowInstall, Step
  <2>2. /\ Sound(u) /\ Sound(PrintText(u)) /\ Sound(SetBackground(u, "INSTALLING_UPDATE"))
        /\ Sound(SetProgressType(u, "DETERMINATE")) /\ Sound(ShowProgress(u, Verification, 60))
    BY <1>1, <2>1
  <2>3. \E from, to, new : Step(from, to, new) /\ Sound(new) /\ to \notin {"menu", "empty"}
    BY <1>3, <2>2 DEF ShowInstall
  <2> QED BY <2>3, StepSound, SMTT(30)
<1>4. CASE VerifyFile
  BY <1>1, <1>4 DEF VerifyFile, ScreenInv
<1>5. CASE InstallFails
  BY <1>1, <1>5 DEF InstallFails, End, ScreenInv
<1>6. CASE TryUpdateBinary
  BY <1>1, <1>6 DEF TryUpdateBinary, ScreenInv
<1>7. CASE ReadCommand
  <2>1. pc = "read" /\ pc' = "read" /\ Sound(u)
    BY <1>1, <1>7 DEF ReadCommand
  <2>2. Sound(u')
    BY <1>1, <1>7, <2>1, SMTT(30) DEF ReadCommand
  <2> QED BY <2>1, <2>2 DEF ScreenInv
<1>8. CASE WaitChild
  BY <1>1, <1>8 DEF WaitChild, End, ScreenInv
<1>9. CASE EraseVolume
  BY <1>1, <1>9, StepSound DEF EraseVolume, Step
<1>10. CASE AfterInstall
  <2>1. ASSUME pc = "show log" PROVE Sound(ShowText(u, TRUE))
    BY <1>1, <2>1, ShowTextSound, Zenon DEF Sound
  <2> QED BY <1>1, <1>10, <2>1, StepSound, Zenon DEF AfterInstall, Step
<1>11. CASE PromptAndWait
  <2>1. CASE pc = "prompt"
    BY <1>1, <1>11, <2>1, SMTT(30) DEF PromptAndWait, Step, ScreenInv
  <2>2. CASE pc = "empty"
    BY <1>1, <1>11, <2>2, StillAfter, SMTT(30) DEF PromptAndWait, Step, ScreenInv, Sound
  <2>3. CASE pc = "menu"
    <3>1. Sound(StartMenu(u))
      BY <2>3, UpdateScreenSound, SMTT(30) DEF StartMenu, ScreenInv, Still
    <3> QED BY <1>11, <2>3, <3>1, SMTT(30) DEF PromptAndWait, Step, ScreenInv
  <2> QED BY <1>11, <2>1, <2>2, <2>3, SMTT(30) DEF PromptAndWait, Step
<1>12. CASE MenuInstall
  BY <1>1, <1>12, StepSound, SMTT(30) DEF MenuInstall, Step
<1> QED BY <1>2, <1>3, <1>4, <1>5, <1>6, <1>7, <1>8, <1>9, <1>10, <1>11, <1>12, SMTT(30) DEF MainThread

\* So do the progress thread and the key, at any moment.
LEMMA OthersSound == ScreenInv /\ (ProgressThread \/ ToggleText) => ScreenInv'
<1> SUFFICES ASSUME ScreenInv, ProgressThread \/ ToggleText PROVE ScreenInv'
  OBVIOUS
<1>1. pc' = pc
  BY DEF ProgressThread, ToggleText
<1>2. CASE ProgressThread
  <2>1. PICK p : u' = ProgressLoop(u, p)
    BY <1>2 DEF ProgressThread
  <2>2. CASE pc = "menu"
    BY <1>1, <2>1, <2>2, StillStays, SMTT(30) DEF ScreenInv
  <2>3. CASE pc # "menu"
    <3>1. Sound(u') /\ u'.icon = u.icon
      BY <2>1, <2>3, ProgressLoopSound, SMTT(30) DEF ScreenInv
    <3> QED BY <1>1, <2>3, <3>1, SMTT(30) DEF ScreenInv
  <2> QED BY <2>2, <2>3
<1>3. CASE ToggleText
  <2>1. DOMAIN u = Fields
    BY DEF ScreenInv, Sound, Still
  <2>2. Sound(u') /\ u'.icon = u.icon /\ u'.type = u.type
    BY <1>3, <2>1, ShowTextSound, SMTT(30) DEF ToggleText
  <2> QED BY <1>1, <2>2 DEF ScreenInv, Sound, Still
<1> QED BY <1>2, <1>3

\* ScreenUI::Init
LEMMA InitUiSound == ASSUME NEW b PROVE Sound(InitUi(b))
<1> DEFINE x == InitUi(b)
<1>1. /\ DOMAIN x = Fields /\ x.front = Blank /\ ~x.showText /\ ~x.identical
      /\ x.icon = "NONE" /\ x.type = "EMPTY"
  BY DEF InitUi, Fields
<1>2. DrawBackground(x) = Blank
  BY <1>1 DEF DrawBackground, Blank
<1> HIDE DEF x
<1>3. Due(x) = Blank
  BY <1>1, <1>2 DEF Due, DrawProgress
<1>4. Sound(x)
  BY <1>1, <1>3 DEF Sound
<1> QED BY <1>4 DEF x

\* What is on the screen is what the state says, whichever of the main thread, the
\* progress thread and the key has drawn last and whether it drew all or only the bar.
THEOREM ScreenIsState == Spec => []ShownIsState
<1>1. Init => ScreenInv
  BY InitUiSound DEF Init, ScreenInv
<1>2. ScreenInv /\ [Next]_vars => ScreenInv'
  <2> SUFFICES ASSUME ScreenInv, [Next]_vars PROVE ScreenInv'
    OBVIOUS
  <2>1. CASE MainThread
    BY <2>1, MainSound
  <2>2. CASE Child
    BY <2>2 DEF Child, ScreenInv
  <2>3. CASE Again
    <3>1. Sound(u') /\ pc' = "chosen"
      BY <2>3, MethodsSound DEF Again, ScreenInv
    <3> QED BY <3>1 DEF ScreenInv
  <2>4. CASE PowerCut
    <3>1. Sound(u') /\ pc' = "install"
      BY <2>4, InitUiSound DEF PowerCut
    <3> QED BY <3>1 DEF ScreenInv
  <2>5. CASE ProgressThread \/ ToggleText
    BY <2>5, OthersSound
  <2>6. CASE UNCHANGED vars
    BY <2>6 DEF vars, recoveryVars, ScreenInv
  <2> QED BY <2>1, <2>2, <2>3, <2>4, <2>5, <2>6, SMTT(30) DEF Next
<1>3. ScreenInv => ShownIsState
  <2> SUFFICES ASSUME ScreenInv, pc # "menu" PROVE u.front = DrawScreen(u).back
    BY DEF ShownIsState
  <2>1. Sound(u)
    BY DEF ScreenInv
  <2> QED BY <2>1, DrawScreenDraws, Zenon DEF Sound
<1> QED BY <1>1, <1>2, <1>3, PTL DEF Spec

-----------------------------------------------------------------------------
(***************************************************************************)
(* wipe_cache                                                                *)
(***************************************************************************)

\* Before try_update_binary
Early == {"chosen", "install", "background", "finding", "type", "portion", "mount", "opening",
          "keys", "verifying", "verify", "zip", "installing", "binary"}

IsSeq(s) == s \in Seq({s[i] : i \in DOMAIN s})

WipeIn(s) == \E i \in DOMAIN s : s[i][1] = "wipe_cache"

WipeInv ==
    /\ wipe \in BOOLEAN /\ asked \in BOOLEAN
    /\ IsSeq(pipe)
    /\ pc # "read" => child = "none" /\ pipe = <<>>
    /\ pc \in Early => ~asked
    /\ pc \in Early \cup {"read"} => result = "none"
    /\ pc = "read" => (asked <=> (wipe \/ WipeIn(pipe)))
    /\ result = "SUCCESS" => wipe = asked

\* A sequence is one of its own elements.
LEMMA SeqIsSeq == ASSUME NEW S, NEW s \in Seq(S) PROVE IsSeq(s)
<1> DEFINE R == {s[i] : i \in DOMAIN s}
<1>1. Len(s) \in Nat /\ DOMAIN s = 1..Len(s)
  BY LenProperties
<1>2. s = [i \in 1..Len(s) |-> s[i]]
  BY <1>1, SeqDef, SMTT(30)
<1>3. \A i \in 1..Len(s) : s[i] \in R
  BY <1>1
<1> HIDE DEF R
<1>4. s \in [1..Len(s) -> R]
  BY <1>2, <1>3
<1>5. s \in Seq(R)
  BY <1>1, <1>4, SeqDef, SMTT(30)
<1> QED BY <1>5 DEF IsSeq, R

LEMMA EmptyIsSeq == IsSeq(<<>>) /\ ~WipeIn(<<>>)
BY DEF IsSeq, WipeIn

\* Sequences end to end: the commands of the first stay.
LEMMA ConcatIsSeq ==
  ASSUME NEW s, NEW t, IsSeq(s), IsSeq(t)
  PROVE  IsSeq(s \o t) /\ (WipeIn(s) => WipeIn(s \o t))
<1> DEFINE S == {s[i] : i \in DOMAIN s} \cup {t[i] : i \in DOMAIN t}
           c == s \o t
<1>1. s \in Seq(S) /\ t \in Seq(S)
  BY DEF IsSeq
<1> HIDE DEF S
<1>2. c \in Seq(S) /\ Len(c) = Len(s) + Len(t) /\ \A i \in 1..Len(s) : c[i] = s[i]
  BY <1>1, ConcatProperties, SMTT(30)
<1>3. Len(s) \in Nat /\ Len(t) \in Nat /\ DOMAIN s = 1..Len(s)
  BY <1>1, LenProperties
<1>4. IsSeq(c)
  BY <1>2, SeqIsSeq, Zenon
<1>5. DOMAIN c = 1..Len(c)
  BY <1>2, LenProperties
<1>6. DOMAIN s \subseteq DOMAIN c
  <2>1. Len(c) = Len(s) + Len(t)
    BY <1>2
  <2> QED BY <1>3, <1>5, <2>1, SMTT(30)
<1>7. WipeIn(s) => WipeIn(c)
  BY <1>2, <1>3, <1>6, SMTT(30) DEF WipeIn
<1> QED BY <1>4, <1>7, SMTT(30)

\* One command is read.
LEMMA TailIsSeq ==
  ASSUME NEW s, IsSeq(s), s # <<>>
  PROVE  /\ IsSeq(Tail(s))
         /\ WipeIn(s) <=> (Head(s)[1] = "wipe_cache" \/ WipeIn(Tail(s)))
<1> DEFINE S == {s[i] : i \in DOMAIN s}
<1>1. s \in Seq(S)
  BY DEF IsSeq
<1> HIDE DEF S
<1>2. /\ Head(s) = s[1] /\ Tail(s) \in Seq(S) /\ Len(Tail(s)) = Len(s) - 1
      /\ \A i \in 1..Len(Tail(s)) : Tail(s)[i] = s[i + 1]
  BY <1>1, HeadTailProperties
<1>3. Len(s) \in Nat /\ Len(s) # 0 /\ DOMAIN s = 1..Len(s) /\ DOMAIN Tail(s) = 1..Len(Tail(s))
  BY <1>1, <1>2, LenProperties, EmptySeq, SMTT(30)
<1>4. IsSeq(Tail(s))
  BY <1>2, SeqIsSeq, Zenon
<1>5. WipeIn(s) => Head(s)[1] = "wipe_cache" \/ WipeIn(Tail(s))
  <2> SUFFICES ASSUME NEW i \in 1..Len(s), s[i][1] = "wipe_cache", i # 1
               PROVE  WipeIn(Tail(s))
    BY <1>2, <1>3, SMTT(30) DEF WipeIn
  <2>0. Len(Tail(s)) = Len(s) - 1 /\ Len(s) \in Nat
    BY <1>2, <1>3, SMTT(30)
  <2>1. i - 1 \in 1..Len(Tail(s)) /\ (i - 1) + 1 = i
    BY <2>0
  <2>2. Tail(s)[i - 1] = s[i]
    BY <1>2, <2>1, SMTT(30)
  <2> QED BY <1>3, <2>1, <2>2, Zenon DEF WipeIn
<1>6. Head(s)[1] = "wipe_cache" => WipeIn(s)
  <2>1. 1 \in DOMAIN s
    BY <1>3
  <2> QED BY <1>2, <2>1 DEF WipeIn
<1>7. WipeIn(Tail(s)) => WipeIn(s)
  <2> SUFFICES ASSUME NEW i \in 1..Len(Tail(s)), Tail(s)[i][1] = "wipe_cache"
               PROVE  WipeIn(s)
    BY <1>3 DEF WipeIn
  <2>1. Len(Tail(s)) = Len(s) - 1 /\ Len(s) \in Nat /\ Tail(s)[i] = s[i + 1]
    BY <1>2, <1>3
  <2>2. i + 1 \in 1..Len(s)
    BY <2>1
  <2> QED BY <1>3, <2>1, <2>2, SMTT(30) DEF WipeIn
<1> QED BY <1>4, <1>5, <1>6, <1>7, SMTT(30)

\* What the outcomes of the functions say to recovery
LEMMA OutcomeSays ==
  /\ \A x, v : Ok(x, v).out = <<>>
  /\ \A x : Aborts(x).out = <<>>
  /\ \A x, v : Fault(x, v).out = <<>>
  /\ \A x : FaultAborts(x).out = <<>>
  /\ \A x : Killed(x).out = <<>>
  /\ \A x, v : [Ok(x, v) EXCEPT !.msg = "error"].out = <<>>
  /\ \A x, v, out : Says(x, v, out).out = out
<1>1. \A x, v : Ok(x, v).out = <<>>
  BY DEF Ok
<1>2. \A x : Aborts(x).out = <<>>
  BY DEF Ok, Aborts
<1>3. \A x, v : Fault(x, v).out = <<>>
  BY DEF Ok, Fault
<1>4. \A x : FaultAborts(x).out = <<>>
  BY DEF Ok, Aborts, FaultAborts
<1>5. \A x : Killed(x).out = <<>>
  BY DEF Ok, Killed
<1>6. \A x, v : [Ok(x, v) EXCEPT !.msg = "error"].out = <<>>
  BY DEF Ok
<1>7. \A x, v, out : Says(x, v, out).out = out
  BY DEF Ok, Says
<1> QED BY <1>1, <1>2, <1>3, <1>4, <1>5, <1>6, <1>7, SMTT(30)

\* The functions that say nothing
LEMMA FilesQuiet ==
  ASSUME NEW fn, NEW x, NEW a
  PROVE  \A o \in MountFn(x, a) \cup IsMountedFn(x, a) \cup UnmountFn(x, a) \cup FormatFn(x, a)
                   \cup DeleteFn(fn, x, a) \cup SymlinkFn(x, a) \cup RenameFn(x, a) :
            o.out = <<>>
<1>1. \A o \in MountFn(x, a) \cup IsMountedFn(x, a) \cup UnmountFn(x, a) : o.out = <<>>
  BY OutcomeSays DEF MountFn, IsMountedFn, UnmountFn
<1>2. \A o \in FormatFn(x, a) \cup RenameFn(x, a) : o.out = <<>>
  BY OutcomeSays DEF FormatFn, RenameFn
<1>3. \A o \in DeleteFn(fn, x, a) : o.out = <<>>
  <2>1. \A o \in DirUnlinkHierarchy(x) : o.out = <<>>
    BY OutcomeSays DEF DirUnlinkHierarchy
  <2> QED BY <2>1, OutcomeSays DEF DeleteFn
<1>4. \A o \in SymlinkFn(x, a) : o.out = <<>>
  <2> SUFFICES ASSUME NEW o \in SymlinkFn(x, a) PROVE o.out = <<>>
    OBVIOUS
  <2>1. (\E y : o = Ok(y, Empty)) \/ (\E y : o = FaultAborts(y))
    BY DEF SymlinkFn
  <2> QED BY <2>1, OutcomeSays
<1> QED BY <1>1, <1>2, <1>3, <1>4, SMTT(30)

LEMMA PackageQuiet ==
  ASSUME NEW fn, NEW x, NEW a
  PROVE  \A o \in PackageExtractDirFn(x) \cup PackageExtractFileFn(x, a) \cup SetMetadataFn(fn, x, a) :
            o.out = <<>>
<1>1. \A o \in PackageExtractDirFn(x) : o.out = <<>>
  BY OutcomeSays DEF PackageExtractDirFn
<1>2. \A o \in PackageExtractFileFn(x, a) : o.out = <<>>
  BY OutcomeSays DEF PackageExtractFileFn, ExtractFile, ExtractBlob
<1>3. \A o \in SetMetadataFn(fn, x, a) : o.out = <<>>
  <2> SUFFICES ASSUME NEW o \in SetMetadataFn(fn, x, a) PROVE o.out = <<>>
    OBVIOUS
  <2>1. \/ \E y : o = [Ok(y, Empty) EXCEPT !.msg = "error"]
        \/ \E y : o = Ok(y, Empty)
        \/ \E y : o = FaultAborts(y)
        \/ \E y : o = Fault(y, Empty)
    BY DEF SetMetadataFn
  <2>2. CASE \E y : o = [Ok(y, Empty) EXCEPT !.msg = "error"]
    BY <2>2, Zenon DEF Ok
  <2> QED BY <2>1, <2>2, OutcomeSays, SMTT(30)
<1> QED BY <1>1, <1>2, <1>3, SMTT(30)

LEMMA ReadersQuiet ==
  ASSUME NEW x, NEW a
  PROVE  \A o \in GetPropFn(x) \cup FileGetPropFn(x, a) \cup ReadFileFn(x, a) \cup Sha1CheckFn(x, a)
                   \cup RunProgramFn(x) :
            o.out = <<>>
<1>1. \A o \in GetPropFn(x) \cup ReadFileFn(x, a) \cup RunProgramFn(x) : o.out = <<>>
  BY OutcomeSays DEF GetPropFn, ReadFileFn, RunProgramFn
<1>2. \A o \in FileGetPropFn(x, a) : o.out = <<>>
  BY OutcomeSays DEF FileGetPropFn
<1>3. \A o \in Sha1CheckFn(x, a) : o.out = <<>>
  BY OutcomeSays DEF Sha1CheckFn
<1> QED BY <1>1, <1>2, <1>3, SMTT(30)

LEMMA PatchQuiet ==
  ASSUME NEW x, NEW a
  PROVE  \A o \in WriteRawImageFn(x, a) \cup ApplyPatchFn(x, a) \cup ApplyPatchCheckFn(x, a)
                   \cup ApplyPatchSpaceFn(x, a) :
            o.out = <<>>
<1>1. \A o \in WriteRawImageFn(x, a) : o.out = <<>>
  BY OutcomeSays DEF WriteRawImageFn
<1>2. \A o \in ApplyPatchFn(x, a) : o.out = <<>>
  BY OutcomeSays DEF ApplyPatchFn
<1>3. \A o \in ApplyPatchCheckFn(x, a) \cup ApplyPatchSpaceFn(x, a) : o.out = <<>>
  BY OutcomeSays DEF ApplyPatchCheckFn, ApplyPatchSpaceFn
<1> QED BY <1>1, <1>2, <1>3, SMTT(30)

\* The functions that do
LEMMA SpeakersSay ==
  ASSUME NEW x, NEW a
  PROVE  \A o \in ShowProgressFn(x, a) \cup SetProgressFn(x, a) \cup UIPrintFn(x, a) \cup WipeCacheFn(x) :
            IsSeq(o.out)
<1>1. \A c : IsSeq(<<c>>)
  <2> SUFFICES ASSUME NEW c PROVE IsSeq(<<c>>)
    BY Zenon
  <2>1. <<c>> \in Seq({c})
    OBVIOUS
  <2> QED BY <2>1, SeqIsSeq, Zenon
<1>2. \A o \in ShowProgressFn(x, a) \cup SetProgressFn(x, a) \cup WipeCacheFn(x) : IsSeq(o.out)
  BY <1>1, OutcomeSays DEF ShowProgressFn, SetProgressFn, WipeCacheFn
<1>3. \A o \in UIPrintFn(x, a) : IsSeq(o.out)
  <2> DEFINE s == FlattenSeq([i \in DOMAIN a |-> a[i].data])
             out == (IF s = <<>> THEN <<>> ELSE <<<<"ui_print">>>>) \o <<<<"ui_print">>>>
  <2>1. UIPrintFn(x, a) = {Says(x, Str(s), out)}
    BY DEF UIPrintFn
  <2> HIDE DEF s
  <2>2. IsSeq(out)
    BY <1>1, EmptyIsSeq, ConcatIsSeq, SMTT(30)
  <2> HIDE DEF out
  <2> QED BY <2>1, <2>2, OutcomeSays, SMTT(30)
<1> QED BY <1>2, <1>3

\* Whatever the function and its arguments, it sends a sequence of commands.
LEMMA OutcomesSay == ASSUME NEW fn, NEW x, NEW a, NEW o \in Outcomes(fn, x, a) PROVE IsSeq(o.out)
<1> SUFFICES ASSUME o.out # <<>> PROVE IsSeq(o.out)
  BY EmptyIsSeq
<1>1. /\ o \notin MountFn(x, a) /\ o \notin IsMountedFn(x, a) /\ o \notin UnmountFn(x, a)
      /\ o \notin FormatFn(x, a) /\ o \notin DeleteFn(fn, x, a) /\ o \notin SymlinkFn(x, a)
      /\ o \notin RenameFn(x, a)
  BY FilesQuiet
<1>2. /\ o \notin PackageExtractDirFn(x) /\ o \notin PackageExtractFileFn(x, a)
      /\ o \notin SetMetadataFn(fn, x, a)
  BY PackageQuiet
<1>3. /\ o \notin GetPropFn(x) /\ o \notin FileGetPropFn(x, a) /\ o \notin ReadFileFn(x, a)
      /\ o \notin Sha1CheckFn(x, a) /\ o \notin RunProgramFn(x)
  BY ReadersQuiet
<1>4. /\ o \notin WriteRawImageFn(x, a) /\ o \notin ApplyPatchFn(x, a)
      /\ o \notin ApplyPatchCheckFn(x, a) /\ o \notin ApplyPatchSpaceFn(x, a)
  BY PatchQuiet
<1>5. o \in ShowProgressFn(x, a) \cup SetProgressFn(x, a) \cup UIPrintFn(x, a) \cup WipeCacheFn(x)
  BY <1>1, <1>2, <1>3, <1>4, SMTT(30) DEF Outcomes
<1> QED BY <1>5, SpeakersSay, SMTT(30)

\* So does main when the script has ended.
LEMMA ClosingSays == ASSUME NEW v, NEW msg PROVE IsSeq(Closing(v, msg))
<1> DEFINE line == <<"ui_print">>
<1>1. <<line>> \in Seq({line}) /\ <<line, line>> \in Seq({line})
  <2> HIDE DEF line
  <2> QED OBVIOUS
<1>2. IsSeq(<<line>>) /\ IsSeq(<<line, line>>)
  BY <1>1, SeqIsSeq, Zenon
<1> QED BY <1>2, EmptyIsSeq DEF Closing

LEMMA WriteAppends ==
  ASSUME NEW out, IsSeq(out), IsSeq(pipe), Write(out)
  PROVE  IsSeq(pipe') /\ (WipeIn(pipe) => WipeIn(pipe'))
BY ConcatIsSeq DEF Write

\* The updater only adds to the pipe, and only while it runs.
LEMMA UpdaterWrites ==
  ASSUME UpdaterSteps, IsSeq(pipe)
  PROVE  child # "none" /\ IsSeq(pipe') /\ (WipeIn(pipe) => WipeIn(pipe'))
<1>1. CASE Interpret
  <2>1. UNCHANGED pipe \/ \E v, msg : Write(Closing(v, msg))
    BY <1>1, Zenon DEF Interpret
  <2>2. child # "none"
    BY <1>1, Zenon DEF Interpret, Running
  <2> QED BY <2>1, <2>2, ClosingSays, WriteAppends, SMTT(30)
<1>2. CASE Apply
  <2>1. \/ UNCHANGED pipe
        \/ \E fn, a, v, msg : \E o \in Outcomes(fn, w, a) : Write(o.out \o Closing(v, msg))
    BY <1>2, Zenon DEF Apply
  <2>2. child # "none"
    BY <1>2, Zenon DEF Apply, Running
  <2>3. CASE \E fn, a, v, msg : \E o \in Outcomes(fn, w, a) : Write(o.out \o Closing(v, msg))
    <3>1. PICK fn, a, v, msg : \E o \in Outcomes(fn, w, a) : Write(o.out \o Closing(v, msg))
      BY <2>3
    <3>2. PICK o \in Outcomes(fn, w, a) : Write(o.out \o Closing(v, msg))
      BY <3>1
    <3>3. IsSeq(o.out) /\ IsSeq(Closing(v, msg))
      BY OutcomesSay, ClosingSays, SMTT(30)
    <3>4. IsSeq(o.out \o Closing(v, msg))
      BY <3>3, ConcatIsSeq, SMTT(30)
    <3> QED BY <2>2, <3>2, <3>4, WriteAppends, SMTT(30)
  <2> QED BY <2>1, <2>2, <2>3, SMTT(30)
<1>3. CASE Unwind
  <2>1. UNCHANGED pipe \/ \E v, msg : Write(Closing(v, msg))
    BY <1>3, Zenon DEF Unwind
  <2>2. child # "none"
    BY <1>3 DEF Unwind
  <2> QED BY <2>1, <2>2, ClosingSays, WriteAppends
<1>4. CASE Main
  <2>1. <<<<"ui_print">>>> \in Seq({<<"ui_print">>})
    OBVIOUS
  <2>2. UNCHANGED pipe \/ \E out \in {<<>>, <<<<"ui_print">>>>} : Write(out)
    BY <1>4, SMTT(30) DEF Main
  <2>3. child # "none"
    BY <1>4 DEF Main
  <2> QED BY <2>1, <2>2, <2>3, EmptyIsSeq, SeqIsSeq, WriteAppends, Zenon
<1> QED BY <1>1, <1>2, <1>3, <1>4, SMTT(30) DEF UpdaterSteps

-----------------------------------------------------------------------------
\* A call of the main thread's before or after the updater's time
LEMMA StepWipe ==
  ASSUME NEW from, NEW to, NEW new, Step(from, to, new), WipeInv,
         from # "read", to # "read", to \in Early => from \in Early
  PROVE  WipeInv'
BY DEF Step, WipeInv, updaterVars

\* A thread that touches neither the pipe nor the answer
LEMMA WipeFrame ==
  ASSUME WipeInv, UNCHANGED <<updaterVars, pc, result, wipe, asked>>
  PROVE  WipeInv'
BY SMTT(30) DEF WipeInv, updaterVars, WipeIn, IsSeq

\* The whole of install_package, and what follows it
LEMMA MainWipe == WipeInv /\ MainThread => WipeInv'
<1> SUFFICES ASSUME WipeInv, MainThread PROVE WipeInv'
  OBVIOUS
<1>1. CASE InstallPackage
  BY <1>1 DEF InstallPackage, End, WipeInv, Early
<1>2. CASE ShowInstall
  BY <1>2, StepWipe, SMTT(30) DEF ShowInstall, Early
<1>3. CASE VerifyFile
  BY <1>3 DEF VerifyFile, WipeInv, Early, updaterVars
<1>4. CASE InstallFails
  BY <1>4 DEF InstallFails, End, WipeInv, Early
<1>5. CASE TryUpdateBinary
  BY <1>5, EmptyIsSeq, Zenon DEF TryUpdateBinary, WipeInv, Early
<1>6. CASE ReadCommand
  <2>1. /\ pc = "read" /\ pc' = "read" /\ pipe # <<>> /\ pipe' = Tail(pipe)
        /\ wipe' = (wipe \/ Head(pipe)[1] = "wipe_cache")
        /\ UNCHANGED <<asked, result, child>>
    BY <1>6 DEF ReadCommand
  <2>2. IsSeq(pipe') /\ (WipeIn(pipe) <=> (Head(pipe)[1] = "wipe_cache" \/ WipeIn(pipe')))
    BY <2>1, TailIsSeq, SMTT(30) DEF WipeInv
  <2> QED BY <2>1, <2>2, SMTT(30) DEF WipeInv, Early
<1>7. CASE WaitChild
  BY <1>7, EmptyIsSeq, SMTT(30) DEF WaitChild, End, WipeInv, Early
<1>8. CASE EraseVolume
  BY <1>8, StepWipe, SMTT(30) DEF EraseVolume, Early
<1>9. CASE AfterInstall
  BY <1>9, StepWipe, Zenon DEF AfterInstall, Early
<1>10. CASE PromptAndWait
  BY <1>10, StepWipe, SMTT(30) DEF PromptAndWait, Early
<1>11. CASE MenuInstall
  BY <1>11, StepWipe DEF MenuInstall, Early
<1> QED BY <1>1, <1>2, <1>3, <1>4, <1>5, <1>6, <1>7, <1>8, <1>9, <1>10, <1>11 DEF MainThread

\* The updater while it runs
LEMMA ChildWipe == WipeInv /\ Child => WipeInv'
<1> SUFFICES ASSUME WipeInv, Child PROVE WipeInv'
  OBVIOUS
<1>1. child # "none" /\ IsSeq(pipe') /\ (WipeIn(pipe) => WipeIn(pipe'))
  BY UpdaterWrites DEF Child, WipeInv
<1>2. pc = "read"
  BY <1>1 DEF WipeInv
<1>3. asked' = (asked \/ WipeIn(pipe')) /\ UNCHANGED <<pc, result, wipe>>
  BY SMTT(30) DEF Child, WipeIn
<1> QED BY <1>1, <1>2, <1>3, Zenon DEF WipeInv, Early

\* After a successful installation the cache is to be wiped just if the script has
\* asked for it since the update was last started: nothing is lost in the pipe, and no
\* answer is left over from an attempt before, whatever the scripts, faults and cuts.
THEOREM WipeIsAsAsked == Spec => []WipeAsAsked
<1>1. Init => WipeInv
  BY EmptyIsSeq, Zenon DEF Init, InitUpdater, WipeInv, Early
<1>2. WipeInv /\ [Next]_vars => WipeInv'
  <2> SUFFICES ASSUME WipeInv, [Next]_vars PROVE WipeInv'
    OBVIOUS
  <2>1. CASE MainThread
    BY <2>1, MainWipe
  <2>2. CASE Child
    BY <2>2, ChildWipe
  <2>3. CASE Again
    BY <2>3, Zenon DEF Again, WipeInv, Early
  <2>4. CASE PowerCut
    BY <2>4, EmptyIsSeq, Zenon DEF PowerCut, PowerLost, WipeInv, Early
  <2>5. CASE ProgressThread
    BY <2>5, WipeFrame, SMTT(30) DEF ProgressThread
  <2>6. CASE ToggleText
    BY <2>6, WipeFrame, SMTT(30) DEF ToggleText
  <2>7. CASE UNCHANGED vars
    BY <2>7, WipeFrame DEF vars, recoveryVars
  <2> QED BY <2>1, <2>2, <2>3, <2>4, <2>5, <2>6, <2>7, SMTT(30) DEF Next
<1>3. WipeInv => WipeAsAsked
  BY DEF WipeInv, WipeAsAsked
<1> QED BY <1>1, <1>2, <1>3, PTL DEF Spec
=============================================================================
