------------------------------ MODULE Install -------------------------------
(***************************************************************************)
(* An update from install_package (install.cpp) to the reboot or the menu    *)
(* (main and prompt_and_wait of recovery.cpp): the updater, the thread of    *)
(* recovery that reads its commands, the progress thread and the key that    *)
(* turns the text on and off (ui.cpp), all at once.  After a power cut       *)
(* recovery starts again and, the command being still there (Recovery),      *)
(* installs again; from the menu the user may.                               *)
(***************************************************************************)
EXTENDS Updater, Screen

CONSTANTS
    Verification,   \* VERIFICATION_PROGRESS_FRACTION, in units of the bar
    MaxStarts       \* how often the update is started

ASSUME InstallAssumption ==
    Verification \in 0..Full /\ (Full - Verification) % Parts = 0 /\ PipeCap >= 2

VARIABLES
    pc,         \* what the main thread of recovery calls next
    sofar,      \* so_far of verify_file
    result,     \* of install_package
    wipe,       \* *wipe_cache
    u,          \* the screen
    starts,
    asked,      \* wipe_cache() was called since the update was started
    fromMenu    \* it was chosen from the menu

recoveryVars == <<pc, sofar, result, wipe, u, starts, asked, fromMenu>>
vars == <<updaterVars, recoveryVars>>

Results == {"none", "SUCCESS", "ERROR", "CORRUPT"}

-----------------------------------------------------------------------------
\* The main thread goes from one call to the next, and the call leaves the screen new.
Step(from, to, new) ==
    /\ pc = from
    /\ pc' = to
    /\ u' = new
    /\ UNCHANGED <<updaterVars, sofar, result, wipe, starts, asked, fromMenu>>

End(r) ==
    /\ result' = r
    /\ pc' = "result"

Fails ==
    /\ nfaults < MaxFaults
    /\ nfaults' = nfaults + 1
    /\ hurt' = TRUE

\* Mistake: what an earlier attempt has mounted stays mounted.
InstallPackage_KeepMounts ==
    /\ pc = "install"
    /\ pc' = "background"
    /\ UNCHANGED <<updaterVars, sofar, result, wipe, u, starts, asked, fromMenu>>

\* install_package: setup_install_mounts unmounts /system.
InstallPackage ==
    /\ pc = "install"
    /\ \/ /\ w' = [w EXCEPT !.mounted = FALSE]
          /\ pc' = "background"
          /\ UNCHANGED <<nfaults, hurt, result>>
       \/ /\ Fails
          /\ End("ERROR")
          /\ UNCHANGED w
    /\ UNCHANGED <<script, child, stack, null, errmsg, pipe, sofar, wipe, u, starts, asked, fromMenu>>

\* really_install_package, what it shows
ShowInstall ==
    \/ Step("background", "finding", SetBackground(u, "INSTALLING_UPDATE"))
    \/ Step("finding", "type", PrintText(u))
    \/ Step("type", "portion", SetProgressType(u, "DETERMINATE"))
    \/ Step("portion", "mount", ShowProgress(u, Verification, 60))
    \/ Step("mount", "opening", u)
    \/ Step("opening", "keys", PrintText(u))
    \/ Step("keys", "verifying", u)
    \/ Step("verifying", "verify", PrintText(u))
    \/ Step("zip", "installing", u)
    \/ Step("installing", "binary", PrintText(u))

\* The loop of verify_file over the package
VerifyFile ==
    /\ pc = "verify"
    /\ IF sofar < Parts
         THEN /\ sofar' = sofar + 1
              /\ u' = SetProgress(u, sofar + 1)
              /\ UNCHANGED pc
         ELSE /\ sofar' = 0
              /\ pc' = "zip"
              /\ UNCHANGED u
    /\ UNCHANGED <<updaterVars, result, wipe, starts, asked, fromMenu>>

\* ... and how it fails
InstallFails ==
    /\ pc \in {"mount", "keys", "verify", "zip", "binary"}
    /\ Fails
    /\ End("CORRUPT") \/ (pc = "binary" /\ End("ERROR"))
    /\ sofar' = 0
    /\ UNCHANGED <<script, child, stack, null, errmsg, w, pipe, wipe, u, starts, asked, fromMenu>>

\* Mistake: an answer to an earlier question is left in *wipe_cache.
TryUpdateBinary_KeepWipe ==
    /\ pc = "binary"
    /\ pc' = "read"
    /\ child' = "main"
    /\ UNCHANGED <<script, stack, null, errmsg, w, pipe, nfaults, hurt,
                   sofar, result, wipe, u, starts, asked, fromMenu>>

\* try_update_binary: fork; the child may not get as far as main.
TryUpdateBinary ==
    /\ pc = "binary"
    /\ pc' = "read"
    /\ wipe' = FALSE
    /\ \/ child' = "main" /\ UNCHANGED <<nfaults, hurt>>
       \/ child' = "-1" /\ Fails
    /\ UNCHANGED <<script, stack, null, errmsg, w, pipe, sofar, result, u, starts, asked, fromMenu>>

\* A fraction of what verification leaves of the bar
Rest(fraction) == (fraction * (Full - Verification)) \div Parts

\* Mistake: the child is waited for before its commands are read.
ReadCommand_Late ==
    /\ pc = "read" /\ pipe # <<>> /\ child \in Ends
    /\ wipe' = (wipe \/ Head(pipe)[1] = "wipe_cache")
    /\ pipe' = Tail(pipe)
    /\ UNCHANGED <<script, child, stack, null, errmsg, w, nfaults, hurt,
                   pc, sofar, result, u, starts, asked, fromMenu>>

\* One command of the child's.  What is printed ends in a redraw in any case.
ReadCommand ==
    /\ pc = "read" /\ pipe # <<>>
    /\ LET c == Head(pipe)
       IN /\ u' = CASE c[1] = "progress" -> ShowProgress(u, Rest(c[2]), c[3])
                    [] c[1] = "set_progress" -> SetProgress(u, c[2])
                    [] c[1] = "ui_print" -> PrintText(u)
                    [] c[1] = "clear_display" -> SetBackground(u, "NONE")
                    [] OTHER -> u
          /\ wipe' = (wipe \/ c[1] = "wipe_cache")
    /\ pipe' = Tail(pipe)
    /\ UNCHANGED <<script, child, stack, null, errmsg, w, nfaults, hurt,
                   pc, sofar, result, starts, asked, fromMenu>>

\* The end of the pipe: its writer is gone.
WaitChild ==
    /\ pc = "read" /\ pipe = <<>> /\ child \in Ends
    /\ End(IF child = "0" THEN "SUCCESS" ELSE "ERROR")
    /\ child' = "none"
    /\ stack' = <<>>
    /\ null' = FALSE
    /\ errmsg' = FALSE
    /\ UNCHANGED <<script, w, pipe, nfaults, hurt, sofar, wipe, u, starts, asked, fromMenu>>

-----------------------------------------------------------------------------
\* erase_volume, what it shows; what it does to the cache is in Recovery.
EraseVolume ==
    \/ Step("erase", "erasing", SetBackground(u, "ERASING"))
    \/ Step("erasing", "formatting", SetProgressType(u, "INDETERMINATE"))
    \/ Step("formatting", IF fromMenu THEN "wiped" ELSE "decide", PrintText(u))

\* main, after install_package
AfterInstall ==
    \/ /\ ~fromMenu
       /\ \/ result = "SUCCESS" /\ Step("result", IF wipe THEN "erase" ELSE "decide", u)
          \/ result # "SUCCESS" /\ Step("result", "show log", PrintText(u))
          \/ Step("decide", IF u.showText THEN "prompt" ELSE "reboot", u)
    \/ Step("show log", "error", u)
    \/ Step("show log", "error", ShowText(u, TRUE))     \* eng, userdebug
    \/ Step("error", "prompt", SetBackground(u, "ERROR"))
    \/ Step("reboot", "end", PrintText(u))

\* prompt_and_wait, up to the first key
PromptAndWait ==
    \/ Step("prompt", "empty", SetBackground(u, IF result = "SUCCESS" THEN "NO_COMMAND" ELSE "ERROR"))
    \/ Step("empty", "menu", SetProgressType(u, "EMPTY"))
    \/ Step("menu", "wait", StartMenu(u))

\* The user installs the package from the menu.  wipe_cache is not initialized.
Again ==
    /\ pc = "wait" /\ starts < MaxStarts
    /\ pc' = "chosen"
    /\ u' = EndMenu(u)
    /\ result' = "none"
    /\ wipe' \in BOOLEAN
    /\ starts' = starts + 1
    /\ asked' = FALSE
    /\ hurt' = FALSE
    /\ fromMenu' = TRUE
    /\ UNCHANGED <<script, child, stack, null, errmsg, w, pipe, nfaults, sofar>>

\* prompt_and_wait with a package from the sdcard, the cache or adb, before and after
\* install_package.  Only the first two wipe the cache when they are asked to.
MenuInstall ==
    \/ Step("chosen", "install", PrintText(u))
    \/ /\ fromMenu
       /\ \/ result = "SUCCESS" /\ wipe /\ Step("result", "erase", PrintText(u))
          \/ result = "SUCCESS" /\ Step("result", "decide", u)
          \/ result # "SUCCESS" /\ Step("result", "aborted", SetBackground(u, "ERROR"))
          \/ u.showText /\ Step("decide", "prompt", PrintText(u))
          \/ ~u.showText /\ Step("decide", "reboot", u)
    \/ Step("wiped", "decide", PrintText(u))
    \/ Step("aborted", "prompt", PrintText(u))

\* Until finish_recovery, which prompt_and_wait calls first, the command is still there.
PowerCut ==
    /\ pc \notin {"empty", "menu", "wait", "end"} /\ ~fromMenu /\ starts < MaxStarts
    /\ PowerLost
    /\ pc' = "install"
    /\ sofar' = 0
    /\ result' = "none"
    /\ wipe' = FALSE
    /\ u' = InitUi(u.double)
    /\ starts' = starts + 1
    /\ asked' = FALSE
    /\ UNCHANGED fromMenu

\* The updater's steps, and whether one of them asks for the cache to be wiped
Child ==
    /\ UpdaterSteps
    /\ asked' = (asked \/ \E i \in DOMAIN pipe' : pipe'[i][1] = "wipe_cache")
    /\ UNCHANGED <<pc, sofar, result, wipe, u, starts, fromMenu>>

\* A turn of progress_loop; p parts of the time of the segment have passed.
ProgressThread ==
    /\ pc # "end"
    /\ \E p \in u.prog..Parts : u' = ProgressLoop(u, p)
    /\ UNCHANGED <<updaterVars, pc, sofar, result, wipe, starts, asked, fromMenu>>

\* process_key: the key that toggles the text
ToggleText ==
    /\ pc # "end"
    /\ u' = ShowText(u, ~u.showText)
    /\ UNCHANGED <<updaterVars, pc, sofar, result, wipe, starts, asked, fromMenu>>

Init ==
    /\ InitUpdater
    /\ pc = "install" /\ sofar = 0 /\ result = "none"
    /\ wipe \in BOOLEAN         \* --wipe_cache may have been given
    /\ u \in {InitUi(b) : b \in BOOLEAN}
    /\ starts = 1 /\ asked = FALSE /\ fromMenu = FALSE

MainThread ==
    \/ InstallPackage \/ ShowInstall \/ VerifyFile \/ InstallFails \/ TryUpdateBinary
    \/ ReadCommand \/ WaitChild \/ EraseVolume \/ AfterInstall \/ PromptAndWait
    \/ MenuInstall

Next == MainThread \/ Child \/ Again \/ PowerCut \/ ProgressThread \/ ToggleText

Spec == Init /\ [][Next]_vars /\ WF_vars(MainThread) /\ WF_vars(Child)

-----------------------------------------------------------------------------
(***************************************************************************)
(* Properties                                                                *)
(***************************************************************************)

\* The state is of the types declared; the pipe holds what it can; the updater has
\* calls under way just while it runs, and only then has one of them got NULL.
TypeOK ==
    /\ child \in {"none", "main", "run"} \cup Ends
    /\ (child = "run") => stack # <<>>
    /\ null => child \in {"run", "killed"}
    /\ {null, errmsg, hurt, wipe, asked, fromMenu} \subseteq BOOLEAN
    /\ w \in World
    /\ Len(pipe) <= PipeCap
    /\ nfaults \in 0..MaxFaults /\ starts \in 1..MaxStarts
    /\ sofar \in 0..Parts
    /\ result \in Results
    /\ u \in Ui

\* What is on the screen is what the state says: the icon, the bar as far as it is
\* filled, or the text.  Both threads draw on the page that is not shown, and often
\* only the bar, so this rests on pagesIdentical.  The bar of an earlier screen may
\* stay between SetProgressType(EMPTY) and the menu (prompt_and_wait).
ShownIsState == pc # "menu" => u.front = DrawScreen(u).back

\* From the start of verification to the end of the updater the bar never goes back,
\* whether a segment ends early or late, the progress thread, verify_file or the
\* script moves it; and while the script's segments make up no more than the whole,
\* it stays within its width.
BarAdvances ==
    [][(pc \in {"mount", "opening", "keys", "verifying", "verify", "zip", "installing",
                "binary", "read"} /\ pc' # "install")
       => Pos(u) <= Pos(u') /\ Pos(u') <= Width]_vars

\* After a successful installation recovery knows that the cache is to be wiped just
\* if the script has asked for it, and this time (try_update_binary reads all the
\* commands and has set *wipe_cache to 0 before).
WipeAsAsked == result = "SUCCESS" => wipe = asked

\* Once the update is started it comes to an end, with the menu or the reboot: the
\* updater does not wait for a reader of the pipe that waits for the updater.
InstallEnds == []<>(pc \in {"wait", "end"})
=============================================================================
