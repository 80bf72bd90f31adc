------------------------------ MODULE Recovery ------------------------------
(***************************************************************************)
(* recovery.cpp: how a command of the main system is carried out across     *)
(* reboots.  The command arrives in a file on /cache; get_args copies it    *)
(* into the bootloader control block (BCB) so that every later boot comes   *)
(* back to it; finish_recovery clears both.  In between recovery installs   *)
(* a package or erases volumes, or shows a menu.  Power may fail anywhere.  *)
(*                                                                          *)
(* Logs and the progress display are left out.  A package is judged and     *)
(* applied by install.cpp; here it has begun, or ended well, or failed.     *)
(***************************************************************************)
EXTENDS Naturals

CONSTANTS
    Commands,       \* the argument sets the main system may ask for
    MenuItems,      \* the menu items the user may choose
    PackageWipes,   \* whether packages ask for a cache wipe: subset of BOOLEAN
    AtomicBcb,      \* FALSE: misc is on MTD, its block is erased, then written
    None            \* no command file; a BCB whose recovery field is empty

\* --update_package, --wipe_data, --wipe_cache, --locale, --send_intent and
\* --just_exit.
Options == {"update", "wipe_data", "wipe_cache", "locale", "intent", "exit"}

ASSUME CommandsAssumption ==
    /\ Commands \subseteq (SUBSET Options) \ {{}}
    /\ MenuItems \subseteq {"reboot", "wipe_data", "wipe_cache", "ext", "cache", "adb"}
    /\ \A a \in SUBSET Options : None # a
    /\ PackageWipes \subseteq BOOLEAN /\ AtomicBcb \in BOOLEAN

VARIABLES
    bcb,        \* misc: "boot-recovery" or not, and the arguments
    cmdFile,    \* COMMAND_FILE
    cacheOk,    \* /cache can be mounted
    localeFile, \* LOCALE_FILE exists
    intentFile, \* INTENT_FILE was written
    pkg,        \* the package is on /cache
    data,       \* /data
    system,     \* what the package updates
    mode,       \* what is booted
    pc,         \* the next step of recovery
    args,       \* its arguments
    locale,     \* locale != NULL
    status,     \* status, of main() or of prompt_and_wait()
    wipe,       \* wipe_cache
    item,       \* who started the operation: "command" or a menu item
    after,      \* where the present call of finish_recovery returns to
    saved,      \* erase_volume keeps last_locale in memory
    owed,       \* history: a package asked this process for a cache wipe
    fault,      \* history: an I/O error or a bad package since the last request
    excused     \* history: the user knows that the device may be half done

cache == <<cmdFile, cacheOk, localeFile, intentFile, pkg>>
local == <<args, locale, status, wipe, item, after, saved, owed>>
history == <<fault, excused>>
vars == <<bcb, cache, data, system, mode, pc, local, history>>

Message(on, a) == [boot |-> on, args |-> a]
Cleared == Message(FALSE, None)

Steps == {"args", "setbcb", "dispatch", "install", "installing", "installed",
          "erasedata", "formatdata", "erasecache", "formatcache", "decide",
          "finish", "clear", "unlink", "menu", "sdbcb", "copy", "reboot"}

\* The type invariant.
TypeOK ==
    /\ bcb \in [boot : BOOLEAN, args : {None} \cup SUBSET Options]
    /\ cmdFile \in {None} \cup Commands
    /\ {cacheOk, localeFile, intentFile, pkg} \subseteq BOOLEAN
    /\ data \in {"user", "torn", "empty"}
    /\ system \in {"old", "partial", "new"}
    /\ mode \in {"main", "recovery"}
    /\ pc \in Steps
    /\ args \in SUBSET Options
    /\ status \in {"SUCCESS", "ERROR", "NONE"}
    /\ item \in {"command", "wipe_data", "wipe_cache", "ext", "cache", "adb"}
    /\ after \in {"menu", "reboot"}
    /\ {locale, wipe, saved, owed, fault, excused} \subseteq BOOLEAN

Init ==
    /\ bcb = Cleared
    /\ cmdFile = None /\ cacheOk = TRUE /\ localeFile \in BOOLEAN
    /\ intentFile = FALSE /\ pkg = FALSE
    /\ data = "user" /\ system = "old"
    /\ mode = "main" /\ pc = "args"
    /\ args = {} /\ locale = FALSE /\ status = "SUCCESS" /\ wipe = FALSE
    /\ item = "command" /\ after = "reboot" /\ saved = FALSE
    /\ owed = FALSE /\ fault = FALSE
    /\ excused = FALSE

-----------------------------------------------------------------------------
(* The main system and the bootloader. *)

HalfDone == data = "torn" \/ system = "partial"

\* It asks for command c, with the package on /cache if c needs one.
MainRequest(c) ==
    /\ mode = "main" /\ cacheOk
    /\ cmdFile' = c
    /\ pkg' = ("update" \in c)
    /\ data' = IF data = "empty" THEN "user" ELSE data
    /\ system' = IF system = "new" THEN "old" ELSE system
    /\ mode' = "recovery"
    /\ fault' = FALSE /\ excused' = HalfDone
    /\ UNCHANGED <<bcb, cacheOk, localeFile, intentFile, pc, local>>

\* The user starts recovery with the keys.
UserBootsRecovery ==
    /\ mode = "main"
    /\ mode' = "recovery"
    /\ UNCHANGED <<bcb, cache, data, system, pc, local, history>>

\* main() of recovery, from the start.
NewProcess ==
    /\ pc' = "args"
    /\ args' = {} /\ locale' = FALSE /\ status' = "SUCCESS" /\ wipe' = FALSE
    /\ item' = "command" /\ after' = "reboot" /\ saved' = FALSE
    /\ owed' = FALSE

\* The bootloader starts what the BCB says.
Boot ==
    /\ mode' = IF bcb.boot THEN "recovery" ELSE "main"
    /\ NewProcess
    /\ UNCHANGED <<bcb, cache, data, system, history>>

Crash == mode = "recovery" /\ pc # "reboot" /\ Boot

Reboot == mode = "recovery" /\ pc = "reboot" /\ Boot

-----------------------------------------------------------------------------
\* set_bootloader_message at step "at".  On MTD the block is erased first.
\* An error is logged and otherwise ignored.
SetBootloaderMessage(at, message, next) ==
    /\ mode = "recovery" /\ pc = at
    /\ \/ /\ bcb' = message
          /\ pc' = next
          /\ UNCHANGED <<fault, excused>>
       \/ /\ ~AtomicBcb /\ bcb # Cleared
          /\ bcb' = Cleared
          /\ UNCHANGED <<pc, fault, excused>>
       \/ /\ pc' = next
          /\ fault' = TRUE /\ excused' = TRUE
          /\ UNCHANGED bcb
    /\ UNCHANGED <<cache, data, system, mode, args, locale, status, wipe, item,
                   after, saved, owed>>

(* get_args: the arguments of the BCB, or else of the command file. *)

GetArgs ==
    /\ mode = "recovery" /\ pc = "args"
    /\ \E readable \in BOOLEAN :
          /\ args' = IF readable /\ bcb.args \notin {None, {}} THEN bcb.args
                     ELSE IF cacheOk /\ cmdFile # None THEN cmdFile ELSE {}
          /\ fault' = (fault \/ ~readable)
          /\ excused' = (excused \/ ~readable)
    /\ pc' = "setbcb"
    /\ UNCHANGED <<bcb, cache, data, system, mode, locale, status, wipe, item,
                   after, saved, owed>>

\* Mistake: boot.command is not set.
ArgsToBcb_NoCommand == SetBootloaderMessage("setbcb", Message(FALSE, args), "dispatch")

ArgsToBcb == SetBootloaderMessage("setbcb", Message(TRUE, args), "dispatch")

(* main(): parse the arguments and choose what to do. *)
Dispatch ==
    /\ mode = "recovery" /\ pc = "dispatch"
    /\ locale' = ("locale" \in args \/ (localeFile /\ cacheOk))
    /\ wipe' = (args \cap {"wipe_data", "wipe_cache"} # {})
    /\ pc' = IF "update" \in args THEN "install"
             ELSE IF "wipe_data" \in args THEN "erasedata"
             ELSE IF "wipe_cache" \in args THEN "erasecache" ELSE "decide"
    /\ status' = IF pc' # "decide" \/ "exit" \in args THEN "SUCCESS" ELSE "NONE"
    /\ UNCHANGED <<bcb, cache, data, system, mode, args, item, after, saved, owed,
                   history>>

\* The menu is shown unless all went well and the text display is off, which
\* the user may switch at any time.  An error is displayed.
Decide ==
    /\ mode = "recovery" /\ pc = "decide"
    /\ pc' = "finish"
    /\ \/ after' = "menu"
       \/ status = "SUCCESS" /\ after' = "reboot"
    /\ excused' = (excused \/ status = "ERROR")
    /\ UNCHANGED <<bcb, cache, data, system, mode, args, locale, status, wipe,
                   item, saved, owed, fault>>

-----------------------------------------------------------------------------
(* install_package and what its caller does with the result. *)

\* /cache must be mounted, and a command's package lies on it.
Installable == cacheOk /\ (item = "command" => pkg)

InstallFails ==
    /\ mode = "recovery" /\ pc \in {"install", "installing"}
    /\ \/ pc = "install" /\ ~Installable /\ fault' = fault
       \/ fault' = TRUE
    /\ status' = "ERROR"
    /\ pc' = "installed"
    /\ UNCHANGED <<bcb, cache, data, system, mode, args, locale, wipe, item, after,
                   saved, owed, excused>>

\* A package that was installed already changes nothing when it is again.
InstallBegin ==
    /\ mode = "recovery" /\ pc = "install"
    /\ Installable
    /\ system' = IF item = "command" /\ system = "new" THEN "new" ELSE "partial"
    /\ pc' = "installing"
    /\ UNCHANGED <<bcb, cache, data, mode, local, history>>

InstallEnd ==
    /\ mode = "recovery" /\ pc = "installing"
    /\ system' = "new"
    /\ status' = "SUCCESS"
    /\ wipe' \in PackageWipes
    /\ owed' = wipe'
    /\ pc' = "installed"
    /\ UNCHANGED <<bcb, cache, data, mode, args, locale, item, after, saved, history>>

\* Back to the loop of prompt_and_wait, whose first line is finish_recovery,
\* or out of it if all went well and the text display is off.
BackToMenu(ok) ==
    /\ pc' = "finish"
    /\ after' = "menu" \/ (ok /\ after' = "reboot")

\* Mistake: a wipe asked for by a package from /cache is forgotten.
Installed_NoWipe ==
    /\ mode = "recovery" /\ pc = "installed"
    /\ \/ /\ item \notin {"adb", "cache"} /\ status = "SUCCESS" /\ wipe
          /\ pc' = "erasecache" /\ UNCHANGED after
       \/ /\ item \in {"adb", "cache"} \/ ~(status = "SUCCESS" /\ wipe)
          /\ IF item = "command" THEN pc' = "decide" /\ UNCHANGED after
                                 ELSE BackToMenu(status = "SUCCESS")
    /\ UNCHANGED <<bcb, cache, data, system, mode, args, locale, status, wipe, item,
                   saved, owed, history>>

\* The caller wipes the cache if the package asks for it, except after adb.
Installed ==
    /\ mode = "recovery" /\ pc = "installed"
    /\ \/ /\ item # "adb" /\ status = "SUCCESS" /\ wipe
          /\ pc' = "erasecache" /\ UNCHANGED after
       \/ /\ item = "adb" \/ ~(status = "SUCCESS" /\ wipe)
          /\ IF item = "command" THEN pc' = "decide" /\ UNCHANGED after
                                 ELSE BackToMenu(status = "SUCCESS")
    /\ UNCHANGED <<bcb, cache, data, system, mode, args, locale, status, wipe, item,
                   saved, owed, history>>

-----------------------------------------------------------------------------
(* erase_volume: while a volume is being formatted there is nothing on it. *)

EraseData ==
    /\ mode = "recovery" /\ pc = "erasedata"
    /\ data' = "torn"
    /\ pc' = "formatdata"
    /\ UNCHANGED <<bcb, cache, system, mode, local, history>>

\* The format or the device's own WipeData may fail.
EraseDataEnd ==
    /\ mode = "recovery" /\ pc = "formatdata"
    /\ \/ data' = "empty" /\ UNCHANGED <<status, fault>>
       \/ /\ data' \in {data, "empty"}
          /\ status' = IF item = "command" THEN "ERROR" ELSE status
          /\ fault' = TRUE
    /\ pc' = "erasecache"
    /\ UNCHANGED <<bcb, cache, system, mode, args, locale, wipe, item, after, saved,
                   owed, excused>>

\* The last_* files, last_locale among them, are kept in memory meanwhile.
EraseCache ==
    /\ mode = "recovery" /\ pc = "erasecache"
    /\ saved' = (localeFile /\ cacheOk)
    /\ cmdFile' = None /\ cacheOk' = FALSE /\ localeFile' = FALSE
    /\ intentFile' = FALSE /\ pkg' = FALSE
    /\ owed' = FALSE
    /\ pc' = "formatcache"
    /\ UNCHANGED <<bcb, data, system, mode, args, locale, status, wipe, item, after,
                   history>>

EraseCacheEnd ==
    /\ mode = "recovery" /\ pc = "formatcache"
    /\ \/ /\ cacheOk' = TRUE /\ localeFile' = saved
          /\ UNCHANGED <<status, fault>>
       \/ /\ status' = IF item = "command" /\ "update" \notin args THEN "ERROR"
                       ELSE status
          /\ fault' = TRUE
          /\ UNCHANGED <<cacheOk, localeFile>>
    /\ IF item = "command" THEN pc' = "decide" /\ UNCHANGED after
                           ELSE BackToMenu(TRUE)
    /\ UNCHANGED <<bcb, cmdFile, intentFile, pkg, data, system, mode, args, locale,
                   wipe, item, saved, owed, excused>>

-----------------------------------------------------------------------------
(* finish_recovery: intent and locale, the BCB, then the command file. *)

\* Only the call at the end of main() passes the intent on.
FinishFiles ==
    /\ mode = "recovery" /\ pc = "finish"
    /\ ~locale \/ cacheOk
    /\ intentFile' = (intentFile \/ (after = "reboot" /\ "intent" \in args /\ cacheOk))
    /\ localeFile' = (localeFile \/ locale)
    /\ pc' = "clear"
    /\ UNCHANGED <<bcb, cmdFile, cacheOk, pkg, data, system, mode, local, history>>

\* fopen_path(LOCALE_FILE) gave NULL, fwrite uses it; init starts recovery again.
FinishDies ==
    /\ mode = "recovery" /\ pc = "finish"
    /\ locale /\ ~cacheOk
    /\ NewProcess
    /\ UNCHANGED <<bcb, cache, data, system, mode, history>>

\* Mistake: the BCB is left as it is.
ClearBcb_Kept == SetBootloaderMessage("clear", bcb, "unlink")

ClearBcb == SetBootloaderMessage("clear", Cleared, "unlink")

UnlinkCommand ==
    /\ mode = "recovery" /\ pc = "unlink"
    /\ \/ /\ cmdFile' = IF cacheOk THEN None ELSE cmdFile
          /\ UNCHANGED fault
       \/ fault' = TRUE /\ UNCHANGED cmdFile
    /\ pc' = after
    /\ UNCHANGED <<bcb, cacheOk, localeFile, intentFile, pkg, data, system, mode,
                   args, locale, status, wipe, item, after, saved, owed, excused>>

-----------------------------------------------------------------------------
(* prompt_and_wait: each round of its loop starts with finish_recovery and  *)
(* leaves wipe_cache uninitialized.                                         *)

Choose(i) ==
    /\ mode = "recovery" /\ pc = "menu" /\ i \in MenuItems
    /\ UNCHANGED <<bcb, cache, data, system, mode, args, locale, saved, owed>>

MenuReboot ==
    /\ Choose("reboot")
    /\ pc' = "finish" /\ after' = "reboot"
    /\ UNCHANGED <<status, wipe, item, fault, excused>>

\* If the text display is on the user has to confirm.  Nothing records that
\* this wipe was begun: the BCB stays cleared.
MenuWipeData ==
    /\ Choose("wipe_data")
    /\ item' = "wipe_data"
    /\ \/ pc' = "erasedata" /\ excused' = TRUE /\ UNCHANGED after
       \/ BackToMenu(TRUE) /\ UNCHANGED excused
    /\ UNCHANGED <<status, wipe, fault>>

MenuWipeCache ==
    /\ Choose("wipe_cache")
    /\ item' = "wipe_cache" /\ pc' = "erasecache"
    /\ UNCHANGED <<status, wipe, after, fault, excused>>

\* update_directory on /sdcard or /cache: the directory cannot be opened and 0
\* is returned; or the user goes back up; or a package is chosen.
UpdateDirectory(i) ==
    /\ Choose(i)
    /\ item' = i /\ wipe' \in BOOLEAN
    /\ \/ status' = "SUCCESS" /\ fault' = TRUE /\ pc' = "installed" /\ after' = after
       \/ status' = "NONE" /\ fault' = fault /\ BackToMenu(FALSE)
       \/ /\ i = "cache" => pkg /\ cacheOk
          /\ pc' = "sdbcb" /\ UNCHANGED <<status, fault, after>>
    /\ excused' = (excused \/ pc' = "sdbcb")

\* Mistake: boot.command is not set.
SdcardBcb_NoCommand == SetBootloaderMessage("sdbcb", Message(FALSE, {}), "copy")

\* set_sdcard_update_bootloader_message
SdcardBcb == SetBootloaderMessage("sdbcb", Message(TRUE, {}), "copy")

\* The package is copied to /tmp, out of reach of unmounting and formatting.
CopySideloadedPackage ==
    /\ mode = "recovery" /\ pc = "copy"
    /\ \/ pc' = "install" /\ UNCHANGED <<status, fault>>
       \/ pc' = "installed" /\ status' = "ERROR" /\ fault' = TRUE
    /\ UNCHANGED <<bcb, cache, data, system, mode, args, locale, wipe, item, after,
                   saved, owed, excused>>

\* apply_from_adb: no package came, or one did.  The BCB stays cleared.
ApplyFromAdb ==
    /\ Choose("adb")
    /\ item' = "adb" /\ wipe' \in BOOLEAN /\ excused' = TRUE
    /\ \/ pc' = "installed" /\ status' = "ERROR" /\ fault' = TRUE
       \/ pc' = "install" /\ UNCHANGED <<status, fault>>
    /\ UNCHANGED after

-----------------------------------------------------------------------------
Menu ==
    \/ MenuReboot \/ MenuWipeData \/ MenuWipeCache \/ ApplyFromAdb
    \/ \E i \in {"ext", "cache"} : UpdateDirectory(i)

\* What recovery does without waiting for anybody.
Work ==
    \/ GetArgs \/ ArgsToBcb \/ Dispatch \/ Decide
    \/ InstallFails \/ InstallBegin \/ InstallEnd \/ Installed
    \/ EraseData \/ EraseDataEnd \/ EraseCache \/ EraseCacheEnd
    \/ FinishFiles \/ FinishDies \/ ClearBcb \/ UnlinkCommand
    \/ SdcardBcb \/ CopySideloadedPackage
    \/ Reboot

Next ==
    \/ \E c \in Commands : MainRequest(c)
    \/ UserBootsRecovery
    \/ Work \/ Menu \/ Crash

Spec == Init /\ [][Next]_vars

\* Recovery never waits except at the menu.
FairSpec == Spec /\ WF_vars(Work)

-----------------------------------------------------------------------------
(* Properties. *)

\* From some time on the power does not fail.  (When recovery dies of itself the
\* next state is as after a power failure.)
PowerStays == <>[][Crash => FinishDies]_vars

\* "These important scenarios must be safely restartable at any point": the
\* main system is not booted with a half erased /data or a half installed
\* package unless the user was shown an error or started the operation at the
\* menu, or misc could not be read or written.
NeverHalfDone == mode = "main" /\ HalfDone => excused

\* A package chosen at the menu: if it is interrupted, recovery is booted.
SideloadReturns ==
    [][Crash /\ item \in {"ext", "cache"} /\ pc \in {"install", "installing"} /\ ~fault
          => mode' = "recovery"]_vars

\* A command during which there was no I/O error and no bad package is not
\* reported as failed, wherever it was interrupted.
NoFalseAlarm == pc = "decide" /\ status = "ERROR" => fault

\* install.h: "if INSTALL_SUCCESS is returned and *wipe_cache is true on exit,
\* caller should wipe the cache partition": back at the menu or about to
\* reboot, no package is owed a wipe.
WipeHonoured == pc \in {"menu", "reboot"} => ~owed

\* "Reset to normal system boot so recovery won't cycle indefinitely": when
\* crashes and I/O errors end, recovery gets to the menu or back to the main
\* system.
RecoveryEnds ==
    <>[]~fault /\ PowerStays => (mode = "recovery" ~> pc = "menu" \/ mode = "main")

\* "After this, rebooting will restart the erase": without I/O errors, and when
\* crashes end, an erase of /data that a command began is completed.
EraseCompletes ==
    []~fault /\ PowerStays => (data = "torn" /\ ~excused ~> data = "empty")
=============================================================================
