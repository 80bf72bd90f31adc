-------------------------- MODULE Recovery_proofs ---------------------------
(***************************************************************************)
(* For every set of commands, menu items and package behaviours: the types  *)
(* are right; if writes of the BCB are atomic the main system is never      *)
(* booted half done without the user knowing of it; a wipe of the cache is  *)
(* carried out; a package from the menu that is interrupted is remembered;  *)
(* and what is reported as failed has met a failure.                        *)
(***************************************************************************)
EXTENDS Recovery, TLAPS

\* The arguments a would finish what was begun.
Finishes(a) ==
    /\ data = "torn" => "wipe_data" \in a /\ "update" \notin a
    /\ system = "partial" => "update" \in a

\* The next boot comes back to recovery, with arguments that finish it.
Armed == bcb.boot /\ bcb.args # None /\ Finishes(bcb.args)

\* Where the process is while it may leave something half done.
Kept ==
    /\ HalfDone => Armed
    /\ pc \in {"args", "setbcb", "dispatch"} => item = "command"
    /\ pc = "setbcb" /\ HalfDone => args = bcb.args
    /\ pc \in {"dispatch", "install", "installing", "erasedata", "formatdata"} =>
          item = "command" /\ bcb = Message(TRUE, args)
    /\ pc \in {"install", "installing"} => "update" \in args
    /\ pc \in {"erasedata", "formatdata"} =>
          "wipe_data" \in args /\ "update" \notin args
    /\ pc \in {"installed", "erasecache", "formatcache", "decide"} /\ HalfDone =>
          status = "ERROR" /\ item = "command"
    /\ pc \in {"finish", "clear", "unlink", "menu", "reboot"} => ~HalfDone
    /\ pc \notin {"sdbcb", "copy"}

\* What holds besides the types.
Safe ==
    /\ mode = "main" => pc = "args" /\ item = "command"
    /\ mode = "main" /\ HalfDone => excused
    /\ mode = "recovery" /\ ~excused => Kept

\* The inductive invariant.
CommandInv == TypeOK /\ Safe

-----------------------------------------------------------------------------
\* TypeOK in two parts: the flags, and everything else.
FlagsOK ==
    /\ {cacheOk, localeFile, intentFile, pkg} \subseteq BOOLEAN
    /\ {locale, wipe, saved, owed, fault, excused} \subseteq BOOLEAN
ValuesOK ==
    /\ bcb \in [boot : BOOLEAN, args : {None} \cup SUBSET Options]
    /\ cmdFile \in {None} \cup Commands
    /\ data \in {"user", "torn", "empty"}
    /\ system \in {"old", "partial", "new"}
    /\ mode \in {"main", "recovery"}
    /\ pc \in Steps
    /\ args \in SUBSET Options
    /\ status \in {"SUCCESS", "ERROR", "NONE"}
    /\ item \in {"command", "wipe_data", "wipe_cache", "ext", "cache", "adb"}
    /\ after \in {"menu", "reboot"}

\* A message is a value of the BCB.
LEMMA MessageType ==
    ASSUME NEW on \in BOOLEAN, NEW a \in {None} \cup SUBSET Options
    PROVE  Message(on, a) \in [boot : BOOLEAN, args : {None} \cup SUBSET Options]
  BY DEF Message

\* Writing the BCB keeps the types.
LEMMA SetBcbType ==
    ASSUME TypeOK, NEW at, NEW next \in Steps,
           NEW message \in [boot : BOOLEAN, args : {None} \cup SUBSET Options],
           SetBootloaderMessage(at, message, next)
    PROVE  ValuesOK'
<1>1. bcb' \in {message, Cleared, bcb} /\ pc' \in {next, pc}
  BY DEF SetBootloaderMessage
<1>2. Cleared \in [boot : BOOLEAN, args : {None} \cup SUBSET Options]
  BY MessageType, Zenon DEF Cleared
<1> QED
  BY <1>1, <1>2 DEF SetBootloaderMessage, TypeOK, ValuesOK, cache

LEMMA TypeInit == Init => TypeOK
  BY MessageType, Zenon DEF Init, TypeOK, Steps, Cleared

\* Every step keeps the types: the flags, then the rest.
LEMMA FlagsStep == TypeOK /\ [Next]_vars => FlagsOK'
<1> SUFFICES ASSUME TypeOK, [Next]_vars PROVE FlagsOK'
  OBVIOUS
<1>1. ASSUME NEW c \in Commands, MainRequest(c) PROVE FlagsOK'
  <2>1. pkg' = ("update" \in c) /\ excused' = HalfDone
    BY <1>1 DEF MainRequest
  <2>2. ("update" \in c) \in BOOLEAN /\ HalfDone \in BOOLEAN
    BY SMT DEF HalfDone
  <2>3. pkg' \in BOOLEAN /\ excused' \in BOOLEAN
    BY <2>1, <2>2, Zenon
  <2> QED
    BY <1>1, <2>3, Zenon DEF MainRequest, TypeOK, FlagsOK, local
<1>2. CASE UserBootsRecovery
  BY <1>2 DEF UserBootsRecovery, TypeOK, FlagsOK, cache, local, history
<1>3. CASE GetArgs
  BY <1>3, CommandsAssumption DEF GetArgs, TypeOK, FlagsOK, cache
<1>4. CASE ArgsToBcb
  BY <1>4, Zenon DEF ArgsToBcb, SetBootloaderMessage, Message, TypeOK, FlagsOK, cache
<1>5. CASE Dispatch
  BY <1>5 DEF Dispatch, TypeOK, FlagsOK, cache, history
<1>6. CASE Decide
  BY <1>6 DEF Decide, TypeOK, FlagsOK, cache
<1>7. CASE InstallFails
  BY <1>7, Zenon DEF InstallFails, Installable, TypeOK, FlagsOK, cache
<1>8. CASE InstallBegin
  BY <1>8 DEF InstallBegin, Installable, TypeOK, FlagsOK, cache, local,
     history
<1>9. CASE InstallEnd
  BY <1>9, CommandsAssumption DEF InstallEnd, TypeOK, FlagsOK, cache, history
<1>10. CASE Installed
  BY <1>10 DEF Installed, BackToMenu, TypeOK, FlagsOK, cache, history
<1>11. CASE EraseData
  BY <1>11 DEF EraseData, TypeOK, FlagsOK, cache, local, history
<1>12. CASE EraseDataEnd
  BY <1>12, Zenon DEF EraseDataEnd, TypeOK, FlagsOK, cache
<1>13. CASE EraseCache
  BY <1>13, Zenon DEF EraseCache, TypeOK, FlagsOK, history
<1>14. CASE EraseCacheEnd
  BY <1>14, Zenon DEF EraseCacheEnd, BackToMenu, TypeOK, FlagsOK
<1>15. CASE FinishFiles
  BY <1>15 DEF FinishFiles, TypeOK, FlagsOK, local, history
<1>16. CASE FinishDies
  BY <1>16, Zenon DEF FinishDies, NewProcess, TypeOK, FlagsOK, cache, history
<1>17. CASE ClearBcb
  BY <1>17, Zenon DEF ClearBcb, SetBootloaderMessage, Message, Cleared, TypeOK,
     FlagsOK, cache
<1>18. CASE UnlinkCommand
  BY <1>18, Zenon DEF UnlinkCommand, TypeOK, FlagsOK
<1>19. CASE SdcardBcb
  BY <1>19, Zenon DEF SdcardBcb, SetBootloaderMessage, Message, TypeOK, FlagsOK,
     cache
<1>20. CASE CopySideloadedPackage
  BY <1>20, Zenon DEF CopySideloadedPackage, TypeOK, FlagsOK, cache
<1>21. CASE MenuReboot
  BY <1>21 DEF MenuReboot, Choose, TypeOK, FlagsOK, cache
<1>22. CASE MenuWipeData
  BY <1>22, Zenon DEF MenuWipeData, BackToMenu, Choose, TypeOK, FlagsOK, cache
<1>23. CASE MenuWipeCache
  BY <1>23 DEF MenuWipeCache, Choose, TypeOK, FlagsOK, cache
<1>24. CASE ApplyFromAdb
  BY <1>24, Zenon DEF ApplyFromAdb, Choose, TypeOK, FlagsOK, cache
<1>25. ASSUME NEW i \in {"ext", "cache"}, UpdateDirectory(i) PROVE FlagsOK'
  BY <1>25, Zenon DEF UpdateDirectory, Choose, BackToMenu, TypeOK, FlagsOK, cache
<1>26. CASE Reboot
  BY <1>26, Zenon DEF Reboot, Boot, NewProcess, TypeOK, FlagsOK, cache, history
<1>27. CASE Crash
  BY <1>27, Zenon DEF Crash, Boot, NewProcess, TypeOK, FlagsOK, cache, history
<1>28. CASE UNCHANGED vars
  BY <1>28 DEF vars, cache, local, history, TypeOK, FlagsOK, cache, local,
     history
<1> QED
  BY <1>1, <1>2, <1>3, <1>4, <1>5, <1>6, <1>7, <1>8, <1>9, <1>10, <1>11,
     <1>12, <1>13, <1>14, <1>15, <1>16, <1>17, <1>18, <1>19, <1>20, <1>21,
     <1>22, <1>23, <1>24, <1>25, <1>26, <1>27, <1>28 DEF Next, Work, Menu

LEMMA ValuesStep == TypeOK /\ [Next]_vars => ValuesOK'
<1> SUFFICES ASSUME TypeOK, [Next]_vars PROVE ValuesOK'
  OBVIOUS
<1>1. ASSUME NEW c \in Commands, MainRequest(c) PROVE ValuesOK'
  BY <1>1, CommandsAssumption DEF MainRequest, TypeOK, ValuesOK, Steps, local
<1>2. CASE UserBootsRecovery
  BY <1>2 DEF UserBootsRecovery, TypeOK, ValuesOK, Steps, cache, local,
     history
<1>3. CASE GetArgs
  BY <1>3, CommandsAssumption DEF GetArgs, TypeOK, ValuesOK, Steps, cache
<1>4. CASE ArgsToBcb
  BY <1>4, MessageType, SetBcbType, Zenon DEF ArgsToBcb, TypeOK, Steps
<1>5. CASE Dispatch
  BY <1>5 DEF Dispatch, TypeOK, ValuesOK, Steps, cache, history
<1>6. CASE Decide
  BY <1>6 DEF Decide, TypeOK, ValuesOK, Steps, cache
<1>7. CASE InstallFails
  BY <1>7 DEF InstallFails, Installable, TypeOK, ValuesOK, Steps, cache
<1>8. CASE InstallBegin
  BY <1>8 DEF InstallBegin, Installable, TypeOK, ValuesOK, Steps, cache,
     local, history
<1>9. CASE InstallEnd
  BY <1>9 DEF InstallEnd, TypeOK, ValuesOK, Steps, cache, history
<1>10. CASE Installed
  BY <1>10 DEF Installed, BackToMenu, TypeOK, ValuesOK, Steps, cache, history
<1>11. CASE EraseData
  BY <1>11 DEF EraseData, TypeOK, ValuesOK, Steps, cache, local, history
<1>12. CASE EraseDataEnd
  BY <1>12 DEF EraseDataEnd, TypeOK, ValuesOK, Steps, cache
<1>13. CASE EraseCache
  BY <1>13 DEF EraseCache, TypeOK, ValuesOK, Steps, history
<1>14. CASE EraseCacheEnd
  BY <1>14 DEF EraseCacheEnd, BackToMenu, TypeOK, ValuesOK, Steps
<1>15. CASE FinishFiles
  BY <1>15 DEF FinishFiles, TypeOK, ValuesOK, Steps, local, history
<1>16. CASE FinishDies
  BY <1>16 DEF FinishDies, NewProcess, TypeOK, ValuesOK, Steps, cache, history
<1>17. CASE ClearBcb
  BY <1>17, MessageType, SetBcbType, Zenon DEF ClearBcb, Cleared, TypeOK, Steps
<1>18. CASE UnlinkCommand
  BY <1>18 DEF UnlinkCommand, TypeOK, ValuesOK, Steps
<1>19. CASE SdcardBcb
  BY <1>19, MessageType, SetBcbType, Zenon DEF SdcardBcb, TypeOK, Steps
<1>20. CASE CopySideloadedPackage
  BY <1>20 DEF CopySideloadedPackage, TypeOK, ValuesOK, Steps, cache
<1>21. CASE MenuReboot
  BY <1>21 DEF MenuReboot, Choose, TypeOK, ValuesOK, Steps, cache
<1>22. CASE MenuWipeData
  BY <1>22 DEF MenuWipeData, BackToMenu, Choose, TypeOK, ValuesOK, Steps, cache
<1>23. CASE MenuWipeCache
  BY <1>23 DEF MenuWipeCache, Choose, TypeOK, ValuesOK, Steps, cache
<1>24. CASE ApplyFromAdb
  BY <1>24 DEF ApplyFromAdb, Choose, TypeOK, ValuesOK, Steps, cache
<1>25. ASSUME NEW i \in {"ext", "cache"}, UpdateDirectory(i) PROVE ValuesOK'
  BY <1>25 DEF UpdateDirectory, Choose, BackToMenu, TypeOK, ValuesOK, Steps,
     cache
<1>26. CASE Reboot
  BY <1>26 DEF Reboot, Boot, NewProcess, TypeOK, ValuesOK, Steps, cache,
     history
<1>27. CASE Crash
  BY <1>27 DEF Crash, Boot, NewProcess, TypeOK, ValuesOK, Steps, cache,
     history
<1>28. CASE UNCHANGED vars
  BY <1>28 DEF vars, cache, local, history, TypeOK, ValuesOK, Steps, cache,
     local, history
<1> QED
  BY <1>1, <1>2, <1>3, <1>4, <1>5, <1>6, <1>7, <1>8, <1>9, <1>10, <1>11,
     <1>12, <1>13, <1>14, <1>15, <1>16, <1>17, <1>18, <1>19, <1>20, <1>21,
     <1>22, <1>23, <1>24, <1>25, <1>26, <1>27, <1>28 DEF Next, Work, Menu

LEMMA TypeStep == TypeOK /\ [Next]_vars => TypeOK'
  BY FlagsStep, ValuesStep DEF TypeOK, FlagsOK, ValuesOK

\* The type invariant of recovery.cpp's variables, for every set of commands,
\* menu items and package behaviours.
THEOREM TypeCorrect == Spec => []TypeOK
  BY TypeInit, TypeStep, PTL DEF Spec

-----------------------------------------------------------------------------
\* Every step keeps the inductive invariant, if the BCB is written atomically.
LEMMA CommandStep ==
    ASSUME AtomicBcb = TRUE
    PROVE  CommandInv /\ [Next]_vars => CommandInv'
<1> SUFFICES ASSUME AtomicBcb = TRUE, TypeOK, Safe, [Next]_vars
             PROVE  Safe'
  BY TypeStep DEF CommandInv
<1>t. /\ mode \in {"main", "recovery"} /\ excused \in BOOLEAN
      /\ after \in {"menu", "reboot"} /\ args # None
  BY CommandsAssumption DEF TypeOK
<1> USE DEF Safe, HalfDone
<1>1. ASSUME NEW c \in Commands, MainRequest(c) PROVE Safe'
  BY <1>t, <1>1, CommandsAssumption DEF MainRequest, Kept, Armed, Finishes,
     Message, local
<1>2. CASE UserBootsRecovery
  BY <1>t, <1>2 DEF UserBootsRecovery, Kept, Armed, Finishes, Message, cache,
     local, history
<1>3. CASE GetArgs
  BY <1>t, <1>3, CommandsAssumption, Zenon DEF GetArgs, Kept, Armed, Finishes,
     Message, cache
<1>4. CASE ArgsToBcb
  <2>1. mode = "recovery" /\ mode' = mode /\ excused' \in {TRUE, excused}
    BY <1>4, Zenon DEF ArgsToBcb, SetBootloaderMessage
  <2> SUFFICES ASSUME ~excused, ~excused' PROVE Kept'
    BY <1>t, <2>1, Zenon
  <2>2. Kept /\ pc = "setbcb"
    BY <1>4, <2>1 DEF ArgsToBcb, SetBootloaderMessage
  <2>3. item = "command" /\ (HalfDone => Finishes(args))
    BY <2>2 DEF Kept, Armed
  <2>4. UNCHANGED <<data, system, args, item>> /\ bcb' = Message(TRUE, args) /\ pc' = "dispatch"
    BY <1>4, Zenon DEF ArgsToBcb, SetBootloaderMessage
  <2>5. HalfDone' => Armed'
    BY <1>t, <2>3, <2>4 DEF Armed, Finishes, Message
  <2> QED
    BY <2>3, <2>4, <2>5 DEF Kept, Message
<1>5. CASE Dispatch
  <2> SUFFICES ASSUME ~excused PROVE Kept'
    BY <1>5 DEF Dispatch, history
  <2>1. Kept
    BY <1>5 DEF Dispatch
  <2>2. item = "command" /\ bcb = Message(TRUE, args)
    BY <1>5, <2>1 DEF Dispatch, Kept
  <2>3. HalfDone => Armed /\ ("update" \in args \/ "wipe_data" \in args)
    BY <2>1, <2>2 DEF Kept, Armed, Finishes, Message
  <2>4. UNCHANGED <<bcb, data, system, args, item>>
    BY <1>5 DEF Dispatch
  <2>5. \/ pc' = "install" /\ "update" \in args
        \/ pc' = "erasedata" /\ "wipe_data" \in args /\ "update" \notin args
        \/ pc' \in {"erasecache", "decide"} /\ ~HalfDone
    BY <1>5, <2>3 DEF Dispatch
  <2>6. HalfDone' => Armed'
    BY <2>3, <2>4 DEF Armed, Finishes
  <2> QED
    BY <2>2, <2>4, <2>5, <2>6 DEF Kept, Message
<1>6. CASE Decide
  BY <1>t, <1>6, Zenon DEF Decide, Kept, Armed, Finishes, Message, cache
<1>7. CASE InstallFails
  BY <1>t, <1>7 DEF InstallFails, Installable, Kept, Armed, Finishes,
     Message, cache
<1>8. CASE InstallBegin
  <2> SUFFICES ASSUME ~excused PROVE Kept'
    BY <1>8 DEF InstallBegin, history
  <2>1. Kept
    BY <1>8 DEF InstallBegin
  <2>2. item = "command" /\ bcb = Message(TRUE, args) /\ "update" \in args
    BY <1>8, <2>1 DEF InstallBegin, Kept
  <2>3. data # "torn"
    BY <2>1, <2>2 DEF Kept, Armed, Finishes, Message
  <2>4. UNCHANGED <<bcb, data, args, item>> /\ pc' = "installing"
    BY <1>8 DEF InstallBegin, local
  <2>5. Armed'
    BY <1>t, <2>2, <2>3, <2>4 DEF Armed, Finishes, Message
  <2> QED
    BY <2>2, <2>4, <2>5 DEF Kept, Message
<1>9. CASE InstallEnd
  <2> SUFFICES ASSUME ~excused PROVE Kept'
    BY <1>9 DEF InstallEnd, history
  <2>1. Kept
    BY <1>9 DEF InstallEnd
  <2>2. "update" \in args /\ bcb = Message(TRUE, args)
    BY <1>9, <2>1 DEF InstallEnd, Kept
  <2>3. data # "torn"
    BY <2>1, <2>2 DEF Kept, Armed, Finishes, Message
  <2>4. data' = data /\ system' = "new" /\ pc' = "installed"
    BY <1>9 DEF InstallEnd
  <2> QED
    BY <2>3, <2>4 DEF Kept
<1>10. CASE Installed
  BY <1>t, <1>10 DEF Installed, BackToMenu, Kept, Armed, Finishes, Message,
     cache, history
<1>11. CASE EraseData
  <2> SUFFICES ASSUME ~excused PROVE Kept'
    BY <1>11 DEF EraseData, history
  <2>1. Kept
    BY <1>11 DEF EraseData
  <2>2. /\ item = "command" /\ bcb = Message(TRUE, args)
        /\ "wipe_data" \in args /\ "update" \notin args
    BY <1>11, <2>1 DEF EraseData, Kept
  <2>3. system # "partial"
    BY <2>1, <2>2 DEF Kept, Armed, Finishes, Message
  <2>4. UNCHANGED <<bcb, system, args, item>> /\ pc' = "formatdata"
    BY <1>11 DEF EraseData, local
  <2>5. Armed'
    BY <1>t, <2>2, <2>3, <2>4 DEF Armed, Finishes, Message
  <2> QED
    BY <2>2, <2>4, <2>5 DEF Kept, Message
<1>12. CASE EraseDataEnd
  <2> SUFFICES ASSUME ~excused PROVE Kept'
    BY <1>12 DEF EraseDataEnd
  <2>1. Kept
    BY <1>12 DEF EraseDataEnd
  <2>2. item = "command" /\ bcb = Message(TRUE, args) /\ "update" \notin args
    BY <1>12, <2>1 DEF EraseDataEnd, Kept
  <2>3. system # "partial"
    BY <2>1, <2>2 DEF Kept, Armed, Finishes, Message
  <2>4. /\ UNCHANGED <<bcb, system, item>> /\ pc' = "erasecache"
        /\ data' = "empty" \/ (data' = data /\ status' = "ERROR")
    BY <1>12, <2>2 DEF EraseDataEnd
  <2>5. HalfDone' => Armed'
    BY <2>1, <2>3, <2>4 DEF Kept, Armed, Finishes
  <2> QED
    BY <2>2, <2>3, <2>4, <2>5 DEF Kept
<1>13. CASE EraseCache
  BY <1>t, <1>13 DEF EraseCache, Kept, Armed, Finishes, Message, history
<1>14. CASE EraseCacheEnd
  BY <1>t, <1>14 DEF EraseCacheEnd, BackToMenu, Kept, Armed, Finishes, Message
<1>15. CASE FinishFiles
  BY <1>t, <1>15 DEF FinishFiles, Kept, Armed, Finishes, Message, local,
     history
<1>16. CASE FinishDies
  BY <1>t, <1>16 DEF FinishDies, NewProcess, Kept, Armed, Finishes, Message,
     cache, history
<1>17. CASE ClearBcb
  BY <1>t, <1>17 DEF ClearBcb, SetBootloaderMessage, Message, Cleared, Kept,
     Armed, Finishes, cache
<1>18. CASE UnlinkCommand
  BY <1>t, <1>18 DEF UnlinkCommand, Kept, Armed, Finishes, Message
<1>19. CASE SdcardBcb
  <2>1. mode = "recovery" /\ excused
    BY <1>t, <1>19 DEF SdcardBcb, SetBootloaderMessage, Kept
  <2>2. mode' = mode /\ excused'
    BY <2>1, <1>19, Zenon DEF SdcardBcb, SetBootloaderMessage
  <2> QED
    BY <2>1, <2>2
<1>20. CASE CopySideloadedPackage
  <2>1. mode = "recovery" /\ excused
    BY <1>t, <1>20 DEF CopySideloadedPackage, Kept
  <2>2. mode' = mode /\ excused' = excused
    BY <1>20 DEF CopySideloadedPackage
  <2> QED
    BY <2>1, <2>2
<1>21. CASE MenuReboot
  BY <1>t, <1>21 DEF MenuReboot, Choose, Kept, Armed, Finishes, Message, cache
<1>22. CASE MenuWipeData
  <2>1. mode = "recovery" /\ mode' = mode /\ excused' \in {TRUE, excused}
    BY <1>22, Zenon DEF MenuWipeData, Choose
  <2> SUFFICES ASSUME ~excused, ~excused' PROVE Kept'
    BY <1>t, <2>1, Zenon
  <2>2. ~HalfDone
    BY <1>22, <2>1 DEF MenuWipeData, Choose, Kept
  <2>3. pc' = "finish" /\ UNCHANGED <<data, system>>
    BY <1>22 DEF MenuWipeData, BackToMenu, Choose
  <2> QED
    BY <2>2, <2>3 DEF Kept
<1>23. CASE MenuWipeCache
  BY <1>t, <1>23 DEF MenuWipeCache, Choose, Kept, Armed, Finishes, Message,
     cache
<1>24. CASE ApplyFromAdb
  BY <1>t, <1>24 DEF ApplyFromAdb, Choose, Kept, Armed, Finishes, Message,
     cache
<1>25. ASSUME NEW i \in {"ext", "cache"}, UpdateDirectory(i) PROVE Safe'
  BY <1>t, <1>25, Zenon DEF UpdateDirectory, Choose, BackToMenu, Kept, Armed,
     Finishes, Message, cache
<1>26. CASE Reboot
  BY <1>t, <1>26 DEF Reboot, Boot, NewProcess, Kept, Armed, Finishes,
     Message, cache, history
<1>27. CASE Crash
  BY <1>t, <1>27 DEF Crash, Boot, NewProcess, Kept, Armed, Finishes, Message,
     cache, history
<1>28. CASE UNCHANGED vars
  BY <1>t, <1>28 DEF vars, cache, local, history, Kept, Armed, Finishes,
     Message
<1> QED
  BY <1>1, <1>2, <1>3, <1>4, <1>5, <1>6, <1>7, <1>8, <1>9, <1>10, <1>11,
     <1>12, <1>13, <1>14, <1>15, <1>16, <1>17, <1>18, <1>19, <1>20, <1>21,
     <1>22, <1>23, <1>24, <1>25, <1>26, <1>27, <1>28 DEF Next, Work, Menu

\* get_args and finish_recovery keep their order: whatever the commands, the
\* menu and the packages, the main system is not booted half done unless the
\* user knows of it.
THEOREM RestartSafe ==
    ASSUME AtomicBcb = TRUE
    PROVE  Spec => []NeverHalfDone
<1>1. Init => CommandInv
  BY TypeInit DEF Init, CommandInv, Safe, HalfDone
<1>2. CommandInv /\ [Next]_vars => CommandInv'
  BY CommandStep
<1>3. CommandInv => NeverHalfDone
  BY DEF CommandInv, Safe, NeverHalfDone
<1> QED
  BY <1>1, <1>2, <1>3, PTL DEF Spec
-----------------------------------------------------------------------------
(* The wipe a package asks for. *)
\* While it is owed, its caller is on the way to the erase: install_package has just
\* returned to a caller other than apply_from_adb, or erase_volume is next.
Owing ==
    /\ item # "adb"
    /\ owed => \/ pc = "installed" /\ status = "SUCCESS" /\ wipe
               \/ pc = "erasecache"

LEMMA OwingStep ==
    ASSUME "adb" \notin MenuItems, TypeOK, Owing, [Next]_vars
    PROVE  Owing'
<1>t. {owed, wipe} \subseteq BOOLEAN /\ PackageWipes \subseteq BOOLEAN
  BY CommandsAssumption DEF TypeOK
<1> USE DEF Owing
<1>1. ASSUME NEW c \in Commands, MainRequest(c) PROVE Owing'
  BY <1>t, <1>1 DEF MainRequest, local
<1>2. CASE UserBootsRecovery
  BY <1>t, <1>2 DEF UserBootsRecovery, cache, local, history
<1>3. CASE GetArgs
  BY <1>t, <1>3 DEF GetArgs, cache
<1>4. CASE ArgsToBcb
  BY <1>t, <1>4 DEF ArgsToBcb, SetBootloaderMessage, Message, Cleared, cache
<1>5. CASE Dispatch
  BY <1>t, <1>5 DEF Dispatch, cache, history
<1>6. CASE Decide
  BY <1>t, <1>6 DEF Decide, cache
<1>7. CASE InstallFails
  BY <1>t, <1>7 DEF InstallFails, Installable, cache
<1>8. CASE InstallBegin
  BY <1>t, <1>8 DEF InstallBegin, Installable, cache, local, history
<1>9. CASE InstallEnd
  BY <1>t, <1>9 DEF InstallEnd, cache, history
<1>10. CASE Installed
  BY <1>t, <1>10 DEF Installed, BackToMenu, cache, history
<1>11. CASE EraseData
  BY <1>t, <1>11 DEF EraseData, cache, local, history
<1>12. CASE EraseDataEnd
  BY <1>t, <1>12 DEF EraseDataEnd, cache
<1>13. CASE EraseCache
  BY <1>t, <1>13 DEF EraseCache, history
<1>14. CASE EraseCacheEnd
  BY <1>t, <1>14 DEF EraseCacheEnd, BackToMenu
<1>15. CASE FinishFiles
  BY <1>t, <1>15 DEF FinishFiles, local, history
<1>16. CASE FinishDies
  BY <1>t, <1>16 DEF FinishDies, NewProcess, cache, history
<1>17. CASE ClearBcb
  BY <1>t, <1>17 DEF ClearBcb, SetBootloaderMessage, Message, Cleared, cache
<1>18. CASE UnlinkCommand
  BY <1>t, <1>18 DEF UnlinkCommand
<1>19. CASE SdcardBcb
  BY <1>t, <1>19 DEF SdcardBcb, SetBootloaderMessage, Message, Cleared, cache
<1>20. CASE CopySideloadedPackage
  BY <1>t, <1>20 DEF CopySideloadedPackage, cache
<1>21. CASE MenuReboot
  BY <1>t, <1>21 DEF MenuReboot, Choose, cache
<1>22. CASE MenuWipeData
  BY <1>t, <1>22 DEF MenuWipeData, BackToMenu, Choose, cache
<1>23. CASE MenuWipeCache
  BY <1>t, <1>23 DEF MenuWipeCache, Choose, cache
<1>24. CASE ApplyFromAdb
  BY <1>t, <1>24 DEF ApplyFromAdb, Choose, cache
<1>25. ASSUME NEW i \in {"ext", "cache"}, UpdateDirectory(i) PROVE Owing'
  BY <1>t, <1>25 DEF UpdateDirectory, Choose, BackToMenu, cache
<1>26. CASE Reboot
  BY <1>t, <1>26 DEF Reboot, Boot, NewProcess, cache, history
<1>27. CASE Crash
  BY <1>t, <1>27 DEF Crash, Boot, NewProcess, cache, history
<1>28. CASE UNCHANGED vars
  BY <1>t, <1>28 DEF vars, cache, local, history
<1> QED
  BY <1>1, <1>2, <1>3, <1>4, <1>5, <1>6, <1>7, <1>8, <1>9, <1>10, <1>11,
     <1>12, <1>13, <1>14, <1>15, <1>16, <1>17, <1>18, <1>19, <1>20, <1>21,
     <1>22, <1>23, <1>24, <1>25, <1>26, <1>27, <1>28 DEF Next, Work, Menu

\* install.h leaves the wipe to the caller.  Whatever the commands, the other menu items
\* and the packages, main() and update_directory carry it out before the menu is shown
\* again or the device rebooted, interrupted or not; apply_from_adb, which does not, is
\* left out.
THEOREM WipeIsHonoured ==
    ASSUME "adb" \notin MenuItems
    PROVE  Spec => []WipeHonoured
<1>1. Init => TypeOK /\ Owing
  BY TypeInit DEF Init, Owing
<1>2. TypeOK /\ Owing /\ [Next]_vars => TypeOK' /\ Owing'
  BY TypeStep, OwingStep
<1>3. Owing => WipeHonoured
  BY DEF Owing, WipeHonoured
<1> QED
  BY <1>1, <1>2, <1>3, PTL DEF Spec

-----------------------------------------------------------------------------
(* What set_bootloader_message does, and what a block says. *)
LEMMA MessageMoves ==
    ASSUME NEW at, NEW m, NEW next, SetBootloaderMessage(at, m, next)
    PROVE  /\ pc = at /\ mode = "recovery"
           /\ \/ bcb' = m /\ pc' = next /\ fault' = fault
              \/ bcb' = Cleared /\ pc' = pc /\ fault' = fault
              \/ bcb' = bcb /\ pc' = next /\ fault' = TRUE
           /\ UNCHANGED <<cmdFile, cacheOk, pkg, mode, args, status, wipe, item, after>>
BY DEF SetBootloaderMessage, cache

LEMMA MessageSays ==
    /\ ~Cleared.boot /\ Cleared.args = None
    /\ \A a : Message(TRUE, a).boot /\ Message(TRUE, a).args = a
BY SMTT(30) DEF Message, Cleared

-----------------------------------------------------------------------------
(* A package chosen at the menu. *)
\* From the moment set_sdcard_update_bootloader_message has returned the BCB says
\* recovery, unless it could not be written.
Returning ==
    /\ mode = "main" => pc = "args"
    /\ pc \in {"args", "setbcb", "dispatch"} => item = "command"
    /\ item \in {"ext", "cache"} /\ pc \in {"copy", "install", "installing"} /\ ~fault
          => bcb.boot

LEMMA ReturningStep ==
    ASSUME TypeOK, Returning, [Next]_vars
    PROVE  Returning'
<1>t. /\ mode \in {"main", "recovery"} /\ after \in {"menu", "reboot"}
      /\ fault \in BOOLEAN
  BY DEF TypeOK
<1> USE DEF Returning
<1>1. ASSUME NEW c \in Commands, MainRequest(c) PROVE Returning'
  BY <1>t, <1>1 DEF MainRequest, local
<1>2. CASE UserBootsRecovery
  BY <1>t, <1>2 DEF UserBootsRecovery, cache, local, history
<1>3. CASE GetArgs
  BY <1>t, <1>3 DEF GetArgs, cache
<1>4. CASE ArgsToBcb
  BY <1>t, <1>4, MessageMoves, Zenon DEF ArgsToBcb
<1>5. CASE Dispatch
  BY <1>t, <1>5 DEF Dispatch, cache, history
<1>6. CASE Decide
  BY <1>t, <1>6 DEF Decide, cache
<1>7. CASE InstallFails
  BY <1>t, <1>7 DEF InstallFails, Installable, cache
<1>8. CASE InstallBegin
  BY <1>t, <1>8 DEF InstallBegin, Installable, cache, local, history
<1>9. CASE InstallEnd
  BY <1>t, <1>9 DEF InstallEnd, cache, history
<1>10. CASE Installed
  BY <1>t, <1>10 DEF Installed, BackToMenu, cache, history
<1>11. CASE EraseData
  BY <1>t, <1>11 DEF EraseData, cache, local, history
<1>12. CASE EraseDataEnd
  BY <1>t, <1>12 DEF EraseDataEnd, cache
<1>13. CASE EraseCache
  BY <1>t, <1>13 DEF EraseCache, history
<1>14. CASE EraseCacheEnd
  BY <1>t, <1>14 DEF EraseCacheEnd, BackToMenu
<1>15. CASE FinishFiles
  BY <1>t, <1>15 DEF FinishFiles, local, history
<1>16. CASE FinishDies
  BY <1>t, <1>16 DEF FinishDies, NewProcess, cache, history
<1>17. CASE ClearBcb
  <2>1. /\ pc = "clear" /\ mode = "recovery"
        /\ \/ bcb' = Cleared /\ pc' = "unlink" /\ fault' = fault
           \/ bcb' = Cleared /\ pc' = pc /\ fault' = fault
           \/ bcb' = bcb /\ pc' = "unlink" /\ fault' = TRUE
        /\ UNCHANGED <<cmdFile, cacheOk, pkg, mode, args, status, wipe, item, after>>
    BY <1>17, MessageMoves, Zenon DEF ClearBcb
  <2> QED BY <1>t, <2>1
<1>18. CASE UnlinkCommand
  BY <1>t, <1>18 DEF UnlinkCommand
<1>19. CASE SdcardBcb
  <2>1. /\ pc = "sdbcb" /\ mode = "recovery"
        /\ \/ bcb' = Message(TRUE, {}) /\ pc' = "copy" /\ fault' = fault
           \/ bcb' = Cleared /\ pc' = pc /\ fault' = fault
           \/ bcb' = bcb /\ pc' = "copy" /\ fault' = TRUE
        /\ UNCHANGED <<cmdFile, cacheOk, pkg, mode, args, status, wipe, item, after>>
    BY <1>19, MessageMoves, Zenon DEF SdcardBcb
  <2> QED BY <1>t, <2>1, MessageSays, Zenon
<1>20. CASE CopySideloadedPackage
  BY <1>t, <1>20 DEF CopySideloadedPackage, cache
<1>21. CASE MenuReboot
  BY <1>t, <1>21 DEF MenuReboot, Choose, cache
<1>22. CASE MenuWipeData
  BY <1>t, <1>22 DEF MenuWipeData, BackToMenu, Choose, cache
<1>23. CASE MenuWipeCache
  BY <1>t, <1>23 DEF MenuWipeCache, Choose, cache
<1>24. CASE ApplyFromAdb
  BY <1>t, <1>24 DEF ApplyFromAdb, Choose, cache
<1>25. ASSUME NEW i \in {"ext", "cache"}, UpdateDirectory(i) PROVE Returning'
  BY <1>t, <1>25 DEF UpdateDirectory, Choose, BackToMenu, cache
<1>26. CASE Reboot
  BY <1>t, <1>26 DEF Reboot, Boot, NewProcess, cache, history
<1>27. CASE Crash
  BY <1>t, <1>27 DEF Crash, Boot, NewProcess, cache, history
<1>28. CASE UNCHANGED vars
  BY <1>t, <1>28 DEF vars, cache, local, history
<1> QED
  BY <1>1, <1>2, <1>3, <1>4, <1>5, <1>6, <1>7, <1>8, <1>9, <1>10, <1>11,
     <1>12, <1>13, <1>14, <1>15, <1>16, <1>17, <1>18, <1>19, <1>20, <1>21,
     <1>22, <1>23, <1>24, <1>25, <1>26, <1>27, <1>28 DEF Next, Work, Menu

\* Also where misc is erased before it is written: the installation of a package from
\* /sdcard or /cache that the power cuts short is followed by a boot of recovery.
THEOREM SideloadIsRemembered == Spec => SideloadReturns
<1>1. Init => TypeOK /\ Returning
  BY TypeInit DEF Init, Returning
<1>2. TypeOK /\ Returning /\ [Next]_vars => TypeOK' /\ Returning'
  BY TypeStep, ReturningStep
<1>3. Returning /\ [Next]_vars =>
        [Crash /\ item \in {"ext", "cache"} /\ pc \in {"install", "installing"} /\ ~fault
            => mode' = "recovery"]_vars
  BY DEF Returning, Crash, Boot
<1> QED
  BY <1>1, <1>2, <1>3, PTL DEF Spec, SideloadReturns
-----------------------------------------------------------------------------
(* No false alarm. *)
Asks(a) == a # None /\ "update" \in a
Erasing == {"erasedata", "formatdata", "erasecache", "formatcache"}
Doing == {"install", "installing", "installed", "decide"} \cup Erasing

\* What is on /cache and in misc, faults or not: a command file lies beside the package
\* it asks for, and the main system runs only with a cleared BCB.
Recorded ==
    /\ cmdFile # None => cacheOk /\ (Asks(cmdFile) => pkg)
    /\ bcb.boot \/ bcb = Cleared
    /\ mode = "main" => pc = "args" /\ ~bcb.boot
    /\ pc \in {"args", "setbcb", "dispatch", "decide"} => item = "command"
    /\ pc \in {"sdbcb", "copy"} => item # "command"

\* As long as nothing has failed: as long as some boot may still install the command's
\* package it is there, since /cache is erased only when the BCB does not ask for it.
Unharmed ==
    /\ Asks(bcb.args) \/ (pc = "setbcb" /\ Asks(args)) => cacheOk /\ pkg
    /\ pc \in Doing \cup {"dispatch"} /\ item = "command" => bcb.args = args
    /\ pc \in Doing /\ item # "command" => ~Asks(bcb.args)
    /\ pc \in {"unlink", "menu", "sdbcb", "copy"} \cup Erasing => ~Asks(bcb.args)
    /\ pc \in {"install", "installing"} /\ item = "command" => Asks(args)
    /\ pc = "installed" => ~(status = "SUCCESS" /\ wipe)
    /\ pc \in Doing /\ item = "command" => status # "ERROR"

LEMMA RecordedStep ==
    ASSUME TypeOK, Recorded, [Next]_vars
    PROVE  Recorded'
<1>t. /\ mode \in {"main", "recovery"} /\ after \in {"menu", "reboot"}
      /\ {fault, cacheOk, pkg} \subseteq BOOLEAN
  BY DEF TypeOK
<1> USE DEF Recorded, Asks
<1>1. ASSUME NEW c \in Commands, MainRequest(c) PROVE Recorded'
  BY <1>t, <1>1, Zenon DEF MainRequest, local
<1>2. CASE UserBootsRecovery
  BY <1>t, <1>2 DEF UserBootsRecovery, cache, local, history
<1>3. CASE GetArgs
  BY <1>t, <1>3 DEF GetArgs, cache
<1>4. CASE ArgsToBcb
  <2>1. /\ pc = "setbcb" /\ mode = "recovery"
        /\ \/ bcb' = Message(TRUE, args) /\ pc' = "dispatch" /\ fault' = fault
           \/ bcb' = Cleared /\ pc' = pc /\ fault' = fault
           \/ bcb' = bcb /\ pc' = "dispatch" /\ fault' = TRUE
        /\ UNCHANGED <<cmdFile, cacheOk, pkg, mode, args, status, wipe, item, after>>
    BY <1>4, MessageMoves, Zenon DEF ArgsToBcb
  <2> QED BY <1>t, <2>1, MessageSays, Zenon
<1>5. CASE Dispatch
  BY <1>t, <1>5 DEF Dispatch, cache, history
<1>6. CASE Decide
  BY <1>t, <1>6 DEF Decide, cache
<1>7. CASE InstallFails
  BY <1>t, <1>7 DEF InstallFails, Installable, cache
<1>8. CASE InstallBegin
  BY <1>t, <1>8 DEF InstallBegin, Installable, cache, local, history
<1>9. CASE InstallEnd
  BY <1>t, <1>9 DEF InstallEnd, cache, history
<1>10. CASE Installed
  BY <1>t, <1>10 DEF Installed, BackToMenu, cache, history
<1>11. CASE EraseData
  BY <1>t, <1>11 DEF EraseData, cache, local, history
<1>12. CASE EraseDataEnd
  BY <1>t, <1>12 DEF EraseDataEnd, cache
<1>13. CASE EraseCache
  BY <1>t, <1>13 DEF EraseCache, history
<1>14. CASE EraseCacheEnd
  <2>1. /\ pc = "formatcache" /\ pc' \in {"decide", "finish"}
        /\ item # "command" => pc' = "finish"
        /\ cacheOk' = TRUE \/ cacheOk' = cacheOk
        /\ UNCHANGED <<bcb, cmdFile, pkg, mode, item>>
    BY <1>14 DEF EraseCacheEnd, BackToMenu
  <2>2. cacheOk => cacheOk'
    BY <2>1, Zenon
  <2> QED BY <2>1, <2>2
<1>15. CASE FinishFiles
  BY <1>t, <1>15 DEF FinishFiles, local, history
<1>16. CASE FinishDies
  BY <1>t, <1>16 DEF FinishDies, NewProcess, cache, history
<1>17. CASE ClearBcb
  <2>1. /\ pc = "clear" /\ mode = "recovery"
        /\ \/ bcb' = Cleared /\ pc' = "unlink" /\ fault' = fault
           \/ bcb' = Cleared /\ pc' = pc /\ fault' = fault
           \/ bcb' = bcb /\ pc' = "unlink" /\ fault' = TRUE
        /\ UNCHANGED <<cmdFile, cacheOk, pkg, mode, args, status, wipe, item, after>>
    BY <1>17, MessageMoves, Zenon DEF ClearBcb
  <2> QED BY <1>t, <2>1, MessageSays
<1>18. CASE UnlinkCommand
  BY <1>t, <1>18 DEF UnlinkCommand
<1>19. CASE SdcardBcb
  <2>1. /\ pc = "sdbcb" /\ mode = "recovery"
        /\ \/ bcb' = Message(TRUE, {}) /\ pc' = "copy" /\ fault' = fault
           \/ bcb' = Cleared /\ pc' = pc /\ fault' = fault
           \/ bcb' = bcb /\ pc' = "copy" /\ fault' = TRUE
        /\ UNCHANGED <<cmdFile, cacheOk, pkg, mode, args, status, wipe, item, after>>
    BY <1>19, MessageMoves, Zenon DEF SdcardBcb
  <2> QED BY <1>t, <2>1, MessageSays, Zenon
<1>20. CASE CopySideloadedPackage
  BY <1>t, <1>20 DEF CopySideloadedPackage, cache
<1>21. CASE MenuReboot
  BY <1>t, <1>21 DEF MenuReboot, Choose, cache
<1>22. CASE MenuWipeData
  BY <1>t, <1>22 DEF MenuWipeData, BackToMenu, Choose, cache
<1>23. CASE MenuWipeCache
  BY <1>t, <1>23 DEF MenuWipeCache, Choose, cache
<1>24. CASE ApplyFromAdb
  BY <1>t, <1>24 DEF ApplyFromAdb, Choose, cache
<1>25. ASSUME NEW i \in {"ext", "cache"}, UpdateDirectory(i) PROVE Recorded'
  BY <1>t, <1>25 DEF UpdateDirectory, Choose, BackToMenu, cache
<1>26. CASE Reboot
  BY <1>t, <1>26 DEF Reboot, Boot, NewProcess, cache, history
<1>27. CASE Crash
  BY <1>t, <1>27 DEF Crash, Boot, NewProcess, cache, history
<1>28. CASE UNCHANGED vars
  BY <1>t, <1>28 DEF vars, cache, local, history
<1> QED
  BY <1>1, <1>2, <1>3, <1>4, <1>5, <1>6, <1>7, <1>8, <1>9, <1>10, <1>11,
     <1>12, <1>13, <1>14, <1>15, <1>16, <1>17, <1>18, <1>19, <1>20, <1>21,
     <1>22, <1>23, <1>24, <1>25, <1>26, <1>27, <1>28, Zenon DEF Next, Work, Menu

LEMMA UnharmedStep ==
    ASSUME PackageWipes \subseteq {FALSE}, TypeOK, Recorded, ~fault => Unharmed, [Next]_vars
    PROVE  ~fault' => Unharmed'
<1>t. /\ mode \in {"main", "recovery"} /\ after \in {"menu", "reboot"}
      /\ {fault, cacheOk, pkg} \subseteq BOOLEAN
      /\ args # None
  BY CommandsAssumption DEF TypeOK
<1> USE DEF Unharmed, Asks, Doing, Erasing
<1>1. ASSUME NEW c \in Commands, MainRequest(c) PROVE ~fault' => Unharmed'
  <2>1. /\ mode = "main" /\ cacheOk /\ UNCHANGED <<bcb, cacheOk, pc, args, item, status, wipe>>
    BY <1>1 DEF MainRequest, local
  <2>2. pc = "args" /\ bcb.args = None
    BY <2>1, MessageSays DEF Recorded
  <2> QED BY <2>1, <2>2
<1>2. CASE UserBootsRecovery
  BY <1>t, <1>2 DEF UserBootsRecovery, cache, local, history, Recorded
<1>3. CASE GetArgs
  BY <1>t, <1>3 DEF GetArgs, cache, Recorded
<1>4. CASE ArgsToBcb
  <2>1. /\ pc = "setbcb" /\ mode = "recovery"
        /\ \/ bcb' = Message(TRUE, args) /\ pc' = "dispatch" /\ fault' = fault
           \/ bcb' = Cleared /\ pc' = pc /\ fault' = fault
           \/ bcb' = bcb /\ pc' = "dispatch" /\ fault' = TRUE
        /\ UNCHANGED <<cmdFile, cacheOk, pkg, mode, args, status, wipe, item, after>>
    BY <1>4, MessageMoves, Zenon DEF ArgsToBcb
  <2> QED BY <1>t, <2>1, MessageSays, Zenon DEF Recorded
<1>5. CASE Dispatch
  BY <1>t, <1>5 DEF Dispatch, cache, history, Recorded
<1>6. CASE Decide
  BY <1>t, <1>6 DEF Decide, cache, Recorded
<1>7. CASE InstallFails
  <2>1. /\ pc \in {"install", "installing"} /\ pc' = "installed"
        /\ fault' = TRUE \/ (fault' = fault /\ ~(cacheOk /\ (item = "command" => pkg)))
        /\ status' = "ERROR" /\ UNCHANGED <<bcb, cacheOk, pkg, args, item, wipe>>
    BY <1>7 DEF InstallFails, Installable, cache
  <2>2. CASE fault' = TRUE
    BY <2>2
  <2>3. CASE fault' = fault /\ ~fault /\ ~(cacheOk /\ (item = "command" => pkg))
    <3>1. item # "command" /\ ~Asks(bcb.args)
      BY <2>1, <2>3
    <3> QED BY <2>1, <3>1
  <2> QED BY <1>t, <2>1, <2>2, <2>3
<1>8. CASE InstallBegin
  BY <1>t, <1>8 DEF InstallBegin, Installable, cache, local, history, Recorded
<1>9. CASE InstallEnd
  BY <1>t, <1>9, Zenon DEF InstallEnd, cache, history, Recorded
<1>10. CASE Installed
  BY <1>t, <1>10 DEF Installed, BackToMenu, cache, history, Recorded
<1>11. CASE EraseData
  BY <1>t, <1>11 DEF EraseData, cache, local, history, Recorded
<1>12. CASE EraseDataEnd
  BY <1>t, <1>12 DEF EraseDataEnd, cache, Recorded
<1>13. CASE EraseCache
  BY <1>t, <1>13 DEF EraseCache, history, Recorded
<1>14. CASE EraseCacheEnd
  <2>1. /\ pc = "formatcache" /\ pc' \in {"decide", "finish"}
        /\ item # "command" => pc' = "finish"
        /\ fault' = TRUE \/ (fault' = fault /\ cacheOk' = TRUE /\ status' = status)
        /\ UNCHANGED <<bcb, pkg, args, item, wipe>>
    BY <1>14 DEF EraseCacheEnd, BackToMenu
  <2>2. CASE fault' = TRUE
    BY <2>2
  <2>3. CASE fault' = fault /\ ~fault /\ cacheOk' = TRUE /\ status' = status
    BY <2>1, <2>3
  <2> QED BY <1>t, <2>1, <2>2, <2>3
<1>15. CASE FinishFiles
  BY <1>t, <1>15 DEF FinishFiles, local, history, Recorded
<1>16. CASE FinishDies
  BY <1>t, <1>16 DEF FinishDies, NewProcess, cache, history, Recorded
<1>17. CASE ClearBcb
  <2>1. /\ pc = "clear" /\ mode = "recovery"
        /\ \/ bcb' = Cleared /\ pc' = "unlink" /\ fault' = fault
           \/ bcb' = Cleared /\ pc' = pc /\ fault' = fault
           \/ bcb' = bcb /\ pc' = "unlink" /\ fault' = TRUE
        /\ UNCHANGED <<cmdFile, cacheOk, pkg, mode, args, status, wipe, item, after>>
    BY <1>17, MessageMoves, Zenon DEF ClearBcb
  <2> QED BY <1>t, <2>1, MessageSays DEF Recorded
<1>18. CASE UnlinkCommand
  BY <1>t, <1>18 DEF UnlinkCommand, Recorded
<1>19. CASE SdcardBcb
  <2>1. /\ pc = "sdbcb" /\ mode = "recovery"
        /\ \/ bcb' = Message(TRUE, {}) /\ pc' = "copy" /\ fault' = fault
           \/ bcb' = Cleared /\ pc' = pc /\ fault' = fault
           \/ bcb' = bcb /\ pc' = "copy" /\ fault' = TRUE
        /\ UNCHANGED <<cmdFile, cacheOk, pkg, mode, args, status, wipe, item, after>>
    BY <1>19, MessageMoves, Zenon DEF SdcardBcb
  <2> QED BY <1>t, <2>1, MessageSays, Zenon DEF Recorded
<1>20. CASE CopySideloadedPackage
  BY <1>t, <1>20 DEF CopySideloadedPackage, cache, Recorded
<1>21. CASE MenuReboot
  BY <1>t, <1>21 DEF MenuReboot, Choose, cache, Recorded
<1>22. CASE MenuWipeData
  BY <1>t, <1>22 DEF MenuWipeData, BackToMenu, Choose, cache, Recorded
<1>23. CASE MenuWipeCache
  BY <1>t, <1>23 DEF MenuWipeCache, Choose, cache, Recorded
<1>24. CASE ApplyFromAdb
  <2>1. /\ pc = "menu" /\ item' = "adb" /\ UNCHANGED <<bcb, cacheOk, pkg, args>>
        /\ fault' = TRUE \/ (pc' = "install" /\ status' = status /\ fault' = fault)
    BY <1>24 DEF ApplyFromAdb, Choose, cache
  <2> QED BY <1>t, <2>1
<1>25. ASSUME NEW i \in {"ext", "cache"}, UpdateDirectory(i) PROVE ~fault' => Unharmed'
  <2>1. /\ pc = "menu" /\ item' = i /\ UNCHANGED <<bcb, cacheOk, pkg, args>>
        /\ fault' = TRUE \/ (pc' \in {"finish", "sdbcb"} /\ fault' = fault)
    BY <1>25 DEF UpdateDirectory, Choose, BackToMenu, cache
  <2> QED BY <1>t, <2>1
<1>26. CASE Reboot
  BY <1>t, <1>26 DEF Reboot, Boot, NewProcess, cache, history, Recorded
<1>27. CASE Crash
  BY <1>t, <1>27 DEF Crash, Boot, NewProcess, cache, history, Recorded
<1>28. CASE UNCHANGED vars
  BY <1>t, <1>28 DEF vars, cache, local, history, Recorded
<1> QED
  BY <1>1, <1>2, <1>3, <1>4, <1>5, <1>6, <1>7, <1>8, <1>9, <1>10, <1>11,
     <1>12, <1>13, <1>14, <1>15, <1>16, <1>17, <1>18, <1>19, <1>20, <1>21,
     <1>22, <1>23, <1>24, <1>25, <1>26, <1>27, <1>28, Zenon DEF Next, Work, Menu

\* Packages that ask for no wipe of the cache: then a command is reported as failed only
\* if something failed since it was given, wherever its earlier attempts were interrupted,
\* whatever the user did at the menu in between, and also where misc is erased before it
\* is written.  (A package that asks for a wipe takes itself along; when that is
\* interrupted, the BCB still asks for the package.)
THEOREM NoAlarmWithoutFault ==
    ASSUME PackageWipes \subseteq {FALSE}
    PROVE  Spec => []NoFalseAlarm
<1> DEFINE Inv == TypeOK /\ Recorded /\ (~fault => Unharmed)
<1>1. Init => Inv
  <2> SUFFICES ASSUME Init PROVE Inv
    OBVIOUS
  <2>1. /\ bcb = Cleared /\ cmdFile = None /\ mode = "main" /\ pc = "args"
        /\ item = "command"
    BY DEF Init
  <2>2. Recorded
    BY <2>1, MessageSays DEF Recorded
  <2>3. Unharmed
    BY <2>1, MessageSays DEF Unharmed, Asks, Doing, Erasing
  <2> QED BY <2>2, <2>3, TypeInit
<1>2. Inv /\ [Next]_vars => Inv'
  BY TypeStep, RecordedStep, UnharmedStep, Zenon
<1>3. Inv => NoFalseAlarm
  BY DEF Recorded, Unharmed, Doing, NoFalseAlarm
<1> QED
  BY <1>1, <1>2, <1>3, PTL DEF Spec
=============================================================================
