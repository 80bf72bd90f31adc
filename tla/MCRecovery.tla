----------------------------- MODULE MCRecovery -----------------------------
(* Small instances of Recovery for TLC: what the main system may ask for.   *)
EXTENDS Recovery

\* The commands of the header comment of recovery.cpp, without --locale.
PlainCommands ==
    {{"update"}, {"update", "intent"}, {"wipe_data"}, {"wipe_cache"}, {"exit"}}

\* The same with a locale in the two that a running system sends.
LocaleCommands == {{"update", "locale"}, {"wipe_data", "locale"}}

AllCommands == PlainCommands \cup LocaleCommands

AllItems == {"reboot", "wipe_data", "wipe_cache", "ext", "cache", "adb"}
=============================================================================
