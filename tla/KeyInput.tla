------------------------------ MODULE KeyInput ------------------------------
(***************************************************************************)
(* The keys of recovery: ui.cpp, the menu loop of recovery.cpp and the keys *)
(* of default_device.cpp.  Three kinds of thread share what key_queue_mutex *)
(* protects: the input thread (process_key), one timer thread for every     *)
(* press of a key (time_key), and the main thread (get_menu_selection).     *)
(* Everything done under the mutex is one step.                             *)
(***************************************************************************)
EXTENDS Naturals, Sequences

CONSTANTS
    Keys,       \* key codes
    QueueMax,   \* the length of key_queue: 256
    Presses,    \* of power in a row to reboot, alternations to mount: 7
    NItems,     \* items of the menu
    MaxDowns,   \* bound: the presses the user makes
    NoKey       \* -1

ASSUME KeysAssumption ==
    /\ {"power", "volup", "voldown", "enter"} \cap Keys # {} /\ NoKey \notin Keys
    /\ {QueueMax, Presses, NItems, MaxDowns} \subseteq Nat \ {0}

VARIABLES
    pressed, lastDown, longPress, downCount,    \* key_*, under the mutex
    queue,                                      \* key_queue, under the mutex
    timers,     \* the timer threads: asleep, or about to call KeyLongPress
    powerRun,   \* consecutive_power_keys
    altRun,     \* consecutive_alternate_keys
    lastKey,    \* last_key
    ipc, ikey, ilong,       \* the input thread after it released the mutex
    rpc, key, selected,     \* the main thread in the menu
    showText, everShown,    \* show_text, show_text_ever
    rebooted,
    fired,      \* history: the timer of the last press found the key still down
    iold, kold, \* history: the key was registered before the menu was entered
    row         \* history: presses of power registered one after the other

held == <<pressed, lastDown, longPress, downCount>>
checking == <<powerRun, altRun, lastKey>>
input == <<ipc, ikey, ilong, iold>>
reader == <<rpc, key, selected, kold>>
text == <<showText, everShown>>
vars == <<held, queue, timers, checking, input, reader, text, rebooted, fired, row>>

Timer == [key : Keys, count : 1..MaxDowns, st : {"asleep", "report"}]
Entry == [key : Keys, old : BOOLEAN]

\* The type invariant, with the queue within its array and the highlight
\* within the menu.
TypeOK ==
    /\ pressed \in [Keys -> BOOLEAN] /\ lastDown \in Keys \cup {NoKey}
    /\ longPress \in BOOLEAN /\ downCount \in 0..MaxDowns
    /\ queue \in Seq(Entry) /\ Len(queue) <= QueueMax
    /\ timers \subseteq Timer
    /\ powerRun \in 0..Presses /\ altRun \in 0..Presses
    /\ lastKey \in Keys \cup {NoKey}
    /\ ipc \in {"idle", "check", "enqueue"} /\ ikey \in Keys \cup {NoKey}
    /\ rpc \in {"busy", "wait", "blocked", "woken", "expired", "handle"}
    /\ key \in Keys \cup {NoKey} /\ selected \in 0..(NItems - 1)
    /\ row \in Nat
    /\ {fired, ilong, showText, everShown, rebooted, iold, kold} \subseteq BOOLEAN

\* The constructor leaves key_pressed uninitialized, and keys may be down.
Init ==
    /\ pressed \in [Keys -> BOOLEAN] /\ lastDown = NoKey
    /\ longPress = FALSE /\ downCount = 0
    /\ queue = <<>> /\ timers = {}
    /\ powerRun = 0 /\ altRun = 0 /\ lastKey = NoKey
    /\ ipc = "idle" /\ ikey = NoKey /\ ilong = FALSE
    /\ rpc = "busy" /\ key = NoKey /\ selected = 0
    /\ showText = FALSE /\ everShown = FALSE /\ rebooted = FALSE
    /\ fired = FALSE /\ iold = FALSE /\ kold = FALSE /\ row = 0

-----------------------------------------------------------------------------
(* process_key in the input thread. *)

\* updown is 1, or 2 when the kernel repeats the key.
KeyDown(k) ==
    /\ ~rebooted /\ ipc = "idle" /\ downCount < MaxDowns
    /\ pressed' = [pressed EXCEPT ![k] = TRUE]
    /\ downCount' = downCount + 1
    /\ lastDown' = k
    /\ longPress' = FALSE
    /\ timers' = timers \cup {[key |-> k, count |-> downCount', st |-> "asleep"]}
    /\ fired' = FALSE
    /\ UNCHANGED <<queue, checking, input, reader, text, rebooted, row>>

\* The key is registered if no other was pressed or released since.
KeyUp(k) ==
    /\ ~rebooted /\ ipc = "idle" /\ pressed[k]
    /\ pressed' = [pressed EXCEPT ![k] = FALSE]
    /\ lastDown' = NoKey
    /\ IF lastDown = k
         THEN /\ ipc' = "check" /\ ikey' = k /\ ilong' = longPress /\ iold' = FALSE
              /\ row' = IF k = "power" THEN row + 1 ELSE 0
         ELSE UNCHANGED <<input, row>>
    /\ UNCHANGED <<longPress, downCount, queue, timers, checking, reader, text,
                   rebooted, fired>>

\* Mistake: the first press in a row is not counted.
ConsecutivePowers_OffByOne ==
    IF ikey = "power" /\ lastKey = "power" THEN powerRun + 1 ELSE 0

ConsecutivePowers == IF ikey = "power" THEN powerRun + 1 ELSE 0

Alternates ==
    \/ ikey = "volup" /\ lastKey \in {"voldown", NoKey}
    \/ ikey = "voldown" /\ lastKey \in {"volup", NoKey}

\* process_key returns.
Registered == ipc' = "idle" /\ ikey' = NoKey /\ ilong' = FALSE /\ iold' = FALSE

\* NextCheckKeyIsLong, CheckKey and what process_key does with its answer.
\* TOGGLE returns before the counts are touched, REBOOT and MOUNT_SYSTEM before
\* last_key is.
CheckKey ==
    /\ ~rebooted /\ ipc = "check"
    /\ IF "power" \in Keys /\ pressed["power"] /\ ikey = "volup"
         THEN /\ showText' = ~showText /\ everShown' = (everShown \/ ~showText)
              /\ Registered
              /\ UNCHANGED <<checking, rebooted>>
         ELSE /\ powerRun' = ConsecutivePowers
              /\ UNCHANGED text
              /\ \/ /\ powerRun' >= Presses
                    /\ rebooted' = TRUE /\ Registered
                    /\ UNCHANGED <<altRun, lastKey>>
                 \/ /\ powerRun' < Presses /\ Alternates /\ altRun + 1 >= Presses
                    /\ altRun' = 0 /\ Registered
                    /\ UNCHANGED <<lastKey, rebooted>>
                 \/ /\ powerRun' < Presses /\ ~(Alternates /\ altRun + 1 >= Presses)
                    /\ altRun' = IF Alternates THEN altRun + 1 ELSE 0
                    /\ lastKey' = ikey /\ ipc' = "enqueue"
                    /\ UNCHANGED <<ikey, ilong, iold, rebooted>>
    /\ UNCHANGED <<held, queue, timers, reader, fired, row>>

\* Mistake: the condition is not signalled.
EnqueueKey_NoSignal ==
    /\ ~rebooted /\ ipc = "enqueue"
    /\ IF Len(queue) < QueueMax
         THEN queue' = Append(queue, [key |-> ikey, old |-> iold])
         ELSE UNCHANGED queue
    /\ Registered
    /\ UNCHANGED <<held, timers, checking, reader, text, rebooted,
                   fired, row>>

\* A full queue drops the key.
EnqueueKey ==
    /\ ~rebooted /\ ipc = "enqueue"
    /\ IF Len(queue) < QueueMax
         THEN /\ queue' = Append(queue, [key |-> ikey, old |-> iold])
              /\ rpc' = IF rpc = "blocked" THEN "woken" ELSE rpc
         ELSE UNCHANGED <<queue, rpc>>
    /\ Registered
    /\ UNCHANGED <<held, timers, checking, key, selected, kold,
                   text, rebooted, fired, row>>

-----------------------------------------------------------------------------
(* time_key: 750 ms after the press, under the mutex; then KeyLongPress. *)

\* Mistake: the press is not compared, only the key.
TimeKey_AnyPress(t) ==
    /\ ~rebooted /\ t.st = "asleep"
    /\ IF lastDown = t.key
         THEN /\ longPress' = TRUE
              /\ timers' = (timers \ {t}) \cup {[t EXCEPT !.st = "report"]}
              /\ fired' = (fired \/ t.count = downCount)
         ELSE timers' = timers \ {t} /\ UNCHANGED <<longPress, fired>>
    /\ UNCHANGED <<pressed, lastDown, downCount, queue, checking, input, reader,
                   text, rebooted, row>>

TimeKey(t) ==
    /\ ~rebooted /\ t.st = "asleep"
    /\ IF lastDown = t.key /\ downCount = t.count
         THEN /\ longPress' = TRUE
              /\ timers' = (timers \ {t}) \cup {[t EXCEPT !.st = "report"]}
              /\ fired' = (fired \/ t.count = downCount)
         ELSE timers' = timers \ {t} /\ UNCHANGED <<longPress, fired>>
    /\ UNCHANGED <<pressed, lastDown, downCount, queue, checking, input, reader,
                   text, rebooted, row>>

KeyLongPress(t) ==
    /\ ~rebooted /\ t.st = "report"
    /\ timers' = timers \ {t}
    /\ UNCHANGED <<held, queue, checking, input, reader, text, rebooted, fired, row>>

-----------------------------------------------------------------------------
(* get_menu_selection in the main thread. *)

\* Mistake: FlushKeys is not called, and the keys in the queue are old.
GetMenuSelection_NoFlush ==
    /\ ~rebooted /\ rpc = "busy"
    /\ queue' = [k \in DOMAIN queue |-> [queue[k] EXCEPT !.old = TRUE]]
    /\ selected' = 0
    /\ rpc' = "wait"
    /\ iold' = (ipc # "idle")
    /\ UNCHANGED <<held, timers, checking, ipc, ikey, ilong, key, kold, text,
                   rebooted, fired, row>>

\* FlushKeys, StartMenu.
GetMenuSelection ==
    /\ ~rebooted /\ rpc = "busy"
    /\ queue' = <<>>
    /\ selected' = 0
    /\ rpc' = "wait"
    /\ iold' = (ipc # "idle")
    /\ UNCHANGED <<held, timers, checking, ipc, ikey, ilong, key, kold, text,
                   rebooted, fired, row>>

\* Mistake: key_queue_len is not decremented.
TakeKey_Kept ==
    /\ queue # <<>>
    /\ key' = Head(queue).key /\ kold' = Head(queue).old
    /\ queue' = queue
    /\ rpc' = "handle"

\* The end of WaitKey when there is a key.
TakeKey ==
    /\ queue # <<>>
    /\ key' = Head(queue).key /\ kold' = Head(queue).old
    /\ queue' = Tail(queue)
    /\ rpc' = "handle"

\* The test of the inner loop of WaitKey.
WaitKey ==
    /\ ~rebooted /\ rpc \in {"wait", "woken"}
    /\ TakeKey \/ (queue = <<>> /\ rpc' = "blocked" /\ UNCHANGED <<queue, key, kold>>)
    /\ UNCHANGED <<held, timers, checking, input, selected, text, rebooted, fired, row>>

\* 120 s are over; a key may still come before the mutex is held again.
TimedWaitExpires ==
    /\ ~rebooted /\ rpc = "blocked"
    /\ rpc' = "expired"
    /\ UNCHANGED <<held, queue, timers, checking, input, key, selected, kold, text,
                   rebooted, fired, row>>

\* ETIMEDOUT: wait again if USB is connected.
WaitKeyExpired ==
    /\ ~rebooted /\ rpc = "expired"
    /\ \/ TakeKey
       \/ queue = <<>> /\ rpc' = "wait" /\ UNCHANGED <<queue, key, kold>>
       \/ queue = <<>> /\ rpc' = "handle" /\ key' = NoKey /\ kold' = FALSE /\ UNCHANGED queue
    /\ UNCHANGED <<held, timers, checking, input, selected, text, rebooted, fired, row>>

\* After a timeout item 0 is chosen unless the text was ever visible.  Keys do
\* something only while it is visible; an item that was chosen is carried out.
HandleMenuKey ==
    /\ ~rebooted /\ rpc = "handle"
    /\ \/ /\ key = NoKey
          /\ rpc' = IF everShown THEN "wait" ELSE "busy"
          /\ UNCHANGED selected
       \/ /\ key # NoKey
          /\ rpc' = IF showText /\ key = "enter" THEN "busy" ELSE "wait"
          /\ selected' =
                CASE showText /\ key = "voldown" /\ selected < NItems - 1 -> selected + 1
                  [] showText /\ key = "volup" /\ selected > 0 -> selected - 1
                  [] OTHER -> selected
    /\ key' = NoKey /\ kold' = FALSE
    /\ UNCHANGED <<held, queue, timers, checking, input, text, rebooted, fired, row>>

-----------------------------------------------------------------------------
InputThread == CheckKey \/ EnqueueKey
TimerThreads == \E t \in timers : TimeKey(t) \/ KeyLongPress(t)
MainThread ==
    GetMenuSelection \/ WaitKey \/ TimedWaitExpires \/ WaitKeyExpired \/ HandleMenuKey

Next ==
    \/ \E k \in Keys : KeyDown(k) \/ KeyUp(k)
    \/ InputThread \/ TimerThreads \/ MainThread

Spec == Init /\ [][Next]_vars

\* No thread is starved; the user need not touch a key.
FairSpec ==
    Spec /\ WF_vars(InputThread) /\ WF_vars(TimerThreads) /\ WF_vars(MainThread)

-----------------------------------------------------------------------------
(* Properties. *)

\* CheckKey is told of a long press exactly when the timer of that very press
\* found the key down: a timer left over from an earlier press of the same key
\* has no say.
LongPressExact == ipc = "check" => (ilong <=> fired)

\* The queue never holds more than it can (TypeOK), and the main thread does not
\* sleep on a key that is in it.
NoLostWakeup ==
    /\ TypeOK
    /\ rpc = "blocked" => queue = <<>>

\* However it is done, power registered seven times in a row reboots.
PowerReboots == ipc = "idle" /\ row >= Presses => rebooted

\* get_menu_selection: "throw away keys pressed previously, so user doesn't
\* accidentally trigger menu items".  process_key lets go of the mutex between
\* registering a key and enqueueing it, so one such key may come after the flush;
\* it is the only one, and no newer key overtakes it.
OneOldKey ==
    /\ \A k \in DOMAIN queue : queue[k].old => k = 1 /\ ~kold /\ ~iold
    /\ ~(kold /\ iold)

\* Keys in the queue are dealt with when the user stops pressing keys.
KeysConsumed == queue # <<>> ~> queue = <<>> \/ rebooted
=============================================================================
