-------------------------- MODULE KeyInput_proofs ---------------------------
(***************************************************************************)
(* Proofs about KeyInput, for every set of keys, length of the queue, number *)
(* of presses and of items: what the threads of ui.cpp leave in what they    *)
(* share, however their steps interleave.                                    *)
(***************************************************************************)
EXTENDS KeyInput, SequenceTheorems, TLAPS

\* TypeOK by the threads that write it, with what the counts need besides: a run that is
\* long enough is acted upon at once, and a key under way is a key.
FlagsOK ==
    /\ pressed \in [Keys -> BOOLEAN]
    /\ {longPress, fired, ilong, showText, everShown, rebooted, iold, kold} \subseteq BOOLEAN
HeldOK ==
    /\ lastDown \in Keys \cup {NoKey}
    /\ downCount \in 0..MaxDowns
    /\ timers \subseteq Timer
CheckOK ==
    /\ powerRun \in 0..Presses /\ altRun \in 0..(Presses - 1)
    /\ ~rebooted => powerRun < Presses
    /\ lastKey \in Keys \cup {NoKey}
    /\ ipc \in {"idle", "check", "enqueue"} /\ ikey \in Keys \cup {NoKey}
    /\ ipc # "idle" => ikey \in Keys
    /\ row \in Nat
QueueOK ==
    /\ queue \in Seq(Entry) /\ Len(queue) <= QueueMax
    /\ rpc \in {"busy", "wait", "blocked", "woken", "expired", "handle"}
    /\ key \in Keys \cup {NoKey} /\ selected \in 0..(NItems - 1)

Types == FlagsOK /\ HeldOK /\ CheckOK /\ QueueOK

LEMMA Bounds ==
    /\ QueueMax \in Nat /\ Presses \in Nat /\ NItems \in Nat /\ MaxDowns \in Nat
    /\ QueueMax > 0 /\ Presses > 0 /\ NItems > 0 /\ MaxDowns > 0
    /\ NoKey \notin Keys
BY KeysAssumption

LEMMA TypesImply == Types => TypeOK
<1> SUFFICES ASSUME Types PROVE TypeOK
  OBVIOUS
<1>1. altRun \in 0..Presses
  BY Bounds DEF Types, CheckOK
<1> QED BY <1>1 DEF Types, FlagsOK, HeldOK, CheckOK, QueueOK, TypeOK

-----------------------------------------------------------------------------
(* What each thread leaves alone. *)
LEMMA UserFrame ==
    ASSUME NEW k \in Keys, KeyDown(k) \/ KeyUp(k)
    PROVE  UNCHANGED <<queue, powerRun, altRun, lastKey, rpc, key, selected, kold,
                       showText, everShown, rebooted>>
BY DEF KeyDown, KeyUp, checking, reader, text

LEMMA InputFrame ==
    ASSUME InputThread
    PROVE  UNCHANGED <<pressed, lastDown, longPress, downCount, timers, fired, row,
                       key, selected, kold>>
BY DEF InputThread, CheckKey, EnqueueKey, held, reader

LEMMA TimerFrame ==
    ASSUME TimerThreads
    PROVE  UNCHANGED <<pressed, lastDown, downCount, queue, powerRun, altRun, lastKey,
                       ipc, ikey, ilong, iold, rpc, key, selected, kold, showText,
                       everShown, rebooted, row>>
BY DEF TimerThreads, TimeKey, KeyLongPress, held, checking, input, reader, text

LEMMA MainFrame ==
    ASSUME MainThread
    PROVE  UNCHANGED <<pressed, lastDown, longPress, downCount, timers, powerRun, altRun,
                       lastKey, ipc, ikey, ilong, showText, everShown, rebooted, fired,
                       row>>
BY DEF MainThread, GetMenuSelection, WaitKey, TimedWaitExpires, WaitKeyExpired,
       HandleMenuKey, held, checking, input, text

-----------------------------------------------------------------------------
(* Types. *)
\* The key WaitKey takes, and what it leaves.
LEMMA HeadOfQueue ==
    ASSUME queue \in Seq(Entry), queue # <<>>
    PROVE  /\ Head(queue).key \in Keys /\ Head(queue).old \in BOOLEAN
           /\ Head(queue) = queue[1] /\ Len(queue) \in Nat \ {0}
           /\ Tail(queue) \in Seq(Entry) /\ Len(Tail(queue)) = Len(queue) - 1
           /\ \A k \in 1..Len(Tail(queue)) : Tail(queue)[k] = queue[k + 1]
<1>1. Head(queue) \in Entry /\ Tail(queue) \in Seq(Entry)
  BY HeadTailProperties
<1>2. Head(queue).key \in Keys /\ Head(queue).old \in BOOLEAN
  BY <1>1 DEF Entry
<1> QED BY <1>1, <1>2, HeadTailProperties, LenProperties, EmptySeq

\* The key EnqueueKey adds.
LEMMA EndOfQueue ==
    ASSUME queue \in Seq(Entry), NEW e \in Entry
    PROVE  /\ Append(queue, e) \in Seq(Entry) /\ Len(queue) \in Nat
           /\ Len(Append(queue, e)) = Len(queue) + 1
           /\ \A k \in 1..Len(queue) : Append(queue, e)[k] = queue[k]
           /\ Append(queue, e)[Len(queue) + 1] = e
BY AppendProperties, LenProperties

LEMMA TypeInit == Init => Types
<1> SUFFICES ASSUME Init PROVE Types
  OBVIOUS
<1>0. FlagsOK
  BY Zenon DEF Init, FlagsOK
<1>1. HeldOK
  BY Bounds DEF Init, HeldOK
<1>2. CheckOK
  BY Bounds DEF Init, CheckOK
<1>3. QueueOK
  <2>1. queue \in Seq(Entry) /\ Len(queue) = 0
    BY EmptySeq DEF Init
  <2> QED BY <2>1, Bounds DEF Init, QueueOK
<1> QED BY <1>0, <1>1, <1>2, <1>3 DEF Types

LEMMA FlagsStep == FlagsOK /\ QueueOK /\ [Next]_vars => FlagsOK'
<1> SUFFICES ASSUME FlagsOK, QueueOK, [Next]_vars PROVE FlagsOK'
  OBVIOUS
<1> USE DEF FlagsOK
<1>1. ASSUME NEW k \in Keys, KeyDown(k) PROVE FlagsOK'
  BY <1>1, Zenon DEF KeyDown, input, reader, text
<1>2. ASSUME NEW k \in Keys, KeyUp(k) PROVE FlagsOK'
  BY <1>2, Zenon DEF KeyUp, input, reader, text
<1>3. CASE CheckKey
  BY <1>3, Zenon DEF CheckKey, Registered, held, reader, text, checking
<1>4. CASE EnqueueKey
  BY <1>4, Zenon DEF EnqueueKey, Registered, held, text, checking
<1>5. ASSUME NEW t \in timers, TimeKey(t) PROVE FlagsOK'
  BY <1>5, Zenon DEF TimeKey, input, reader, text
<1>6. ASSUME NEW t \in timers, KeyLongPress(t) PROVE FlagsOK'
  BY <1>6 DEF KeyLongPress, held, input, reader, text
<1>7. CASE GetMenuSelection
  BY <1>7 DEF GetMenuSelection, held, text
<1>8. CASE WaitKey
  <2>1. kold' \in BOOLEAN
    BY <1>8, HeadOfQueue DEF WaitKey, TakeKey, QueueOK
  <2> QED BY <1>8, <2>1 DEF WaitKey, held, input, text
<1>9. CASE TimedWaitExpires
  BY <1>9 DEF TimedWaitExpires, held, input, text
<1>10. CASE WaitKeyExpired
  <2>1. kold' \in BOOLEAN
    BY <1>10, HeadOfQueue, Zenon DEF WaitKeyExpired, TakeKey, QueueOK
  <2> QED BY <1>10, <2>1 DEF WaitKeyExpired, held, input, text
<1>11. CASE HandleMenuKey
  BY <1>11, Zenon DEF HandleMenuKey, held, input, text
<1>12. CASE UNCHANGED vars
  BY <1>12 DEF vars, held, input, reader, text
<1> QED
  BY <1>1, <1>2, <1>3, <1>4, <1>5, <1>6, <1>7, <1>8, <1>9, <1>10, <1>11, <1>12
  DEF Next, InputThread, TimerThreads, MainThread

LEMMA HeldStep == HeldOK /\ [Next]_vars => HeldOK'
<1> SUFFICES ASSUME HeldOK, [Next]_vars PROVE HeldOK'
  OBVIOUS
<1>1. ASSUME NEW k \in Keys, KeyDown(k) PROVE HeldOK'
  <2>1. downCount' \in 1..MaxDowns
    BY <1>1, Bounds DEF KeyDown, HeldOK
  <2>2. [key |-> k, count |-> downCount', st |-> "asleep"] \in Timer
    BY <2>1 DEF Timer
  <2>3. timers' \subseteq Timer
    BY <1>1, <2>2 DEF KeyDown, HeldOK
  <2>4. lastDown' = k
    BY <1>1 DEF KeyDown
  <2> QED BY <2>1, <2>3, <2>4 DEF HeldOK
<1>2. ASSUME NEW k \in Keys, KeyUp(k) PROVE HeldOK'
  BY <1>2 DEF KeyUp, HeldOK
<1>3. CASE InputThread
  BY <1>3, InputFrame DEF HeldOK
<1>4. CASE TimerThreads
  <2>1. PICK t \in timers : TimeKey(t) \/ KeyLongPress(t)
    BY <1>4 DEF TimerThreads
  <2>2. t \in Timer /\ [t EXCEPT !.st = "report"] \in Timer
    BY DEF HeldOK, Timer
  <2>3. timers' \subseteq timers \cup {[t EXCEPT !.st = "report"]}
    BY <2>1 DEF TimeKey, KeyLongPress, held
  <2> QED BY <1>4, <2>2, <2>3, TimerFrame DEF HeldOK
<1>5. CASE MainThread
  BY <1>5, MainFrame DEF HeldOK
<1>6. CASE UNCHANGED vars
  BY <1>6 DEF vars, held, HeldOK
<1> QED BY <1>1, <1>2, <1>3, <1>4, <1>5, <1>6 DEF Next

LEMMA CheckStep == FlagsOK /\ CheckOK /\ [Next]_vars => CheckOK'
<1> SUFFICES ASSUME FlagsOK, CheckOK, [Next]_vars PROVE CheckOK'
  OBVIOUS
<1>1. ASSUME NEW k \in Keys, KeyDown(k) \/ KeyUp(k) PROVE CheckOK'
  <2>1. UNCHANGED <<powerRun, altRun, lastKey, rebooted>>
    BY <1>1, UserFrame
  <2>2. /\ ipc' \in {ipc, "check"} /\ ikey' \in {ikey, k} /\ row' \in {row, row + 1, 0}
        /\ ipc' # ipc => ikey' = k
        /\ ipc' = ipc => ikey' = ikey \/ ikey' = k
    BY <1>1 DEF KeyDown, KeyUp, input
  <2>3. row' \in Nat
    BY <2>2 DEF CheckOK
  <2> QED BY <2>1, <2>2, <2>3 DEF CheckOK
<1>2. CASE CheckKey
  <2>0. powerRun \in Nat /\ powerRun < Presses /\ ikey \in Keys /\ rebooted \in BOOLEAN
    BY <1>2 DEF CheckKey, CheckOK, FlagsOK
  <2>1. /\ ipc' \in {"idle", "enqueue"} /\ ikey' \in {ikey, NoKey}
        /\ ipc' # "idle" => ikey' = ikey
        /\ lastKey' \in {lastKey, ikey} /\ row' = row
    BY <1>2 DEF CheckKey, Registered, checking
  <2>2. powerRun' \in {powerRun, powerRun + 1, 0} /\ (~rebooted' => powerRun' < Presses)
    BY <1>2, <2>0, Bounds DEF CheckKey, ConsecutivePowers, checking
  <2>3. altRun' = altRun \/ altRun' = 0 \/ (altRun' = altRun + 1 /\ altRun + 1 < Presses)
    BY <1>2, Bounds DEF CheckKey, checking, CheckOK
  <2>4. altRun' \in 0..(Presses - 1) /\ powerRun' \in 0..Presses
    BY <2>0, <2>2, <2>3, Bounds DEF CheckOK
  <2> QED BY <2>0, <2>1, <2>2, <2>4 DEF CheckOK
<1>3. CASE EnqueueKey
  BY <1>3 DEF EnqueueKey, Registered, checking, CheckOK
<1>4. CASE TimerThreads \/ MainThread
  BY <1>4, TimerFrame, MainFrame DEF CheckOK
<1>5. CASE UNCHANGED vars
  BY <1>5 DEF vars, checking, input, CheckOK
<1> QED BY <1>1, <1>2, <1>3, <1>4, <1>5 DEF Next, InputThread

LEMMA QueueStep == CheckOK /\ FlagsOK /\ QueueOK /\ [Next]_vars => QueueOK'
<1> SUFFICES ASSUME CheckOK, FlagsOK, QueueOK, [Next]_vars PROVE QueueOK'
  OBVIOUS
<1>t. queue \in Seq(Entry) /\ Len(queue) \in Nat /\ Len(queue) <= QueueMax
  BY LenProperties DEF QueueOK
<1>1. CASE TimerThreads \/ \E k \in Keys : KeyDown(k) \/ KeyUp(k)
  BY <1>1, UserFrame, TimerFrame DEF QueueOK
<1>2. CASE CheckKey
  BY <1>2 DEF CheckKey, reader, QueueOK
<1>3. CASE EnqueueKey
  <2>1. [key |-> ikey, old |-> iold] \in Entry
    BY <1>3 DEF EnqueueKey, CheckOK, FlagsOK, Entry
  <2>2. \/ Len(queue) < QueueMax /\ queue' = Append(queue, [key |-> ikey, old |-> iold])
        \/ queue' = queue
    BY <1>3 DEF EnqueueKey
  <2>3. queue' \in Seq(Entry) /\ Len(queue') <= QueueMax
    BY <1>t, <2>1, <2>2, EndOfQueue, Bounds
  <2>4. rpc' \in {rpc, "woken"} /\ key' = key /\ selected' = selected
    BY <1>3 DEF EnqueueKey
  <2> QED BY <2>3, <2>4 DEF QueueOK
<1>4. CASE GetMenuSelection
  <2>1. queue' \in Seq(Entry) /\ Len(queue') = 0
    BY <1>4, EmptySeq DEF GetMenuSelection
  <2> QED BY <1>4, <2>1, Bounds DEF GetMenuSelection, QueueOK
<1>5. CASE WaitKey \/ WaitKeyExpired
  <2>1. TakeKey \/ (queue' = queue /\ rpc' \in {"blocked", "wait", "handle"} /\ key' \in {key, NoKey})
    BY <1>5 DEF WaitKey, WaitKeyExpired
  <2>2. selected' = selected
    BY <1>5 DEF WaitKey, WaitKeyExpired
  <2>3. CASE TakeKey
    <3>1. queue' \in Seq(Entry) /\ Len(queue') = Len(queue) - 1 /\ key' \in Keys
      BY <1>t, <2>3, HeadOfQueue DEF TakeKey
    <3>2. Len(queue') <= QueueMax
      BY <1>t, <3>1, Bounds
    <3> QED BY <2>2, <2>3, <3>1, <3>2 DEF TakeKey, QueueOK
  <2> QED BY <2>1, <2>2, <2>3 DEF QueueOK
<1>6. CASE TimedWaitExpires
  BY <1>6 DEF TimedWaitExpires, QueueOK
<1>7. CASE HandleMenuKey
  <2>1. selected' \in 0..(NItems - 1)
    BY <1>7, Bounds DEF HandleMenuKey, QueueOK
  <2> QED BY <1>7, <2>1 DEF HandleMenuKey, QueueOK
<1>8. CASE UNCHANGED vars
  BY <1>8 DEF vars, reader, QueueOK
<1> QED BY <1>1, <1>2, <1>3, <1>4, <1>5, <1>6, <1>7, <1>8 DEF Next, InputThread, MainThread

LEMMA TypeStep == Types /\ [Next]_vars => Types'
  BY FlagsStep, HeldStep, CheckStep, QueueStep DEF Types

\* The types: key_queue_len stays within key_queue, the highlight within the menu, and
\* consecutive_power_keys within the count that reboots.
THEOREM TypeCorrect == Spec => []TypeOK
  BY TypeInit, TypeStep, TypesImply, PTL DEF Spec
-----------------------------------------------------------------------------
(* Long presses. *)
\* key_long_press is what the timer of the last press has found.  Once a key is
\* registered no key is the last one pressed, so no timer changes it until CheckKey
\* has been told.
Timed ==
    /\ longPress = fired
    /\ ipc # "idle" => lastDown = NoKey
    /\ ipc = "check" => ilong = fired

LEMMA TimedStep == Types /\ Timed /\ [Next]_vars => Timed'
<1> SUFFICES ASSUME Types, Timed, [Next]_vars PROVE Timed'
  OBVIOUS
<1> USE DEF Timed
<1>1. ASSUME NEW k \in Keys, KeyDown(k) PROVE Timed'
  BY <1>1, Zenon DEF KeyDown, input
<1>2. ASSUME NEW k \in Keys, KeyUp(k) PROVE Timed'
  BY <1>2 DEF KeyUp, input
<1>3. CASE CheckKey
  BY <1>3 DEF CheckKey, Registered, held
<1>4. CASE EnqueueKey
  BY <1>4 DEF EnqueueKey, Registered, held
<1>5. ASSUME NEW t \in timers, TimeKey(t) PROVE Timed'
  <2>1. t.key \in Keys
    BY DEF Types, HeldOK, Timer
  <2>2. CASE lastDown = t.key /\ downCount = t.count
    <3>1. ipc = "idle"
      BY <2>1, <2>2, Bounds
    <3>2. longPress' = TRUE /\ fired' = (fired \/ t.count = downCount) /\ ipc' = ipc
      BY <1>5, <2>2 DEF TimeKey, input
    <3>3. fired' = TRUE
      BY <2>2, <3>2, Zenon
    <3> QED BY <3>1, <3>2, <3>3, Zenon
  <2>3. CASE ~(lastDown = t.key /\ downCount = t.count)
    BY <1>5, <2>3 DEF TimeKey, input
  <2> QED BY <2>2, <2>3
<1>6. ASSUME NEW t \in timers, KeyLongPress(t) PROVE Timed'
  BY <1>6 DEF KeyLongPress, held, input
<1>7. CASE MainThread
  BY <1>7, MainFrame
<1>8. CASE UNCHANGED vars
  BY <1>8 DEF vars, held, input
<1> QED
  BY <1>1, <1>2, <1>3, <1>4, <1>5, <1>6, <1>7, <1>8 DEF Next, InputThread, TimerThreads

\* process_key and time_key: CheckKey is told of a long press exactly when the timer
\* of that press found the key down, however many timers of earlier presses are left.
THEOREM LongPressIsExact == Spec => []LongPressExact
<1>1. Init => Timed
  BY Zenon DEF Init, Timed
<1>2. Timed => LongPressExact
  BY DEF Timed, LongPressExact
<1> QED BY <1>1, <1>2, TypeInit, TypeStep, TimedStep, PTL DEF Spec

-----------------------------------------------------------------------------
(* The condition variable. *)
LEMMA WakeupStep ==
    ASSUME Types, rpc = "blocked" => queue = <<>>, [Next]_vars
    PROVE  (rpc = "blocked" => queue = <<>>)'
<1>1. CASE TimerThreads \/ \E k \in Keys : KeyDown(k) \/ KeyUp(k)
  BY <1>1, UserFrame, TimerFrame
<1>2. CASE CheckKey
  BY <1>2 DEF CheckKey, reader
<1>3. CASE EnqueueKey
  BY <1>3 DEF EnqueueKey
<1>4. CASE GetMenuSelection
  BY <1>4 DEF GetMenuSelection
<1>5. CASE WaitKey
  BY <1>5 DEF WaitKey, TakeKey
<1>6. CASE TimedWaitExpires
  BY <1>6 DEF TimedWaitExpires
<1>7. CASE WaitKeyExpired
  BY <1>7 DEF WaitKeyExpired, TakeKey
<1>8. CASE HandleMenuKey
  BY <1>8 DEF HandleMenuKey
<1>9. CASE UNCHANGED vars
  BY <1>9 DEF vars, reader
<1> QED
  BY <1>1, <1>2, <1>3, <1>4, <1>5, <1>6, <1>7, <1>8, <1>9 DEF Next, InputThread, MainThread

\* EnqueueKey signals under the mutex: WaitKey does not sleep on a key in the queue.
THEOREM WakeupIsNotLost == Spec => []NoLostWakeup
<1> DEFINE Inv == rpc = "blocked" => queue = <<>>
<1>1. Init => Inv
  BY DEF Init
<1>2. Types /\ Inv /\ [Next]_vars => Inv'
  BY WakeupStep
<1>3. Types /\ Inv => NoLostWakeup
  BY TypesImply DEF NoLostWakeup
<1> HIDE DEF Inv
<1> QED BY <1>1, <1>2, <1>3, TypeInit, TypeStep, PTL DEF Spec

-----------------------------------------------------------------------------
(* Presses of power. *)
\* CheckKey's count is never behind the presses registered in a row.  (It may be ahead:
\* volup with power held down returns TOGGLE before the count is touched.)
Counted ==
    ~rebooted => IF ipc # "check" THEN row <= powerRun
                 ELSE row <= (IF ikey = "power" THEN powerRun + 1 ELSE 0)

LEMMA CountedStep == Types /\ Counted /\ [Next]_vars => Counted'
<1> SUFFICES ASSUME Types, Counted, [Next]_vars PROVE Counted'
  OBVIOUS
<1>t. /\ powerRun \in Nat /\ row \in Nat /\ rebooted \in BOOLEAN
      /\ ipc \in {"idle", "check", "enqueue"}
  BY Bounds DEF Types, CheckOK, FlagsOK
<1> USE DEF Counted
<1>1. ASSUME NEW k \in Keys, KeyDown(k) PROVE Counted'
  BY <1>t, <1>1 DEF KeyDown, checking, input
<1>2. ASSUME NEW k \in Keys, KeyUp(k) PROVE Counted'
  BY <1>t, <1>2 DEF KeyUp, checking, input
<1>3. CASE CheckKey
  <2>1. /\ ipc = "check" /\ ipc' \in {"idle", "enqueue"} /\ row' = row /\ ~rebooted
        /\ powerRun' = ConsecutivePowers \/ (powerRun' = powerRun /\ ikey = "volup")
    BY <1>3 DEF CheckKey, Registered, checking
  <2> QED BY <1>t, <2>1 DEF ConsecutivePowers
<1>4. CASE EnqueueKey
  BY <1>t, <1>4 DEF EnqueueKey, Registered, checking
<1>5. CASE TimerThreads \/ MainThread
  BY <1>5, TimerFrame, MainFrame
<1>6. CASE UNCHANGED vars
  BY <1>6 DEF vars, checking, input
<1> QED BY <1>1, <1>2, <1>3, <1>4, <1>5, <1>6 DEF Next, InputThread

\* CheckKey: power registered seven times in a row reboots, whatever is done with the
\* other keys while it is down.
THEOREM PowerDoesReboot == Spec => []PowerReboots
<1>1. Init => Counted
  BY DEF Init, Counted
<1>2. Types /\ Counted => PowerReboots
  BY Bounds DEF Types, CheckOK, FlagsOK, Counted, PowerReboots
<1> QED BY <1>1, <1>2, TypeInit, TypeStep, CountedStep, PTL DEF Spec

-----------------------------------------------------------------------------
(* Keys from before the menu. *)
\* A key that was registered before FlushKeys and comes after it finds the queue empty;
\* an old key is being dealt with, or it is the first in the queue.
Aged ==
    /\ iold => ipc # "idle" /\ queue = <<>>
    /\ kold => rpc = "handle"
    /\ \A k \in 1..Len(queue) : queue[k].old => k = 1 /\ ~kold /\ ~iold
    /\ ~(kold /\ iold)

LEMMA AgedTake ==
    ASSUME Types, Aged, rpc # "handle", TakeKey, iold' = iold, ipc' = ipc
    PROVE  Aged'
<1> DEFINE n == Len(queue)
<1>1. queue \in Seq(Entry) /\ queue # <<>>
  BY DEF TakeKey, Types, QueueOK
<1>2. /\ n \in Nat /\ Len(queue') = n - 1 /\ kold' = queue[1].old /\ n > 0
      /\ \A k \in 1..(n - 1) : queue'[k] = queue[k + 1]
  BY <1>1, HeadOfQueue DEF TakeKey
<1>3. ~iold
  BY <1>1 DEF Aged
<1>4. ASSUME NEW k \in 1..(n - 1) PROVE ~queue'[k].old
  <2>1. k + 1 \in 1..n /\ k + 1 # 1 /\ queue'[k] = queue[k + 1]
    BY <1>2
  <2> QED BY <2>1 DEF Aged
<1>5. rpc' = "handle"
  BY DEF TakeKey
<1> QED BY <1>2, <1>3, <1>4, <1>5 DEF Aged

LEMMA AgedEnqueue ==
    ASSUME Types, Aged, EnqueueKey
    PROVE  Aged'
<1> DEFINE e == [key |-> ikey, old |-> iold]
           n == Len(queue)
<1>1. queue \in Seq(Entry) /\ e \in Entry /\ n \in Nat /\ e.old = iold
  BY LenProperties DEF EnqueueKey, Types, QueueOK, CheckOK, FlagsOK, Entry
<1>2. iold' = FALSE /\ kold' = kold /\ (kold => rpc = "handle" /\ rpc' = rpc)
  BY DEF EnqueueKey, Registered, Aged
<1>3. CASE queue' = queue
  BY <1>2, <1>3 DEF Aged
<1>0. queue' = queue \/ queue' = Append(queue, e)
  BY DEF EnqueueKey
<1> HIDE DEF e
<1>4. CASE queue' = Append(queue, e)
  <2>0. /\ Len(queue') = n + 1 /\ queue'[n + 1] = e
        /\ \A k \in 1..n : queue'[k] = queue[k]
    BY <1>1, <1>4, EndOfQueue
  <2>1. /\ Len(queue') = n + 1 /\ queue'[n + 1].old = iold
        /\ \A k \in 1..n : queue'[k] = queue[k]
    BY <1>1, <2>0
  <2>2. iold => n = 0 /\ ~kold
    BY EmptySeq DEF Aged
  <2>3. ASSUME NEW k \in 1..(n + 1), queue'[k].old PROVE k = 1 /\ ~kold
    <3>1. CASE k = n + 1
      <4>1. n = 0 /\ ~kold
        BY <2>1, <2>2, <2>3, <3>1
      <4> QED BY <3>1, <4>1
    <3>2. CASE k \in 1..n
      BY <2>1, <2>3, <3>2 DEF Aged
    <3> QED BY <1>1, <3>1, <3>2
  <2> QED BY <1>2, <2>1, <2>3 DEF Aged
<1> QED BY <1>0, <1>3, <1>4

LEMMA AgedStep == Types /\ Aged /\ [Next]_vars => Aged'
<1> SUFFICES ASSUME Types, Aged, [Next]_vars PROVE Aged'
  OBVIOUS
<1>1. ASSUME NEW k \in Keys, KeyDown(k) PROVE Aged'
  BY <1>1, UserFrame, Zenon DEF KeyDown, input, Aged
<1>2. ASSUME NEW k \in Keys, KeyUp(k) PROVE Aged'
  <2>1. iold' = FALSE \/ (iold' = iold /\ ipc' = ipc)
    BY <1>2 DEF KeyUp, input
  <2> QED BY <1>2, <2>1, UserFrame DEF Aged
<1>3. CASE CheckKey
  <2>1. iold' = FALSE \/ (iold' = iold /\ ipc' = "enqueue")
    BY <1>3 DEF CheckKey, Registered
  <2>2. UNCHANGED <<queue, rpc, kold>>
    BY <1>3 DEF CheckKey, reader
  <2> QED BY <2>1, <2>2 DEF Aged
<1>4. CASE EnqueueKey
  BY <1>4, AgedEnqueue
<1>5. CASE TimerThreads
  BY <1>5, TimerFrame DEF Aged
<1>6. CASE GetMenuSelection
  <2>1. queue' = <<>> /\ Len(queue') = 0 /\ kold' = kold /\ iold' = (ipc # "idle") /\ ipc' = ipc
    BY <1>6, EmptySeq DEF GetMenuSelection
  <2>2. ~kold
    BY <1>6 DEF GetMenuSelection, Aged
  <2>3. iold' => ipc # "idle"
    BY <2>1, Zenon
  <2> QED BY <2>1, <2>2, <2>3 DEF Aged
<1>7. CASE WaitKey \/ WaitKeyExpired
  <2>1. iold' = iold /\ ipc' = ipc /\ rpc # "handle"
    BY <1>7 DEF WaitKey, WaitKeyExpired, input
  <2>2. ~kold
    BY <2>1 DEF Aged
  <2>3. TakeKey \/ (queue' = queue /\ (kold' = kold \/ kold' = FALSE))
    BY <1>7 DEF WaitKey, WaitKeyExpired
  <2>4. CASE queue' = queue /\ (kold' = kold \/ kold' = FALSE)
    <3>1. ~kold'
      BY <2>2, <2>4
    <3> QED BY <2>1, <2>4, <3>1 DEF Aged
  <2> QED BY <2>1, <2>3, <2>4, AgedTake, Zenon
<1>8. CASE TimedWaitExpires
  BY <1>8 DEF TimedWaitExpires, input, Aged
<1>9. CASE HandleMenuKey
  <2>1. queue' = queue /\ kold' = FALSE /\ iold' = iold /\ ipc' = ipc
    BY <1>9 DEF HandleMenuKey, input
  <2> QED BY <2>1 DEF Aged
<1>10. CASE UNCHANGED vars
  BY <1>10 DEF vars, input, reader, Aged
<1> QED
  BY <1>1, <1>2, <1>3, <1>4, <1>5, <1>6, <1>7, <1>8, <1>9, <1>10
  DEF Next, InputThread, MainThread

\* get_menu_selection: of the keys pressed before the menu was entered at most one gets
\* past FlushKeys, and no newer key overtakes it.
THEOREM OldKeyIsFirst == Spec => []OneOldKey
<1>1. Init => Aged
  <2> SUFFICES ASSUME Init PROVE Aged
    OBVIOUS
  <2>1. Len(queue) = 0 /\ ~iold /\ ~kold
    BY EmptySeq DEF Init
  <2> QED BY <2>1 DEF Aged
<1>2. Types /\ Aged => OneOldKey
  <2> SUFFICES ASSUME Types, Aged PROVE OneOldKey
    OBVIOUS
  <2>1. DOMAIN queue = 1..Len(queue)
    BY LenProperties DEF Types, QueueOK
  <2> QED BY <2>1 DEF Aged, OneOldKey
<1> QED BY <1>1, <1>2, TypeInit, TypeStep, AgedStep, PTL DEF Spec
=============================================================================
