# TLA+ models of bootable recovery

Recovery is the small system an Android device boots to install an update or to
erase user data. It works on storage it may be destroying, with a power supply
that may fail, so most of what can go wrong in it goes wrong between two steps:
a crash between a save and a delete, a second crash during the recovery from
the first, a thread that releases a mutex a moment too early. That is what
these modules model. Paths below are relative to the repository's `src/`.

## 1. The system

| part | source | state | operations | modelled by |
|---|---|---|---|---|
| main program | `recovery.cpp` | arguments, status, `wipe_cache`, locale; files on `/cache` | `get_args`, `main`, `finish_recovery`, `erase_volume`, `prompt_and_wait`, `update_directory`, `wipe_data` | `Recovery` |
| bootloader control block (BCB) | `bootloader.cpp` | one message in the misc partition | get and set, on MTD or on a block device | `Recovery` |
| installation | `install.cpp`, `verifier.cpp`, `asn1_decoder.cpp` | the child's pipe, `*wipe_cache` | mount, verify, run the update binary | `Install`, `Package`; `Recovery` (outcome) |
| adb sideload | `adb_install.cpp`, `minadbd/` | sockets, transports, events | receive a package, install it | `AdbTransport`, `AdbSockets`; `Recovery` (outcome) |
| user interface | `ui.cpp`, `default_device.cpp`, `screen_ui.cpp`, `minui/` | key queue, counters, menu, text, progress | input, timer, progress and main threads | `KeyInput` (keys and menu), `Screen`, `Install` |
| volumes | `roots.cpp`, `mtdutils/mounts.c` | mount table | mount, unmount, format | `Recovery` (effect on `/cache` and `/data`), `Updater` (`/system`) |
| raw flash | `mtdutils/mtdutils.c`, `flash_image.c` | blocks, bad blocks | read, write, erase | `MtdUtils` |
| update binary | `updater/`, `edify/` | script, files | evaluate a script | `Edify`, `Updater`; `ApplyPatch` (the `apply_patch*` functions in detail) |
| patching | `applypatch/applypatch.c`, `freecache.c` | files, partitions, the copy on `/cache` | check, reserve, patch | `ApplyPatch`, `PatchPromise`, `EmmcWrite` |
| patch formats | `applypatch/bspatch.c`, `imgpatch.c` | none | apply a patch | one step of `ApplyPatch` |
| archives | `minzip/` | hash table, zip entries | open, find, extract | `Package`; `Updater` (what extraction leaves) |
| host tools | `applypatch/bsdiff.c`, `imgdiff.c` | none | make a patch | not modelled |

How they interact: the main system leaves a command in
`/cache/recovery/command` and reboots. `get_args` copies it into the BCB, so
that every later boot comes back to recovery with the same arguments. `main`
carries it out: it starts the update binary of a package, whose script patches
files and partitions one after the other, or it formats volumes. Whatever the
outcome, `finish_recovery` clears the BCB and removes the command. If something
failed, or nothing was asked for, or the text display is on, a menu is shown in
between, driven by keys that two other kinds of thread deliver.

`PROJECT.json` lists every part with its status, and under "hazards" the places
where this code is exposed to something a test would hardly reach.

## 2. ApplyPatch

`ApplyPatch.tla` models a whole update script: a first pass of
`apply_patch_check` over all jobs, one `apply_patch_space`, then `apply_patch`
for each job. A job has a source and a target, each a file or a partition.

| state | code |
|---|---|
| `disk` | contents of the files and partitions |
| `copy`, `copyLen` | `CACHE_TEMP_SOURCE`, its contents and its length while it is being written |
| `bloat` | files on `/cache` that `MakeFreeSpaceOnCache` may delete |
| `pc`, `job` | the next system call of the process, and the job it belongs to |
| `use`, `fromCopy`, `saveSize`, `madeCopy`, `retry`, `out` | locals of `applypatch` and `GenerateTarget` |
| `fault` | history: this run met an error of its own |

Every action is one system call that changes persistent state, with the tests
that precede it: `SaveTruncate`, `SaveWrite` (one unit of data), `UnlinkSource`,
`OpenOutput`, `Patch`, `RenameOutput`, `WriteBegin`/`WriteEnd` and so on. `Crash`
is possible between any two. `IoError` lets any of them fail. Contents are
abstract values, equal when their SHA-1s are; `Garbage` is anything whose hash
nobody asks for. Three details of the code decide the results and are kept:
the copy is opened with `O_TRUNC` before it is written; when the source came
from the copy, `source_file->data` is `NULL` while `->size` is left over from
whatever was read last; and `FreeSpaceForFile` returns `(size_t)-1`, always
enough, when `statfs` fails.

Whether there is room for the output on the target's file system is a
nondeterministic choice (`EnoughSpace` or `LowSpace`), since it depends on files
outside the model. A script may also leave out `apply_patch_check` for some of
its jobs (`Unchecked`, the first job of `patch_partitions`). Loading a partition succeeds
when its contents have one of the hashes its name lists, taken to be those of the
sources and the target.

`PatchPromise.tla` is the abstract specification: targets are replaced as a
whole, in order, for good, and success is reported only when all of them are.
`ApplyPatch` implements it under the refinement mapping `Status`, `Result`.

Runs (module `MCApplyPatch`, two jobs, contents of one and two units):

* `patch_files`: two files patched in place. What a crash leaves is always
  enough to finish (`Recoverable`), a run never fails because of where an
  earlier one was interrupted (`RestartNeverFails`), the script implements
  `PatchPromise` (`PromiseKept`), and it gets done once crashes and errors stop
  (`EventuallyPatched`).
* `patch_partitions`: a partition patched in place, and a file made from a
  partition. Success means patched (`SuccessMeansPatched`), and a partition is
  rewritten only while the copy holds what it held (`PartitionBackedUp`).

For a partition patched in place `Recoverable` does not hold, and no run claims
it: a partition write is interrupted; the second run takes its source from the
copy, and truncates the copy to save its `NULL` source to it
(`applypatch.c:861`, where the comment before it wants a copy kept); after
another crash nothing is left to patch from.

Bounds: two jobs are the fewest for which the single copy file may belong to
the wrong job; a content of two units makes a half-written copy possible;
one deletable file makes `MakeFreeSpaceOnCache` loop. `/cache` has room for two
copies in `patch_files`. That is a real precondition: `MakeFreeSpaceOnCache`
never deletes the copy, so with room for only one, the copy a crash left
behind makes the next run's `apply_patch_space` fail. The theorem about
`RestartNeverFails` has it as an assumption (`InPlaceFiles`).

Two statements of the source's comments do not hold of the model and are
therefore not among its properties: a source that is not the target *is*
deleted when space is low (`applypatch.c:704` says it is not), and
`apply_patch_check` without hashes does not accept the copy (`applypatch.c:605`
says it does).

## 3. Recovery

`Recovery.tla` models one device over many boots. `mode` is what is booted; `bcb`
the message in misc; `cmdFile`, `cacheOk`, `localeFile`, `intentFile`, `pkg` what
is on `/cache`; `data` and `system` are untouched, half done or done; `pc` and the
rest are the locals of the recovery process, lost at every reboot.

Each phase of the code is an action: `GetArgs` and `ArgsToBcb` (`get_args`),
`Dispatch` and `Decide` (`main`), `InstallBegin`/`InstallEnd`/`InstallFails` and
`Installed` (`install_package` and its callers), `EraseData`... (`erase_volume`,
which keeps the locale in memory while it formats `/cache`), `FinishFiles`,
`ClearBcb`, `UnlinkCommand` (`finish_recovery`), and one action per menu item.
Long operations have a beginning and an end, and `Crash` may come in between;
the bootloader then boots what the BCB says. `FinishDies` is the `NULL` file
pointer of the locale in `finish_recovery`; `init` restarts the process
(`etc/init.rc` does not say `oneshot`). `wipe_cache` in `prompt_and_wait` is
uninitialized, hence any value, until a package is installed.

Three history variables serve the properties only: `owed` (a package asked for
a cache wipe), `fault` (an I/O error or a bad package since the last request) and
`excused` (the user was shown an error, or started the operation at the menu,
or misc could not be read or written).

Assumptions about what is outside `src/`: an interrupted format leaves `/cache`
unmountable; a package installed twice is the same as installed once (section 2
is about that); a BCB write to a block device is atomic (`AtomicBcb`); on MTD it
is an erase and a write.

Runs (module `MCRecovery`; the commands are those of the comment at the head of
`recovery.cpp`):

* `boot_all`: every command, with and without `--locale`, every menu item but adb, packages that ask for a
  cache wipe and packages that do not. `NeverHalfDone` (the main system is not
  booted with a half erased `/data` or a half installed package behind the
  user's back), `WipeHonoured` (a cache wipe asked for is carried out before the
  menu or a reboot), `SideloadReturns` (an interrupted installation from the menu
  returns to recovery), `EraseCompletes` (an erase that a command began is
  completed when crashes end).
* `boot_ends`: every menu item, misc on MTD, packages without a cache wipe.
  `NoFalseAlarm` (a command that met no error is never reported as failed) and
  `RecoveryEnds` (when power stays and errors end, recovery gets to the menu or
  to the main system).

Two properties hold only with the constants of their runs. `NeverHalfDone` needs
an atomic BCB: on MTD, `get_args` erases and rewrites a BCB that is already right
(`bootloader.cpp:127`), and a crash in between loses it. `RecoveryEnds` needs
commands without `--locale`: with it and an unmountable `/cache`,
`finish_recovery` dies on a `NULL` file (`recovery.cpp:325`) before it clears the
BCB, at every start.

Three behaviours are visible in the model and limit what the runs can claim.
The request for a cache wipe of a package received over adb is not looked at,
which is why `boot_all` leaves adb out. The cache wipe a package asks for removes
the package while the BCB still asks for its installation, so that a crash then
leads to a reported failure; this is why `boot_ends` has packages without a
wipe. And a directory that cannot be opened gives `INSTALL_SUCCESS` with an
uninitialized `wipe_cache`, so that the menu may wipe the cache unasked.

Nothing bounds the number of boots, commands or crashes: the state space is
finite as it stands. One ordering is visible in the model and not made a
property: `finish_recovery` clears the BCB before it removes the command file,
so a crash in between leaves a completed command on `/cache`
(`recovery.cpp:95` says it is removed).

## 4. KeyInput

`KeyInput.tla` models the threads around `key_queue_mutex`: the input thread
(`process_key`: `KeyDown`, `KeyUp`, then outside the mutex `CheckKey`,
`EnqueueKey`), one timer thread per press (`time_key`: `TimeKey` under the mutex,
then `KeyLongPress` outside it), and the main thread in `get_menu_selection` and
`WaitKey` (`GetMenuSelection`, `WaitKey`, `TimedWaitExpires`, `WaitKeyExpired`,
`HandleMenuKey`). What is done under the mutex is one step. `key_pressed` is not
initialized by the constructor, and keys may be down at the start, so it has any
value in `Init`. A trackball motion is a press and a release of a key like any
other.

* `keys_keys`: `LongPressExact` (a key is called long-pressed exactly when the
  timer of that very press found it down), `NoLostWakeup` (the main thread does
  not sleep on a non-empty queue), `PowerReboots` (power registered often enough
  in a row reboots, whatever else is held or queued) and `KeysConsumed` (what is
  in the queue is dealt with).
  `OneOldKey`: at most one key from before `FlushKeys` acts in a new menu. One
  can, since `process_key` enqueues it outside the mutex, although the comment in
  `get_menu_selection` wants them all thrown away.

Bounds: `MaxDowns` presses (three: a stale timer, a new press and a third key),
`Presses` is 2 for the code's 7, `QueueMax` 2 for 256, so that both limits are
reached. The keys of `keys_keys` are those a phone has; the menu is then left by
the timeout. Deadlock is not checked, since
`android_reboot` stops everything.

Seen in the model and not made a property: `CheckKey` returns `TOGGLE` before it
resets `consecutive_power_keys`, so presses of power count as "in a row"
(`ui.cpp:276`) across a display toggle; and `KeyLongPress` may come after the
release of its key, since the mutex has been released (`ui.h:87` says before).

## 5. EmmcWrite and MtdUtils

`ApplyPatch` takes the writing of a partition as two steps. These modules are
about what happens between them.

`EmmcWrite.tla` is the EMMC branch of `WriteToPartition`: `WritePage` until the
end, `DropCaches`, then `VerifySame` page by page, or `VerifyDiffers`, which
starts the next attempt at that page. The medium may take a page wrongly without
telling, a page may be read wrongly, a power cut may tear it, and reading gives
what the page cache has, if it has the page.

* `emmc_write` (three pages, three attempts for the code's ten):
  `SuccessOnMedium` (success means that the data is on the medium, unless the
  caches could not be dropped, which the code does not check) and
  `FailsOnlyIfFaulty`.

`MtdUtils.tla` is the library for raw flash and the five programs that write
with it. `write_block` is modelled operation by operation (`SkipBadBlock`,
`EraseBlock`, `ProgramBlock`, `VerifyBlock`, `GiveUp`, ...), with the position of
the file descriptor, since a second call starts from wherever the first one left
it. `mtd_write_data` (`WriteData`) and `mtd_erase_blocks` (`PadBlock`,
`EraseBlocks`) run up to their next block. The clients make the calls and look
at the results as their code does. An erase block has two units, of which the
header of `flash_image` is one. `worn` is a history variable: blocks that were
skipped although the driver does not report them as bad.

* `mtd_write` (three blocks, any of them bad; images of half a block to two and a
  half; three errors, which is enough to give up a block and make another retry;
  one power cut): `SuccessMeansWritten`, `FailsOnlyForCause` (an image that fits
  is written, and a single error on a block is made good), `HeaderLast`
  (`flash_image` has everything after the first block in place before the header
  is).

The driver is never told of a block that `write_block` gave up, so reading the
partition does not skip it (`mtdutils.c:465`): that an image reads back is not
among the properties. Also visible in the model: `HeaderLast` says nothing about the first block,
because the header is only its beginning and a power cut while it is written may
leave the header alone in place, so that the next run of `flash_image` skips the
partition; `flash_image` fails on every image smaller than a block; and
`write_raw_image` reports success when its last, incomplete block could not be
written or the file could not be read to its end.

## 6. AdbTransport and AdbSockets

`minadbd` is a process of its own, with an event loop and many threads.

`AdbTransport.tla` is the life of a connection. The opener thread waits for the
USB device and registers a transport each time it is opened; `Registration` is
the event loop taking requests from the registration socket pair; `Output` and
`Input` are the two threads of a transport, `Handle` the loop's handling of a
packet. Every transport uses the *same* `usb_handle`, so a thread of an old
connection could close the device of a new one: `usb` is the number of the
opening that is current, and a transport has the number of its own. `died` is a
`fatal_errno` of `send_packet` or of a write.

* `adb_transport` (two openings, three packets, socket pairs that hold two):
  `OwnDevice` (a thread closes and reads the device only while it is its own
  opening), `FreedUnused` (a transport is freed once, after both threads have let
  it go, and no packet is lost with its socket pair), `NoSocketLeft` (no two
  threads work on a socket), `Reconnects`.

`AdbSockets.tla` is what goes over a connection. The event loop is one thread, so
a handler is an operator from the daemon's state `d` to its next state: packets
from the host (`handle_packet`), events of a local socket
(`local_socket_event_func`), the pending list of `fdevent`. `Service` is the thread
of `sideload_service`, which reads the length, then the file, reports the status
and exits the process. Two streams may be open at once, the connection may be
reset, and a full socket pair makes `local_socket_enqueue` keep packets.

* `adb_sockets` (two streams of three bytes and none, transfers and payloads of
  two, a socket pair of one, one reset: so a file takes several packets, a packet
  several writes, and an empty package is among the cases): `StreamIntact` (bytes
  arrive in order, none twice, none missing), `AckedOnce` (every `OPEN` and `WRTE`
  is acknowledged exactly once), `SocketsSound` (lists and peers agree, no event
  for a freed socket), `SuccessMeansReceived` (a reported success means a complete
  file, unless sideloads overlap, and the host has the answer before the stream
  is closed), `StreamEnds`.

The host is external and keeps to the protocol. Deadlock is not checked: the
daemon exits after a sideload, and an idle host sends nothing. Seen while
modelling and not made a property: two sideloads at once write the same
`/tmp/update.zip`; the status `FAIL` is lost if the host's last packet can no
longer be written to the service; `fdevent_set` (`fdevent.c:646`) does the opposite
of what its comment says for an event that is pending; `send_packet` ends the
process when its socket is full.

## 7. Edify, Updater, Screen and Install

These four make one model, from `install_package` to the reboot or the menu.

`Edify.tla` is the evaluator: for each built-in function, which argument it
evaluates next or what it returns. `Updater.tla` has the functions that
`RegisterInstallFunctions` registers, each from a world (whether `/system` is
mounted, its files, what lies under the mount point without it, metadata, the
boot partition) to its possible outcomes, with
the stack of calls, the `errmsg` and `main`'s exit code. `Screen.tla` has the
methods of `ScreenRecoveryUI` as operators on the state under `updateMutex`: two
pages of which one is shown, `pagesIdentical`, the bar with its segments.
`Install.tla` puts them together: `MainThread` is recovery's thread
(`InstallPackage`, verification, the loop that reads commands from the pipe, the
exit status, the steps of `main` that follow), `Child` the updater, which blocks
when the pipe is full, `ProgressThread`, `ToggleText` the key. `PowerCut` starts
recovery again with the files as they are; `Again` is an installation from the
menu. A function may fail from outside once (`MaxFaults`); `hurt` remembers it.

* `updater`, with five scripts: a full update (format, extract, symlink,
  permissions), an incremental one, one with odd and wrong calls, the
  expressions of `edify/main.c` with the results it expects, and a script whose
  value is not a string. `SuccessMeansInstalled`, `ResumeSucceeds` (a second start after a power cut
  fails only if something fails again), `WipeAsAsked` (the cache is wiped exactly
  if this run's script asked for it), `ShownIsState` (what is on the screen is what
  the state says, with two threads that draw on alternating pages),
  `BarAdvances` (the bar never goes back and stays within its width) and
  `InstallEnds` (no deadlock over the pipe).
* `updater_dir` (violation of `DirExtracted`): `mzExtractRecursive` "Returns true
  on success, false on failure" (`minzip/Zip.c:928`), but the status of writing an
  entry is kept in a variable that shadows the one returned
  (`minzip/Zip.c:1140`). A full update that asserts `package_extract_dir` reports
  success although a file could not be written.

Bounds: three files (an old one that is replaced, an old one that is deleted or
patched, a link), a pipe of two commands, one failure, two starts, a bar of four
units and five pixels so that segments and pixels do not divide evenly. `Files`,
`Full`, `Parts` and `Width` only limit how much data there is; one failure is
enough for every error path of a single function, and not for two of one script.

Seen and not made a property: `set_metadata`'s failing `lstat` sets a message but
returns success; bad values of `ParsePermArgs` are ignored; `unmount` ignores the
result; `delete` of nothing returns `"0"`, which is true; a `rename` cannot be
repeated after a power cut; `file_getprop` of an empty file dereferences `NULL`;
`write_raw_image` of a failed blob erases the first block and then dies;
`delete`, `apply_patch` and `apply_patch_check` look at the arguments of a failed
evaluation although `expr.c:26` says that one is `NULL`; `--wipe_cache` given with
a package is overwritten by the package's own wish.
`SetProgressType(EMPTY)` may leave the old bar on the screen until the menu is
drawn, which is why `ShownIsState` excepts that moment.

## 8. Package

`Package.tla` is the package as two independent readers see it. `VerifyFile` is
`verify_file`: the footer, the record at the end of the central directory (EOCD)
and the signature, which is a boolean of the file; it may also refuse for an I/O
error. `FindEocd` is the backward scan of `parseZipArchive`; `ReadEntry`, `Search`,
`Insert` read one record and insert it into `pEntries`; `HashEntry` fills the
table; `ExtractRecursive`, `ExtractEntry`, `ExtractFails`, `ExtractEnds` are the walk of
`mzExtractRecursive`, which ends at the first mismatch after a match.

* `package` (files with up to two EOCD markers at any place, of 21 to 31 bytes,
  up to four records of six names in any order and with duplicates, four
  directories): `ParsedIsVerified` (minzip finds the EOCD that the verifier found,
  and its fields are signed), `FindsFirst` (lookup finds the first record of a
  name, and only names that are there) and `ExtractsAll` (the early end of the
  walk loses nothing).

The sizes are around the 22 bytes of an EOCD, where the bounds of both scans lie;
among the six names are some that collide, in tables of four and of eight slots,
and some whose probe wraps around. Deadlock is not checked, since a package is read once. Seen and not
made a property: of two records with the same name `package_extract_file` takes
the first, `package_extract_dir` writes them all, in their sorted order;
`mzHashTableCreate` allocates its slots in units of `sizeof(HashTable)`; removal
and growth of the table have no caller in this build.

## 9. Fairness

`FairSpec` is weak fairness of the steps a process takes by itself.
`ApplyPatch` and `Recovery` never wait for anything except at the menu, so a process that is not killed runs on; crashes and
I/O errors are never fair, and the liveness properties assume that they end
(`<>[]~fault`, `PowerStays`) or are bounded. In `KeyInput` the three kinds of thread
are each weakly fair, as the kernel's scheduler and the mutex make them; the
user's actions are not. In `AdbTransport` and `AdbSockets` every thread of the
daemon and the event loop are weakly fair, for the same reason; unplugging, a
reset and a host that opens or leaves are not, but a host with an open stream
goes on with it (`HostGoesOn`). `Install` has the main thread and the updater
fair, not the progress thread, on which nothing waits.
No liveness is claimed of `EmmcWrite`, `MtdUtils` and `Package`, sequential code
whose loops are bounded.

## 10. Proofs

`ApplyPatch_proofs.tla`, for every number of jobs, every set of paths, contents
and sizes:

* `TypeCorrect`: types, and `/cache` is never overfull.
* `Success`: success means that every target is patched, whatever happened
  before. The invariant `InOrder` says that the jobs before the present one are
  patched; since no two jobs share a path (`PathsAssumption`), the work on one
  leaves the others alone (`OtherJobsUntouched`).
* `FilesRecoverable`, `FilesKept`, `KeepsPromise`, all under `FileTargets` (no
  target is a partition; section 2 says why). `Recoverable` alone is not
  inductive: that the copy can be relied upon when the source is deleted depends
  on what was saved and how far. The invariant is `FileInv`, that is `TypeOK`,
  `InOrder`, `Saving` (the copy is only ever written from an intact source, and
  equals it when the source is deleted) and `CopyServes` (at most one job, the
  first that is not patched, needs the copy, and the copy holds its source). The step of the refinement, `PromiseStep`, goes through the actions by
  what they do to `Status` and `Result`.
* `Restartable`, under `InPlaceFiles`: a run fails only because of an error of
  its own. The room for two copies is used where `MakeFreeSpaceOnCache` would
  give up.
* `PartitionIsBackedUp`: `PartitionBackedUp`, for files and partitions alike. The
  invariant `Backing` follows what was loaded from the check of the source to the
  write: it is contents the job has a patch for, and from the save on the copy
  equals it.

The same module has the proofs about `EmmcWrite`, for data of any length and any
number of attempts:

* `EmmcTypeCorrect`.
* `EmmcSuccess`: `SuccessOnMedium`. The invariant `Verified` says that after the
  caches were dropped a page that is cached as right is right on the medium, and
  that the pages before `page` are.
* `EmmcNoFalseFailure`: `FailsOnlyIfFaulty`. The invariant `Honest` says that without
  an error of the device the cache agrees with the medium and everything before
  `start` is written.

`Recovery_proofs.tla`, for every set of commands and menu items:

* `TypeCorrect`.
* `RestartSafe`: `NeverHalfDone`, if BCB writes are atomic. The inductive
  invariant `CommandInv` says that while something is half done and the user is
  not excused, the BCB asks for recovery with the arguments that began it
  (`Armed`), and recovery does not reach `finish_recovery` without having redone
  it (`Kept`, `Finishes`).
* `WipeIsHonoured`: `WipeHonoured`, with `adb sideload` left out of the menu, since
  `apply_from_adb` does not wipe. The invariant `Owing` says that a wipe is owed only
  while `install_package` has just returned it to its caller, or the erase is next.
* `SideloadIsRemembered`: the action property `SideloadReturns`, from `Returning`
  (while a package from the menu is installed, the BCB asks for recovery).
* `NoAlarmWithoutFault`: `NoFalseAlarm`. A command file lies beside the package it
  asks for, and the main system runs with a cleared BCB (`Recorded`); as long as
  nothing has failed, the package is there while some boot may still install it,
  since `/cache` is erased only when the BCB does not ask for it (`Unharmed`).

`Package_proofs.tla`, for files of any length with markers at any place, and any
names, hash, order of the central directory and number of entries up to the 65535
that its field of two bytes can hold:

* `TypeCorrect`: the search and the loops stay inside their arrays.
* `VerifiedParsed`: `ParsedIsVerified`. The lemma `VerifiedEocd` is about the two
  scans only: the verifier refuses a marker after the start of the EOCD, so the
  backward scan cannot stop before it.
* `SearchSorts`: `EntriesSorted`. Needs the invariant `Sorting`: the entries are in
  order, complete, and the name to be inserted lies between what is left of
  `low` and what is right of `high` (`Between`).
* `LookupFindsFirst`: `FindsFirst`. The table is made so large that `resizeHash` is
  never reached (`Roomy`), and a slot is always free, so that a probe ends (`Halts`).
  The invariant `Hashed` says that what is in the table is found by the probe for its
  name, also when later entries have been added (`Filled`), and that of every name the
  smallest index is there; `Firsts` says that this is the first record of that name: a
  record is inserted behind one of its name, although not behind all of them.
* `WalkExtractsAll`: `ExtractsAll`. The invariant `Walked` says what has been
  extracted so far; the end of the walk uses `OrderAssumption`, that names under
  a directory form an interval of the order (as `strcmp`-like order and
  prefixes do).

`KeyInput_proofs.tla`, for every set of keys, length of the queue and number of
presses:

* `TypeCorrect`, from `Types`, which is `TypeOK` by the threads that write each part.
* `LongPressIsExact`: `LongPressExact`. The invariant `Timed` says that
  `key_long_press` is what the timer of the last press has found, and that no timer
  changes it between the release of the key and `CheckKey`.
* `WakeupIsNotLost`: `NoLostWakeup`. With the types it is inductive.
* `PowerDoesReboot`: `PowerReboots`. `Counted` says that `CheckKey`'s count is never behind
  the presses registered in a row.
* `OldKeyIsFirst`: `OneOldKey`. `Aged` says that a key from before the menu finds the
  queue empty when it comes after `FlushKeys`, and is then the first in it.

`MtdSteps_proofs.tla` and `MtdUtils_proofs.tla`, for flash of any size, any bad blocks,
images, errors and power cuts: `SuccessIsWritten`, `FailureHasCause` and `HeaderIsLast`, which are
`SuccessMeansWritten`, `FailsOnlyForCause` and `HeaderLast`, from one invariant `Inv`.

* `Flow` is what makes them true: the units a client has given (`Given`) are, in
  order, in the blocks behind (`Taken`), in the context's buffer, and in what is left
  of the caller's data (`Contents`, `Amounts`), where a block's number is the number
  of blocks before it that are not skipped (`Rank`). It is claimed while the calls
  have not failed and their results matter (`Flowing`).
* `Causes` says that a call that fails has met the end of the partition, so that
  either a block wore out or the image is too long: everything before the end that
  is not bad was filled.
* `HeaderInv` is about `flash_image`: in the first pass the first block begins with
  padding or is erased (`Spoiled`), before the second pass everything after the first
  block is in place (`Rest`), and the second pass writes one block only (`OneBlock`).
* The steps are first classified by what they do (`Stays`, `Passes`, `Writes`,
  `Fails`, `Gathers`, `Pads`, `Clears` for the library, `Begins`, `Continues`,
  `Turns`, `Ends` for the clients), and the invariant is shown for each class: for
  the library in `MtdSteps_proofs`, for the clients and the power cut in
  `MtdUtils_proofs`. What the first needs to know about numbers of blocks is its
  hypothesis `Counting`, which the second shows (`CountingHolds`).

`AdbTransport_proofs.tla`, for every number of openings and packets and every room in
the sockets: `DeviceIsOwn`, `FreedIsUnused` and `SocketsAreClosed`, from the invariant
of `InvariantHolds`. For every transport it says how far its two threads have come and
which references they hold (`Life`), where the notice is that it goes offline, which
is the last packet on its way (`Notice`), and who may still use the device (`Owns`);
`Registered` is about the messages for the event loop, one for each transport that
waits for one, and `Handled` about the handle of the device.

`Install_proofs.tla`, for all scripts, packages, faults and power cuts:

* `ScreenIsState`: `ShownIsState`. `ScreenInv` says that the page on display is the
  one due, and that the other, if the two are taken for identical, needs no more than
  its bar drawn (`Sound`).
* `WipeIsAsAsked`: `WipeAsAsked`. `WipeInv` follows the request from the script
  through the pipe to `install_package`, and says that before the script runs there
  is none.

Types are proved (`TypeCorrect`, or a part of the invariant) where a module has proofs
of its whole state; elsewhere `TypeOK` is a conjunct of an invariant that a run checks
(`SocketsSound`, `ResumeSucceeds`). `OriginalKept` (a path only ever changes to the
wanted contents or while the copy holds it) and `EntriesSorted` are proved and not
among the properties of a run.

The inductive invariants were checked with TLC, on the instances of the runs, before
they were proved. Only model-checked:

* liveness (`EventuallyPatched`, `EraseCompletes`, `RecoveryEnds`, `KeysConsumed`,
  `Reconnects`, `StreamEnds`, `InstallEnds`), which is out of the prover's reach;
* `BarAdvances`, `SuccessMeansInstalled`, `ResumeSucceeds` and `DirExtracted`, which
  are about what a script as a whole computes: the interpreter walks an expression
  tree, and what it gives for every tree takes an induction over trees;
* `AdbSockets`: its properties compare a stream with what is in the queues, put
  together and filtered by folds, and facts about folds take an induction over the
  sequence.

## 11. Not modelled

* Pixels, fonts, images and input devices (`minui`): pure I/O; the flip of its
  pages is in `Screen`.
* The lexer and parser of edify: generated code. Scripts are expression trees.
* RSA, ECDSA, SHA and inflation: external. The ASN.1 walk and `load_keys` of the
  verifier: parsers of bytes without state.
* `bspatch`, `imgpatch`: loops over bytes; applying a patch is one step of
  `ApplyPatch`. `retouch_mask_data`, which undoes the randomization of a library
  each time `apply_patch` loads a file, is arithmetic on bytes: the contents in
  `ApplyPatch` are those it gives, and a file it refuses is treated as one with an
  unknown hash, which takes the same branches.
* Host tools that make patches (`bsdiff`, `imgdiff`): do not run on the device.
* Of `minadbd`: smart sockets, subprocesses of `fdevent`, `acquire_one_transport`,
  which nothing in this build reaches; the switch of the USB driver.
* Log rotation, `/tmp/last_install`, `fstab` parsing, the browsing inside
  `update_directory`, scanning `/proc/mtd`, mounting MTD, `mtd_read_skip_to`, and
  `mtd_find_write_start`, which has no caller.
* The composition of `Install` with `Recovery` and of `Updater` with `ApplyPatch`:
  `Install` alone has some 260,000 states and runs for minutes, so a product would
  need bounds too small to say much. Each uses the other's result instead: `Recovery`
  takes an installation as begun, ended or failed, `Updater` takes `apply_patch` as
  a step that either patches or leaves what `ApplyPatch` shows to be recoverable.
