------------------------------ MODULE Updater -------------------------------
(***************************************************************************)
(* The updater binary: the functions updater/install.c gives to scripts, and *)
(* main of updater.c.  A function takes the world w (see World) and its      *)
(* arguments to a set of outcomes: what it returns, the world it leaves, the *)
(* error message, the commands it sends to recovery, and whether something   *)
(* outside has failed.  A power cut in the middle of a function leaves the   *)
(* world of one of its outcomes.                                             *)
(***************************************************************************)
EXTENDS Edify, FiniteSets, FiniteSetsExt

CONSTANTS
    Files,      \* the paths on the system partition
    Old,        \* those that are there before the update
    Package,    \* those whose new contents are in the package, ...
    Entries     \* ... which has other entries too: patches, images

ASSUME UpdaterAssumption == Package \subseteq Files \cap Entries /\ Old \subseteq Files

\* "saved": the write was cut short, applypatch has a copy of the source.
Contents == {"none", "old", "new", "torn", "saved", "link"}
System == "/system"     \* the mount point and its directory
Attributes == {"uid", "gid", "mode", "dmode", "fmode", "selabel", "capabilities"}

World == [mounted : BOOLEAN,
          sys : [Files -> Contents],            \* the system partition
          ram : [Files -> Contents],            \* what is under /system without it
          attrs : [Files -> SUBSET Attributes], \* set by the script, on the partition
          boot : {"old", "torn", "new"}]        \* a partition without a file system

\* Outcomes
Ok(w, v) == [w |-> w, v |-> v, msg |-> "", out |-> <<>>, fault |-> FALSE]
Says(w, v, out) == [Ok(w, v) EXCEPT !.out = out]
Aborts(w) == [Ok(w, NULL) EXCEPT !.msg = "error"]
Fault(w, v) == [Ok(w, v) EXCEPT !.fault = TRUE]
FaultAborts(w) == [Aborts(w) EXCEPT !.fault = TRUE]
Killed(w) == [Ok(w, NULL) EXCEPT !.v.type = "killed"]

\* The file system a path under /system leads to
View(w) == IF w.mounted THEN w.sys ELSE w.ram
Put(w, new) == IF w.mounted THEN [w EXCEPT !.sys = new @@ @] ELSE [w EXCEPT !.ram = new @@ @]
All(S, c) == [p \in S |-> c]
Arg(a, i) == a[i].data[1]       \* an argument that is one atom
SomeEmpty(a, S) == \E i \in S : ~BooleanString(a[i])

-----------------------------------------------------------------------------
(* mount, is_mounted, unmount, format *)

\* A second mount of a device at the same place is refused.
MountFn(w, a) ==
    IF SomeEmpty(a, 1..4) THEN {Aborts(w)}
    ELSE (IF w.mounted THEN {Ok(w, Empty)} ELSE {Ok([w EXCEPT !.mounted = TRUE], a[4])})
         \cup {Fault(w, Empty)}

\* scan_mounted_volumes: the table is read anew from /proc/mounts each time.
ScanMountedVolumes(w) == IF w.mounted THEN {System} ELSE {}

FindMounted(w, mp) == mp \in ScanMountedVolumes(w)

IsMountedFn(w, a) ==
    IF SomeEmpty(a, {1}) THEN {Aborts(w)}
    ELSE {Ok(w, IF FindMounted(w, Arg(a, 1)) THEN a[1] ELSE Empty)}

\* The result of unmount_mounted_volume is not looked at.
UnmountFn(w, a) ==
    IF SomeEmpty(a, {1}) THEN {Aborts(w)}
    ELSE IF ~FindMounted(w, Arg(a, 1)) THEN {Ok(w, Empty)}
    ELSE {Ok([w EXCEPT !.mounted = FALSE], a[1]), Fault(w, a[1])}

\* format(fs_type, partition_type, location, fs_size, mount_point).  What cannot be
\* formatted is an abort without a message.
FormatFn(w, a) ==
    LET erased == [w EXCEPT !.sys = All(Files, "none"), !.attrs = All(Files, {})]
    IN IF SomeEmpty(a, {1, 2, 3, 5}) THEN {Aborts(w)}
       ELSE IF Arg(a, 2) = "MTD" \/ Arg(a, 1) = "ext4"
         THEN {Ok(erased, a[3]), Fault(w, Empty), Fault(erased, Empty)}
       ELSE {Ok(w, NULL)}

-----------------------------------------------------------------------------
(* rename, delete, symlink *)

RenameFn(w, a) ==
    LET src == Arg(a, 1)
        dst == Arg(a, 2)
    IN IF SomeEmpty(a, 1..2) \/ View(w)[src] = "none" THEN {Aborts(w)}
       ELSE {Ok(Put(w, (src :> "none") @@ (dst :> View(w)[src])), a[2]), FaultAborts(w)}

Count(S) == Str(<<IF S = {} THEN "0" ELSE "1">>)     \* or more: they are all true

\* dirUnlinkHierarchy of /system: it stops at the first thing it cannot remove, at
\* the latest at the directory itself if something is mounted there.
DirUnlinkHierarchy(w) ==
    {Ok(Put(w, All(Files, "none")), Count(IF w.mounted THEN {} ELSE {System}))}
    \cup {Fault(Put(w, All(S, "none")), Count({})) : S \in SUBSET Files}

\* delete, delete_recursive: how many of the paths could be removed.  (/system is
\* given alone; unlink does not remove a directory.)
DeleteFn(fn, w, a) ==
    LET paths == {Arg(a, i) : i \in DOMAIN a}
        there == {p \in paths \cap Files : View(w)[p] # "none"}
        gone(S) == Put(w, All(S, "none"))
    IN IF fn = "delete_recursive" /\ System \in paths THEN DirUnlinkHierarchy(w)
       ELSE {Ok(gone(there), Count(there))} \cup {Fault(gone(S), Count(S)) : S \in SUBSET there}

\* Each path is removed first; then what is not in S could not be linked, and what
\* is not in R not removed either.
Linked(w, srcs, S, R) == Put(w, All(S, "link") @@ All((srcs \ S) \cap R, "none"))

\* symlink(target, src...): one failure does not keep the rest from being linked.
\* (make_parents finds the directories there.)
SymlinkFn(w, a) ==
    LET srcs == {Arg(a, i) : i \in 2..Len(a)}
    IN {Ok(Linked(w, srcs, srcs, {}), Empty)}
       \cup {FaultAborts(Linked(w, srcs, f[1], f[2])) :
                f \in (SUBSET srcs \ {srcs}) \X SUBSET srcs}

-----------------------------------------------------------------------------
(* The package *)

\* mzExtractRecursive stops at the first failure.  One before the contents of a file
\* (its directory, its creation) makes it return false; one while they are written or
\* the file is touched sets the ok of the inner block, and it returns true.
PackageExtractDirFn(w) ==
    {Ok(Put(w, All(Package, "new")), T)}
    \cup {Fault(Put(w, All(S, "new")), Empty) : S \in SUBSET Package}
    \cup {Fault(Put(w, (p :> c) @@ All(S, "new")), T) :
            p \in Package, c \in {"torn", "new"}, S \in SUBSET Package}

\* Mistake: what was written is taken for the whole.
ExtractFile_Unchecked(w, a) ==
    LET dst == Arg(a, 2)
    IN IF Arg(a, 1) \notin Entries THEN {Ok(w, Empty)}
       ELSE {Ok(Put(w, dst :> "new"), T), Fault(w, Empty), Fault(Put(w, dst :> "torn"), T)}

\* package_extract_file(name, path): the file is emptied before it is written.
ExtractFile(w, a) ==
    LET dst == Arg(a, 2)
    IN IF Arg(a, 1) \notin Entries THEN {Ok(w, Empty)}
       ELSE {Ok(Put(w, dst :> "new"), T), Fault(w, Empty), Fault(Put(w, dst :> "torn"), Empty)}

\* package_extract_file(name): a blob in any case
ExtractBlob(w, a) ==
    IF Arg(a, 1) \notin Entries THEN {Ok(w, Blob("bad"))}
    ELSE {Ok(w, Blob("new")), Fault(w, Blob("bad"))}

PackageExtractFileFn(w, a) ==
    IF Len(a) = 2 THEN ExtractFile(w, a) ELSE ExtractBlob(w, a)

-----------------------------------------------------------------------------
(* set_metadata, set_metadata_recursive *)

\* ParsePermArgs: keys it does not know and values it cannot parse are ignored.
ParsePermArgs(a) == {Arg(a, i) : i \in {j \in 2..Len(a) : /\ j % 2 = 0 /\ Arg(a, j) \in Attributes
                                                          /\ a[j + 1].data # <<"invalid">>}}

\* ApplyParsedPerms: a link is left alone; dmode is for directories.
ApplyParsedPerms(w, S, p) ==
    IF ~w.mounted \/ p \notin Files \/ w.sys[p] \in {"link", "none"} THEN w
    ELSE [w EXCEPT !.attrs[p] = @ \cup (S \ {"dmode"})]

\* do_SetMetadataRecursive on the files of a set, in some order
SetAll(w, S, ps) == FoldSet(LAMBDA p, u : ApplyParsedPerms(u, S, p), w, ps)

\* An lstat that fails sets the message, but the function goes on to return the
\* empty string.  nftw stops at the first file that has a failure; its own failure
\* (-1) is not taken for one.
SetMetadataFn(fn, w, a) ==
    LET S == ParsePermArgs(a)
        p == Arg(a, 1)
        ps == IF p = System THEN Files ELSE {p}
    IN IF p # System /\ View(w)[p] = "none" THEN {[Ok(w, Empty) EXCEPT !.msg = "error"]}
       ELSE IF fn = "set_metadata"
         THEN {Ok(ApplyParsedPerms(w, S, p), Empty)}
              \cup {FaultAborts(ApplyParsedPerms(w, R, p)) : R \in SUBSET S}
       ELSE {Ok(SetAll(w, S, ps), Empty)}
            \cup {FaultAborts(SetAll(w, S, qs)) : qs \in SUBSET ps}
            \cup {Fault(SetAll(w, S, qs), Empty) : qs \in SUBSET ps}
-----------------------------------------------------------------------------
(* Reading: properties and files *)

\* The properties are not the script's; the value is whatever it is.
GetPropFn(w) == {Ok(w, Empty), Ok(w, Str(<<"value">>))}

\* file_getprop(file, key): of a file with contents c the value is c.  A file cut
\* short may end in a line without "=", which is an abort, or have no line at
\* all, which strtok answers with the NULL that is then read through.
FileGetPropFn(w, a) ==
    LET c == View(w)[Arg(a, 1)]
    IN CASE c = "none" -> {Aborts(w)}
         [] c \in {"torn", "saved"} -> {Aborts(w), Killed(w), Ok(w, Empty)}
         [] OTHER -> {Ok(w, Str(<<c>>)), FaultAborts(w)}

ReadFileFn(w, a) ==
    IF View(w)[Arg(a, 1)] = "none" THEN {Aborts(w)}
    ELSE {Ok(w, Blob(View(w)[Arg(a, 1)])), FaultAborts(w)}

\* sha1_check(data, sha1...): the matching argument, or the empty string
Sha1CheckFn(w, a) ==
    LET c == Last(a[1].data)
        matching == {i \in 2..Len(a) : a[i] = Str(<<c>>)}
    IN IF a[1].type = "blob" /\ c = "bad" THEN {Ok(w, Empty)}
       ELSE IF Len(a) = 1 THEN {Ok(w, Str(<<c>>))}
       ELSE {Ok(w, IF matching = {} THEN Empty ELSE a[Min(matching)])}

-----------------------------------------------------------------------------
(* write_raw_image, apply_patch and the like *)

\* The blob of a failed extraction has size -1 and no data: the first block of the
\* partition is erased, and the comparison with what was written goes through a
\* null pointer.  What fails after the last whole block is only logged.
WriteRawImageFn(w, a) ==
    LET boot(c) == [w EXCEPT !.boot = c]
        image == IF a[1].type = "blob" THEN Arg(a, 1) ELSE View(w)[Arg(a, 1)]
    IN IF a[2].type # "string" \/ SomeEmpty(a, 1..2) THEN {Aborts(w)}
       ELSE IF a[1] = Blob("bad") THEN {Killed(boot("torn")), Fault(w, Empty)}
       ELSE IF image = "none" THEN {Ok(w, Empty)}
       ELSE {Ok(boot(IF image = "new" THEN "new" ELSE "torn"), a[2]),
             Fault(w, Empty), Fault(boot("torn"), Empty), Fault(boot("torn"), a[2])}

ApplyPatchSpaceFn(w, a) ==
    IF ~IsInt(a[1]) THEN {Aborts(w)} ELSE {Ok(w, T), Fault(w, Empty)}

\* apply_patch_check(file, sha1...), with the copy in the cache (see ApplyPatch)
ApplyPatchCheckFn(w, a) ==
    LET c == View(w)[Arg(a, 1)]
    IN {Ok(w, Bool(c = "saved" \/ (c # "none" /\ Len(a) = 1)
                   \/ \E i \in 2..Len(a) : a[i] = Str(<<c>>)))}

\* apply_patch(src, tgt, tgt_sha1, tgt_size, sha1, patch...): what ApplyPatch promises
\* of a file that is patched in place.  (The size is parsed before the patches are
\* read from the package, which changes nothing.)
ApplyPatchFn(w, a) ==
    LET f == Arg(a, 1)
        c == View(w)[f]
    IN IF ~IsInt(a[4]) THEN {Aborts(w)}
       ELSE IF \E i \in 5..Len(a) : (i % 2 = 1) # (a[i].type = "string") THEN {Aborts(w)}
       ELSE IF Arg(a, 3) = c THEN {Ok(w, T)}
       ELSE IF c \in {"old", "saved"} /\ \E i \in 6..Len(a) : a[i] = Blob("new")
         THEN {Ok(Put(w, f :> Arg(a, 3)), T), Fault(w, Empty), Fault(Put(w, f :> "saved"), Empty)}
       ELSE {Ok(w, Empty)}

-----------------------------------------------------------------------------
(* What goes to recovery, and run_program *)

\* show_progress(fraction, seconds) and set_progress(fraction)
ShowProgressFn(w, a) ==
    {Says(w, a[1], <<<<"progress", IntOf(a[1]), IntOf(a[2])>>>>)}

SetProgressFn(w, a) ==
    {Says(w, a[1], <<<<"set_progress", IntOf(a[1])>>>>)}

\* A line of its own, if there is one, and the end of it
UIPrintFn(w, a) ==
    LET s == FlattenSeq([i \in DOMAIN a |-> a[i].data])
    IN {Says(w, Str(s), (IF s = <<>> THEN <<>> ELSE <<<<"ui_print">>>>) \o <<<<"ui_print">>>>)}

WipeCacheFn(w) == {Says(w, T, <<<<"wipe_cache">>>>)}

\* The exit status as a string, which is never empty
RunProgramFn(w) == {Ok(w, Str(<<"0">>)), Fault(w, Str(<<"1">>))}

\* The number of arguments is looked at before any of them is evaluated.  (Where it
\* is not, ReadArgs takes what it needs of argv, and scripts give that many.)
ArgcOk(fn, argc) ==
    CASE fn \in {"is_mounted", "unmount", "set_progress", "getprop", "read_file"} -> argc = 1
      [] fn \in {"rename", "show_progress", "package_extract_dir"} -> argc = 2
      [] fn = "mount" -> argc = 4
      [] fn = "format" -> argc = 5
      [] fn = "package_extract_file" -> argc \in {1, 2}
      [] fn \in {"symlink", "apply_patch_check", "sha1_check", "run_program"} -> argc > 0
      [] fn \in {"set_metadata", "set_metadata_recursive"} -> argc % 2 = 1
      [] fn = "apply_patch" -> argc >= 6 /\ argc % 2 = 0
      [] fn = "wipe_cache" -> argc = 0
      [] OTHER -> TRUE

\* RegisterInstallFunctions.  (The parser refuses a script that calls any other.)
Outcomes(fn, w, a) ==
    CASE fn = "mount" -> MountFn(w, a)
      [] fn = "is_mounted" -> IsMountedFn(w, a)
      [] fn = "unmount" -> UnmountFn(w, a)
      [] fn = "format" -> FormatFn(w, a)
      [] fn = "show_progress" -> ShowProgressFn(w, a)
      [] fn = "set_progress" -> SetProgressFn(w, a)
      [] fn \in {"delete", "delete_recursive"} -> DeleteFn(fn, w, a)
      [] fn = "package_extract_dir" -> PackageExtractDirFn(w)
      [] fn = "package_extract_file" -> PackageExtractFileFn(w, a)
      [] fn = "symlink" -> SymlinkFn(w, a)
      [] fn \in {"set_metadata", "set_metadata_recursive"} -> SetMetadataFn(fn, w, a)
      [] fn = "getprop" -> GetPropFn(w)
      [] fn = "file_getprop" -> FileGetPropFn(w, a)
      [] fn = "write_raw_image" -> WriteRawImageFn(w, a)
      [] fn = "apply_patch" -> ApplyPatchFn(w, a)
      [] fn = "apply_patch_check" -> ApplyPatchCheckFn(w, a)
      [] fn = "apply_patch_space" -> ApplyPatchSpaceFn(w, a)
      [] fn = "read_file" -> ReadFileFn(w, a)
      [] fn = "sha1_check" -> Sha1CheckFn(w, a)
      [] fn = "rename" -> RenameFn(w, a)
      [] fn = "wipe_cache" -> WipeCacheFn(w)
      [] fn = "ui_print" -> UIPrintFn(w, a)
      [] fn = "run_program" -> RunProgramFn(w)
      [] OTHER -> {}

-----------------------------------------------------------------------------
(***************************************************************************)
(* The process                                                               *)
(***************************************************************************)
CONSTANTS
    Scripts,    \* a sequence of Exprs
    PipeCap,    \* how many commands the pipe to recovery holds
    MaxFaults   \* how often something outside fails

VARIABLES
    script,     \* which of Scripts is in the package
    child,      \* "none", "main", "run", or how the process ended
    stack,      \* the calls under way: [at, vals], at being the place among the
                \* caller's arguments, vals the values this one has so far
    null,       \* the call on top has been given NULL
    errmsg,     \* State.errmsg is not NULL
    w,
    pipe,
    nfaults,
    hurt        \* something has failed since the update was last started

updaterVars == <<script, child, stack, null, errmsg, w, pipe, nfaults, hurt>>

\* How the process may end: exit codes, and a signal
Ends == {"-1", "0", "3", "4", "5", "6", "7", "killed"}

\* The Expr a call of the stack evaluates
Node(k) ==
    LET f[i \in 1..k] == IF i = 1 THEN Scripts[script] ELSE f[i - 1].argv[stack[i].at]
    IN f[k]

\* What the function of e does next, its outcome apart if it is one of Updater's.
NextStep(e, vals) ==
    IF e.fn \in Builtins THEN Builtin(e.fn, Len(e.argv), vals)
    ELSE IF ~ArgcOk(e.fn, Len(e.argv)) THEN ErrorAbort("arguments")
    ELSE ReadArgs(Len(e.argv), vals, Ret(Empty))

\* Literal.  A function of the updater's takes the constants among its arguments, up
\* to the next call, at once: they have no effects.
Literals(e, vals) ==
    LET n == Len(vals)
        run == {m \in 0..(Len(e.argv) - n) : \A i \in 1..m : e.argv[n + i].fn = "literal"}
    IN IF e.fn \in Builtins \/ ~ArgcOk(e.fn, Len(e.argv)) THEN vals
       ELSE vals \o [i \in 1..Max(run) |-> Str(e.argv[n + i].data)]

\* Argument i of the call on top of the stack: a constant, or the next call
Begin(i) ==
    LET n == Len(stack)
        arg == Node(n).argv[i]
    IN /\ stack' = IF arg.fn = "literal"
                     THEN [stack EXCEPT ![n].vals = Append(@, Str(arg.data))]
                     ELSE Append(stack, [at |-> i, vals |-> Literals(arg, <<>>)])
       /\ UNCHANGED <<child, null, errmsg>>

\* main, when the value of the script is there: the commands it writes, and the end
Finish(v, msg) ==
    /\ child' = IF v = NULL THEN "7" ELSE "0"
    /\ errmsg' = msg
    /\ stack' = <<>>
    /\ null' = FALSE

\* The call on top of the stack returns v (Evaluate, EvaluateValue): its caller has
\* one more value, or NULL; msg says whether there is an error message.
Return(v, msg) ==
    LET n == Len(stack) - 1
        e == Node(n)
        wants == n > 0 /\ TakesValue(e.fn, Len(stack[n].vals) + 1)
        x == IF wants THEN v ELSE Evaluate(v)
    IN IF n = 0 THEN Finish(x, msg \/ x # v)
       ELSE /\ null' = (x = NULL)
            /\ errmsg' = (msg \/ x # v)
            /\ stack' = IF x = NULL THEN Front(stack)
                        ELSE [Front(stack) EXCEPT ![n].vals = Literals(e, Append(@, x))]
            /\ UNCHANGED child

\* What main adds to the pipe if that was the last call
Closing(v, msg) ==
    IF Len(stack) > 1 THEN <<>>
    ELSE IF Evaluate(v) = NULL /\ (msg \/ v # NULL) THEN <<<<"ui_print">>, <<"ui_print">>>>
    ELSE <<<<"ui_print">>>>

\* fprintf to the pipe waits while it is full.
Write(out) ==
    /\ Len(pipe) + Len(out) <= PipeCap
    /\ pipe' = pipe \o out

Running == child = "run" /\ ~null

\* A builtin function evaluates an argument or returns; a function of the updater's
\* evaluates an argument or finds that it has the wrong number of them.
Interpret ==
    /\ Running
    /\ LET e == Node(Len(stack))
           s == NextStep(e, Last(stack).vals)
           msg == errmsg \/ s.msg # ""
       IN \/ /\ s.arg # 0
             /\ Begin(s.arg)
             /\ UNCHANGED pipe
          \/ /\ s.arg = 0 /\ (e.fn \in Builtins \/ s.v = NULL)
             /\ Return(s.v, msg)
             /\ Write(Closing(s.v, msg))
    /\ UNCHANGED <<script, w, nfaults, hurt>>

\* A function of the updater's has its arguments, and does its work.
Apply ==
    /\ Running
    /\ LET e == Node(Len(stack))
           s == NextStep(e, Last(stack).vals)
       IN /\ e.fn \notin Builtins /\ s.arg = 0 /\ s.v # NULL
          /\ \E o \in Outcomes(e.fn, w, Last(stack).vals) :
               LET msg == errmsg \/ o.msg # ""
               IN /\ o.fault => nfaults < MaxFaults
                  /\ nfaults' = nfaults + (IF o.fault THEN 1 ELSE 0)
                  /\ hurt' = (hurt \/ o.fault \/ o.v.type = "killed")
                  /\ w' = o.w
                  /\ IF o.v.type = "killed"
                       THEN child' = "killed" /\ UNCHANGED <<stack, null, errmsg, pipe>>
                       ELSE Return(o.v, msg) /\ Write(o.out \o Closing(o.v, msg))
    /\ UNCHANGED script

\* The call on top of the stack has been given NULL.
Unwind ==
    /\ child = "run" /\ null
    /\ LET e == Node(Len(stack))
           msg == errmsg \/ e.fn = "abort"
       IN \E r \in NullArg(e.fn, Len(Last(stack).vals) + 1) :
            IF r = "killed"
              THEN child' = "killed" /\ UNCHANGED <<stack, null, errmsg, pipe>>
              ELSE Return(NULL, msg) /\ Write(Closing(NULL, msg))
    /\ UNCHANGED <<script, w, nfaults, hurt>>

\* main, up to the evaluation: the package cannot be opened, has no script, or not
\* one that can be read or parsed; file_contexts may be missing.
Main ==
    /\ child = "main"
    /\ \/ /\ nfaults < MaxFaults
          /\ nfaults' = nfaults + 1
          /\ hurt' = TRUE
          /\ child' \in {"3", "4", "5", "6"}
          /\ UNCHANGED <<stack, pipe>>
       \/ /\ child' = "run"
          /\ stack' = <<[at |-> 0, vals |-> Literals(Scripts[script], <<>>)]>>
          /\ \E out \in {<<>>, <<<<"ui_print">>>>} : Write(out)
          /\ UNCHANGED <<nfaults, hurt>>
    /\ UNCHANGED <<script, null, errmsg, w>>

\* The power goes while a function may be at work: what is done of it stays.
PowerLost ==
    /\ LET e == Node(Len(stack))
           works == Running /\ e.fn \notin Builtins /\ NextStep(e, Last(stack).vals).arg = 0
                    /\ ArgcOk(e.fn, Len(e.argv))
           after == IF works THEN {o.w : o \in Outcomes(e.fn, w, Last(stack).vals)} ELSE {}
       IN \E x \in {w} \cup after :
            w' = [x EXCEPT !.mounted = FALSE, !.ram = All(Files, "none")]
    /\ child' = "none"
    /\ stack' = <<>>
    /\ null' = FALSE
    /\ errmsg' = FALSE
    /\ pipe' = <<>>
    /\ hurt' = FALSE
    /\ UNCHANGED <<script, nfaults>>

InitUpdater ==
    /\ script \in DOMAIN Scripts
    /\ child = "none" /\ stack = <<>> /\ null = FALSE /\ errmsg = FALSE
    /\ w = [mounted |-> FALSE, sys |-> [p \in Files |-> IF p \in Old THEN "old" ELSE "none"],
            ram |-> All(Files, "none"), attrs |-> All(Files, {}), boot |-> "old"]
    /\ pipe = <<>>
    /\ nfaults = 0 /\ hurt = FALSE

UpdaterSteps == Interpret \/ Apply \/ Unwind \/ Main
=============================================================================
