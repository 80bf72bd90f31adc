----------------------------- MODULE ApplyPatch -----------------------------
(***************************************************************************)
(* applypatch/applypatch.c and applypatch/freecache.c: an update script    *)
(* patches a list of files and partitions one after the other, on storage  *)
(* that survives a crash.  There is one copy file for the whole script,    *)
(* CACHE_TEMP_SOURCE on /cache, into which a source is saved before it is  *)
(* destroyed.  The process may die between any two system calls; the next  *)
(* boot runs the script again from its first line.                         *)
(*                                                                         *)
(* A job is one apply_patch(src, tgt, ...) call of the script.  Contents   *)
(* are abstract values: two contents are equal exactly when their SHA-1s   *)
(* are.  Sizes are in units of one write to /cache.                        *)
(***************************************************************************)
EXTENDS Integers

CONSTANTS
    NJobs,      \* number of apply_patch calls of the script
    Path,       \* files and partitions
    Partition,  \* the paths that are "MTD:..." or "EMMC:..." names
    Content,    \* what a path can hold
    Absent,     \* no such file
    Garbage,    \* contents whose hash nobody knows: empty, torn, stale
    Src, Tgt,   \* source_filename and target_filename of each job
    Sources,    \* the contents each job has a patch for (patch_sha1_str)
    New,        \* the contents with hash target_sha1
    Checks,     \* the sha1s given to apply_patch_check for each job
    Unchecked,  \* the jobs for which the script has no apply_patch_check
    Size,       \* size of each content, in units of /cache space
    MaxSize,    \* the largest of these sizes
    CacheSize,  \* units of /cache not taken by undeletable files
    Bloat,      \* deletable one-unit files on /cache
    Leftover    \* lengths of the copy file other updates may have left there

Jobs == 1..NJobs
Data == Content \ {Absent, Garbage}

ASSUME JobsAssumption == NJobs \in Nat \ {0}

ASSUME ContentAssumption ==
    /\ Absent \in Content /\ Garbage \in Content /\ Absent # Garbage
    /\ Partition \subseteq Path
    /\ Src \in [Jobs -> Path] /\ Tgt \in [Jobs -> Path]
    /\ Sources \in [Jobs -> SUBSET Data] /\ New \in [Jobs -> Data]
    /\ Checks \in [Jobs -> SUBSET Data] /\ Unchecked \subseteq Jobs

\* Two jobs of one script never share a path.
ASSUME PathsAssumption ==
    \A i, j \in Jobs : i # j => {Src[i], Tgt[i]} \cap {Src[j], Tgt[j]} = {}

ASSUME SizeAssumption ==
    /\ MaxSize \in Nat /\ CacheSize \in Nat /\ Bloat \in Nat
    /\ Bloat <= CacheSize /\ Leftover \subseteq 0..MaxSize
    /\ Size \in [Content -> 1..MaxSize]

VARIABLES
    disk,       \* contents of every path (persistent)
    copy,       \* contents of CACHE_TEMP_SOURCE (persistent)
    copyLen,    \* its length (persistent)
    bloat,      \* deletable files left on /cache (persistent)
    pc,         \* the next step of the script
    job,        \* the job it is a step of
    use,        \* source_to_use: the contents being patched
    fromCopy,   \* source_patch_value == NULL: they came from the copy
    saveSize,   \* source_file->size, the length SaveFileContents writes
    madeCopy,   \* made_copy
    retry,      \* retry > 0
    out,        \* the patched output: the .patch file or the memory sink
    fault       \* this run met an I/O error, a bad patch or a full target

persistent == <<disk, copy, copyLen, bloat>>
local == <<use, fromCopy, saveSize, madeCopy, retry, out>>
vars == <<persistent, pc, job, local, fault>>

\* Where the process can be between two system calls.
Steps == {"check", "reserve", "load", "space", "makefree", "truncate", "save",
          "unlink", "open", "patch", "install", "writing", "cleanup", "failed", "done"}

\* The type invariant: every variable has its type, and the copy and the
\* deletable files fit on /cache.
TypeOK ==
    /\ disk \in [Path -> Content]
    /\ copy \in Content
    /\ copyLen \in 0..MaxSize
    /\ bloat \in 0..Bloat
    /\ copyLen + bloat <= CacheSize
    /\ pc \in Steps
    /\ job \in Jobs
    /\ use \in Content
    /\ fromCopy \in BOOLEAN
    /\ saveSize \in 0..MaxSize
    /\ madeCopy \in BOOLEAN
    /\ retry \in BOOLEAN
    /\ out \in Content
    /\ fault \in BOOLEAN

Init ==
    /\ disk \in [Path -> Content]
    /\ \A j \in Jobs : disk[Src[j]] \in Sources[j]
    /\ \/ copy = Absent /\ copyLen = 0
       \/ copy = Garbage /\ copyLen \in Leftover
    /\ bloat = Bloat /\ copyLen + bloat <= CacheSize
    /\ pc = "check"
    /\ job = 1
    /\ use = Absent
    /\ fromCopy = FALSE
    /\ saveSize = 0
    /\ madeCopy = FALSE
    /\ retry = FALSE
    /\ out = Absent
    /\ fault = FALSE

-----------------------------------------------------------------------------
\* LoadFileContents(p) == 0 on behalf of job j.  The name of a partition
\* lists the hashes it may have, and loading it fails on any other contents.
Loads(p, j) ==
    IF p \in Partition THEN disk[p] \in Sources[j] \cup {New[j]}
                       ELSE disk[p] # Absent

\* FindMatchingPatch on what Loads gives: there is a patch for path p.
SourceMatches(j) == Loads(Src[j], j) /\ disk[Src[j]] \in Sources[j]

FreeSpaceOnCache == CacheSize - copyLen - bloat

\* applypatch returns non-zero and the script's assert() ends the run.
Return1 ==
    /\ pc' = "failed"
    /\ UNCHANGED <<persistent, job, local>>

\* applypatch returns 0: on to the next line of the script.
Return0 ==
    /\ pc' = IF job = NJobs THEN "done" ELSE "load"
    /\ job' = IF job = NJobs THEN job ELSE job + 1
    /\ UNCHANGED <<use, fromCopy, saveSize, madeCopy, retry, out, fault>>

-----------------------------------------------------------------------------
(* applypatch_check, the first pass of the script over its jobs. *)
\* Mistake: the copy on /cache is not considered.
CheckPasses_NoCopy(j) ==
    Loads(Src[j], j) /\ (Checks[j] = {} \/ disk[Src[j]] \in Checks[j])

CheckPasses(j) ==
    \/ /\ Loads(Src[j], j)
       /\ Checks[j] = {} \/ disk[Src[j]] \in Checks[j]
    \/ copy \in Checks[j]

ApplyPatchCheck ==
    /\ pc = "check"
    /\ \/ /\ job \in Unchecked \/ CheckPasses(job)
          /\ pc' = IF job = NJobs THEN "reserve" ELSE "check"
          /\ job' = IF job = NJobs THEN 1 ELSE job + 1
          /\ UNCHANGED <<persistent, local, fault>>
       \/ /\ job \notin Unchecked /\ ~CheckPasses(job)
          /\ Return1
          /\ UNCHANGED fault

(* MakeFreeSpaceOnCache(bytes), one unlink at a time, called at one step   *)
(* of the script and going on at another.  The copy file is never among    *)
(* the files it deletes.  When statfs fails, the free space is (size_t)-1  *)
(* and always enough.                                                      *)
\* Mistake: the files are looked at but never unlinked.
MakeFreeSpaceOnCache_NoUnlink(at, bytes, next) ==
    /\ pc = at
    /\ FreeSpaceOnCache >= bytes
    /\ pc' = next
    /\ UNCHANGED <<persistent, job, local, fault>>

MakeFreeSpaceOnCache(at, bytes, next) ==
    /\ pc = at
    /\ \/ /\ \/ FreeSpaceOnCache >= bytes /\ fault' = fault
             \/ fault' = TRUE
          /\ pc' = next
          /\ UNCHANGED bloat
       \/ /\ FreeSpaceOnCache < bytes
          /\ bloat > 0
          /\ bloat' = bloat - 1
          /\ UNCHANGED <<pc, fault>>
       \/ /\ FreeSpaceOnCache < bytes
          /\ bloat = 0
          /\ pc' = "failed"
          /\ UNCHANGED <<bloat, fault>>
    /\ UNCHANGED <<disk, copy, copyLen, job, local>>

\* apply_patch_space(bytes of the largest source), between the two passes.
ApplyPatchSpace == MakeFreeSpaceOnCache("reserve", MaxSize, "load")

-----------------------------------------------------------------------------
(* applypatch up to the call of GenerateTarget: decide what to patch. *)
AlreadyPatched ==
    /\ pc = "load"
    /\ Loads(Tgt[job], job) /\ disk[Tgt[job]] = New[job]
    /\ Return0
    /\ UNCHANGED persistent

\* GenerateTarget is called with the contents c, taken from the copy or not.
Generate(c, isCopy) ==
    /\ use' = c
    /\ fromCopy' = isCopy
    /\ pc' = "space"
    /\ madeCopy' = FALSE
    /\ retry' = TRUE
    /\ out' = Absent
    /\ UNCHANGED <<persistent, job>>

LoadSource ==
    /\ pc = "load"
    /\ disk[Tgt[job]] # New[job] /\ SourceMatches(job)
    /\ Generate(disk[Src[job]], FALSE)
    /\ saveSize' = Size[disk[Src[job]]]
    /\ UNCHANGED fault

\* "source file is bad; trying copy": the source has no patch, or it (or the
\* target) could not be read.  source_file->data is NULL from here on, while
\* ->size is whatever was read before that was found out, if anything was.
LoadCopy ==
    /\ pc = "load"
    /\ \/ disk[Tgt[job]] # New[job] /\ ~SourceMatches(job) /\ fault' = fault
       \/ fault' = TRUE
    /\ copy \in Sources[job]
    /\ Generate(copy, TRUE)
    /\ saveSize' \in 0..MaxSize

LoadFails ==
    /\ pc = "load"
    /\ disk[Tgt[job]] # New[job]
    /\ ~SourceMatches(job) /\ copy \notin Sources[job]
    /\ Return1
    /\ UNCHANGED fault

-----------------------------------------------------------------------------
(* GenerateTarget, the head of its loop: is there room for the output? *)
\* Mistake: a partition is rewritten without saving it first.
PartitionTarget_NoSave ==
    /\ pc = "space"
    /\ Tgt[job] \in Partition
    /\ pc' = "open"
    /\ retry' = FALSE
    /\ UNCHANGED <<persistent, job, use, fromCopy, saveSize, madeCopy, out, fault>>

PartitionTarget ==
    /\ pc = "space"
    /\ Tgt[job] \in Partition
    /\ pc' = "makefree"
    /\ retry' = FALSE
    /\ UNCHANGED <<persistent, job, use, fromCopy, saveSize, madeCopy, out, fault>>

EnoughSpace ==
    /\ pc = "space"
    /\ Tgt[job] \notin Partition
    /\ retry
    /\ pc' = "open"
    /\ UNCHANGED <<persistent, job, local, fault>>

\* Mistake: the source is deleted without saving it first.
LowSpace_NoSave ==
    /\ pc = "space"
    /\ Tgt[job] \notin Partition
    /\ retry' = FALSE
    /\ pc' = IF fromCopy THEN "open" ELSE "unlink"
    /\ UNCHANGED <<persistent, job, use, fromCopy, saveSize, madeCopy, out, fault>>

LowSpace ==
    /\ pc = "space"
    /\ Tgt[job] \notin Partition
    /\ retry' = FALSE
    /\ \/ fromCopy /\ pc' = "open" /\ fault' = fault
       \/ ~fromCopy /\ Src[job] \notin Partition /\ pc' = "makefree" /\ fault' = fault
       \/ ~fromCopy /\ Src[job] \in Partition /\ pc' = "failed" /\ fault' = TRUE
    /\ UNCHANGED <<persistent, job, use, fromCopy, saveSize, madeCopy, out>>

SaveMakeFree == MakeFreeSpaceOnCache("makefree", saveSize, "truncate")

(* SaveFileContents(CACHE_TEMP_SOURCE, source_file): open with O_TRUNC,    *)
(* then write.  source_file->data is NULL when the source came from the    *)
(* copy, and a non-empty write of it fails with EFAULT.                    *)
SaveTruncate ==
    /\ pc = "truncate"
    /\ copy' = Garbage
    /\ copyLen' = 0
    /\ pc' = "save"
    /\ UNCHANGED <<disk, bloat, job, local, fault>>

SaveWrite ==
    /\ pc = "save"
    /\ ~fromCopy
    /\ copyLen < saveSize /\ FreeSpaceOnCache > 0
    /\ copyLen' = copyLen + 1
    /\ copy' = IF copyLen' = saveSize THEN use ELSE Garbage
    /\ UNCHANGED <<disk, bloat, pc, job, local, fault>>

SaveNullFails ==
    /\ pc = "save"
    /\ fromCopy
    /\ copyLen < saveSize
    /\ Return1
    /\ UNCHANGED fault

SaveDone ==
    /\ pc = "save"
    /\ copyLen = saveSize
    /\ madeCopy' = TRUE
    /\ pc' = IF Tgt[job] \in Partition THEN "open" ELSE "unlink"
    /\ UNCHANGED <<persistent, job, use, fromCopy, saveSize, retry, out, fault>>

\* unlink(source_filename); its result is ignored.
UnlinkSource ==
    /\ pc = "unlink"
    /\ disk' \in {disk, [disk EXCEPT ![Src[job]] = Absent]}
    /\ pc' = "open"
    /\ UNCHANGED <<copy, copyLen, bloat, job, local, fault>>

-----------------------------------------------------------------------------
(* GenerateTarget, the rest of its loop: produce the output and check it.  *)
OpenOutput ==
    /\ pc = "open"
    /\ out' = Garbage
    /\ pc' = "patch"
    /\ UNCHANGED <<persistent, job, use, fromCopy, saveSize, madeCopy, retry, fault>>

\* Mistake: the hash of the output is not compared with the target's.
Patch_AnyHash ==
    /\ pc = "patch"
    /\ out' \in {New[job], Garbage}
    /\ pc' = "install"
    /\ UNCHANGED <<persistent, job, use, fromCopy, saveSize, madeCopy, retry, fault>>

Patch ==
    /\ pc = "patch"
    /\ out' = New[job]
    /\ pc' = "install"
    /\ UNCHANGED <<persistent, job, use, fromCopy, saveSize, madeCopy, retry, fault>>

\* ApplyBSDiffPatch or ApplyImagePatch failed, and there is a retry left.
PatchRetry ==
    /\ pc = "patch"
    /\ retry
    /\ retry' = FALSE
    /\ out' = Absent
    /\ pc' = "space"
    /\ UNCHANGED <<persistent, job, use, fromCopy, saveSize, madeCopy, fault>>

\* Any system call of these steps can fail, and a patch can be malformed,
\* fail on the last attempt, or give an output with the wrong hash.
IoError ==
    /\ pc \in {"check", "reserve", "load", "makefree", "truncate", "save", "open",
              "patch", "install", "writing"}
    /\ Return1
    /\ fault' = TRUE

\* chmod, chown and rename of <target>.patch.
RenameOutput ==
    /\ pc = "install"
    /\ Tgt[job] \notin Partition
    /\ disk' = [disk EXCEPT ![Tgt[job]] = out]
    /\ out' = Absent
    /\ pc' = "cleanup"
    /\ UNCHANGED <<copy, copyLen, bloat, job, use, fromCopy, saveSize, madeCopy, retry, fault>>

(* WriteToPartition is not atomic: the partition is torn while it runs.    *)
(* What is written is read back, and a difference is an I/O error.  How,   *)
(* is the subject of EmmcWrite and MtdUtils; that a flash block may be     *)
(* given up in a way that shows only when the partition is read is left    *)
(* out here.                                                               *)
WriteBegin ==
    /\ pc = "install"
    /\ Tgt[job] \in Partition
    /\ disk' = [disk EXCEPT ![Tgt[job]] = Garbage]
    /\ pc' = "writing"
    /\ UNCHANGED <<copy, copyLen, bloat, job, local, fault>>

\* Mistake: what was written is not read back.
WriteEnd_NotVerified ==
    /\ pc = "writing"
    /\ disk' \in {disk, [disk EXCEPT ![Tgt[job]] = out]}
    /\ pc' = "cleanup"
    /\ UNCHANGED <<copy, copyLen, bloat, job, local, fault>>

WriteEnd ==
    /\ pc = "writing"
    /\ disk' = [disk EXCEPT ![Tgt[job]] = out]
    /\ pc' = "cleanup"
    /\ UNCHANGED <<copy, copyLen, bloat, job, local, fault>>

\* if (made_copy) unlink(CACHE_TEMP_SOURCE); return 0;
Cleanup ==
    /\ pc = "cleanup"
    /\ copy' = IF madeCopy THEN Absent ELSE copy
    /\ copyLen' = IF madeCopy THEN 0 ELSE copyLen
    /\ Return0
    /\ UNCHANGED <<disk, bloat>>

-----------------------------------------------------------------------------
\* The script starts again, in a new process.
Restart ==
    /\ pc' = "check"
    /\ job' = 1
    /\ use' = Absent
    /\ fromCopy' = FALSE
    /\ saveSize' = 0
    /\ madeCopy' = FALSE
    /\ retry' = FALSE
    /\ out' = Absent
    /\ fault' = FALSE
    /\ UNCHANGED persistent

\* Power is lost, or the process is killed, between two system calls.
Crash == pc \notin {"failed", "done"} /\ Restart

\* The same package is installed again after a run that ended.
Rerun == pc \in {"failed", "done"} /\ Restart

\* What the process does by itself when no system call fails.
Run ==
    \/ ApplyPatchCheck \/ ApplyPatchSpace
    \/ AlreadyPatched \/ LoadSource \/ LoadCopy \/ LoadFails
    \/ PartitionTarget \/ EnoughSpace \/ LowSpace
    \/ SaveMakeFree \/ SaveTruncate \/ SaveWrite \/ SaveNullFails \/ SaveDone
    \/ UnlinkSource
    \/ OpenOutput \/ Patch
    \/ RenameOutput \/ WriteBegin \/ WriteEnd \/ Cleanup

Next == Run \/ PatchRetry \/ IoError \/ Crash \/ Rerun

Spec == Init /\ [][Next]_vars

\* A process that is running keeps running: it never waits for anything.
FairSpec == Spec /\ WF_vars(Run)

-----------------------------------------------------------------------------
(* Properties. *)

\* Every target is a file, none a partition.
FileTargets == \A j \in Jobs : Tgt[j] \notin Partition

\* Every job patches a file in place, the script checks it for the hashes
\* before and after, and /cache has room for two copies.
InPlaceFiles ==
    /\ FileTargets
    /\ \A j \in Jobs : Src[j] = Tgt[j] /\ Checks[j] = Sources[j] \cup {New[j]}
    /\ CacheSize >= 2 * MaxSize

Patched(j) == disk[Tgt[j]] = New[j]

\* What a crash leaves behind is enough to finish: every job is patched, or
\* its source is intact, or the copy on /cache holds its source.  This is the
\* promise of applypatch ("safe", "idempotent") and the reason for the copy.
Recoverable ==
    \A j \in Jobs :
        Patched(j) \/ disk[Src[j]] \in Sources[j] \/ copy \in Sources[j]

\* The script is restartable at any point: a run fails only if it met an I/O
\* error itself, never because of where earlier runs were interrupted.
RestartNeverFails == pc = "failed" => fault

\* A script that ends well has patched everything.
SuccessMeansPatched == pc = "done" => \A j \in Jobs : Patched(j)

\* applypatch: "the original file is not touched until we have the desired
\* replacement for it" or a saved copy of it.  A path changes only to the new
\* contents, or when the copy holds what it held.
OriginalKept ==
    [][\A p \in Path : disk'[p] # disk[p] =>
          \/ \E j \in Jobs : p = Tgt[j] /\ disk'[p] = New[j]
          \/ copy = disk[p] /\ copy' = copy]_vars

\* GenerateTarget: "we still write the original source to cache, in case the
\* partition write is interrupted".  While a partition is being rewritten from
\* its own contents, the copy holds them.
PartitionBackedUp ==
    pc = "writing" /\ ~fromCopy => copy = use /\ use \in Sources[job]

\* The script implements the promise of PatchPromise: jobs become patched one
\* at a time, in order, and never become unpatched, and success is reported
\* only when all of them are.
Status == [j \in Jobs |-> IF Patched(j) THEN "new" ELSE "old"]
Result == IF pc = "done" THEN "success"
          ELSE IF pc = "failed" THEN "failure" ELSE "running"
Promise == INSTANCE PatchPromise WITH status <- Status, result <- Result
PromiseKept == Promise!Spec

\* Once crashes and I/O errors stop, the update is completed and stays so.
EventuallyPatched ==
    (<>[]~fault /\ <>[][~Crash]_vars) => <>[](\A j \in Jobs : Patched(j))
=============================================================================
