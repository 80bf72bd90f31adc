-------------------------- MODULE ApplyPatch_proofs --------------------------
(***************************************************************************)
(* Proofs about ApplyPatch, for every number of jobs, every assignment of   *)
(* paths and contents to them and every size of /cache; and, at the end,    *)
(* about EmmcWrite, for data of any length and any number of attempts.      *)
(***************************************************************************)
EXTENDS ApplyPatch, EmmcWrite, TLAPS

USE DEF Jobs, Data

\* The facts about the constants that the steps below use.
LEMMA ConstantFacts ==
    /\ NJobs \in Nat \ {0} /\ 1 \in Jobs /\ Jobs \subseteq Nat
    /\ \A j \in Jobs : /\ Src[j] \in Path /\ Tgt[j] \in Path
                       /\ New[j] \in Content /\ New[j] # Absent /\ New[j] # Garbage
                       /\ Sources[j] \subseteq Content
                       /\ Absent \notin Sources[j] /\ Garbage \notin Sources[j]
    /\ \A c \in Content : Size[c] \in 1..MaxSize
    /\ Absent \in Content /\ Garbage \in Content
BY JobsAssumption, ContentAssumption, SizeAssumption

\* Deleting a file leaves less on /cache.
LEMMA LessStillFits ==
    \A a, b, c, d \in Nat : a + b <= d /\ c <= b => a + c <= d
OBVIOUS

\* The type invariant holds: whatever is written, deleted or interrupted, the
\* copy file and the deletable files fit on /cache.
LEMMA TypeInit == Init => TypeOK
<1> SUFFICES ASSUME Init PROVE TypeOK
  OBVIOUS
<1>1. copyLen \in 0..MaxSize /\ bloat \in 0..Bloat /\ saveSize \in 0..MaxSize
  <2>1. copyLen = 0 \/ copyLen \in Leftover
    BY DEF Init
  <2>2. Leftover \subseteq 0..MaxSize /\ MaxSize \in Nat /\ Bloat \in Nat
    BY SizeAssumption
  <2>3. copyLen \in 0..MaxSize
    <3>1. CASE copyLen = 0
      BY <3>1, <2>2
    <3>2. CASE copyLen \in Leftover
      BY <3>2, <2>2
    <3> QED
      BY <2>1, <3>1, <3>2
  <2> QED
    BY <2>2, <2>3, bloat = Bloat, saveSize = 0 DEF Init
<1>2. pc \in Steps /\ job \in Jobs /\ copy \in Content
  BY ConstantFacts DEF Init, Steps
<1> QED
  BY <1>1, <1>2, ConstantFacts, Zenon DEF Init, TypeOK

LEMMA TypeStep == TypeOK /\ [Next]_vars => TypeOK'
<1> SUFFICES ASSUME TypeOK, [Next]_vars PROVE TypeOK'
  OBVIOUS
<1> USE ConstantFacts, SizeAssumption DEF TypeOK, Steps, persistent, local
<1>1. CASE UNCHANGED vars
  BY <1>1 DEF vars
<1>2. CASE ApplyPatchCheck
  BY <1>2 DEF ApplyPatchCheck, Return1
<1>3. ASSUME NEW at, NEW bytes, NEW next \in Steps, MakeFreeSpaceOnCache(at, bytes, next)
      PROVE  TypeOK'
  <2>1. bloat' \in 0..Bloat /\ bloat' <= bloat
    BY <1>3 DEF MakeFreeSpaceOnCache
  <2>2. pc' \in Steps /\ fault' \in BOOLEAN
    BY <1>3, Zenon DEF MakeFreeSpaceOnCache
  <2>3. copyLen' + bloat' <= CacheSize
    <3>1. copyLen' = copyLen
      BY <1>3 DEF MakeFreeSpaceOnCache
    <3>2. copyLen \in Nat /\ bloat \in Nat /\ bloat' \in Nat /\ CacheSize \in Nat
      BY <2>1
    <3>3. copyLen + bloat <= CacheSize
      OBVIOUS
    <3> QED
      BY <3>1, <3>2, <3>3, <2>1, LessStillFits, Zenon
  <2> QED
    BY <1>3, <2>1, <2>2, <2>3, Zenon DEF MakeFreeSpaceOnCache
<1>4. CASE ApplyPatchSpace \/ SaveMakeFree
  BY <1>3, <1>4 DEF ApplyPatchSpace, SaveMakeFree
<1>5. CASE AlreadyPatched \/ LoadFails
  BY <1>5 DEF AlreadyPatched, LoadFails, Return0, Return1
<1>6. CASE LoadSource
  <2>1. disk[Src[job]] \in Content
    OBVIOUS
  <2>2. saveSize' \in 0..MaxSize
    BY <1>6, <2>1 DEF LoadSource
  <2> QED
    BY <1>6, <2>1, <2>2, Zenon DEF LoadSource, Generate
<1>7. CASE LoadCopy
  BY <1>7, Zenon DEF LoadCopy, Generate
<1>8. CASE PartitionTarget \/ EnoughSpace \/ LowSpace
  BY <1>8, Zenon DEF PartitionTarget, EnoughSpace, LowSpace
<1>9. CASE SaveTruncate
  <2>1. copyLen' \in 0..MaxSize /\ copyLen' + bloat' <= CacheSize
    BY <1>9 DEF SaveTruncate
  <2> QED
    BY <1>9, <2>1 DEF SaveTruncate
<1>16. CASE SaveNullFails \/ SaveDone
  BY <1>16, Zenon DEF SaveNullFails, SaveDone, Return1
<1>15. CASE SaveWrite
  <2>1. copyLen' \in 0..MaxSize /\ copyLen' + bloat <= CacheSize
    BY <1>15 DEF SaveWrite, FreeSpaceOnCache
  <2> QED
    BY <1>15, <2>1 DEF SaveWrite
<1>10. CASE UnlinkSource
  BY <1>10 DEF UnlinkSource
<1>11. CASE OpenOutput \/ Patch \/ PatchRetry \/ IoError
  BY <1>11, Zenon DEF OpenOutput, Patch, PatchRetry, IoError, Return1
<1>12. CASE RenameOutput \/ WriteBegin \/ WriteEnd
  <2>1. disk' \in [Path -> Content]
    BY <1>12 DEF RenameOutput, WriteBegin, WriteEnd
  <2> QED
    BY <1>12, <2>1 DEF RenameOutput, WriteBegin, WriteEnd
<1>13. CASE Cleanup
  BY <1>13 DEF Cleanup, Return0
<1>14. CASE Crash \/ Rerun
  <2>1. job' \in Jobs /\ saveSize' \in 0..MaxSize
    BY <1>14 DEF Crash, Rerun, Restart
  <2> QED
    BY <1>14, <2>1, Zenon DEF Crash, Rerun, Restart
<1> HIDE DEF TypeOK, Steps, persistent, local
<1> QED
  BY <1>1, <1>2, <1>4, <1>5, <1>6, <1>7, <1>8, <1>9, <1>10, <1>11, <1>12,
     <1>13, <1>14, <1>15, <1>16 DEF Next, Run

THEOREM TypeCorrect == Spec => []TypeOK
<1>1. Init => TypeOK
  BY TypeInit
<1>2. TypeOK /\ [Next]_vars => TypeOK'
  BY TypeStep
<1> QED
  BY <1>1, <1>2, PTL DEF Spec

-----------------------------------------------------------------------------
(* Success means patched. *)

\* The second pass of the script leaves patched jobs behind it, and it only
\* installs output whose hash is the target's.
InOrder ==
    /\ pc = "reserve" => job = 1
    /\ pc \notin {"check", "reserve", "failed"} =>
           \A i \in Jobs : i < job => Patched(i)
    /\ pc \in {"install", "writing"} => out = New[job]
    /\ pc = "cleanup" => Patched(job)
    /\ pc = "done" => job = NJobs /\ Patched(job)

\* A write to a path of one job does not touch the target of another.
LEMMA OtherJobsUntouched ==
    ASSUME TypeOK, NEW p \in {Src[job], Tgt[job]}, NEW c,
           disk' = [disk EXCEPT ![p] = c]
    PROVE  /\ \A i \in Jobs : i # job =>
                  disk'[Src[i]] = disk[Src[i]] /\ disk'[Tgt[i]] = disk[Tgt[i]]
           /\ disk'[p] = c
BY ConstantFacts, PathsAssumption, Zenon DEF TypeOK

LEMMA InOrderStep == TypeOK /\ InOrder /\ [Next]_vars => InOrder'
<1> SUFFICES ASSUME TypeOK, InOrder, [Next]_vars PROVE InOrder'
  OBVIOUS
<1> USE DEF InOrder, Patched
<1>j. job \in Jobs /\ \A i \in Jobs : /\ i < job => i # job
                                    /\ i < job + 1 => i < job \/ i = job
  BY ConstantFacts DEF TypeOK
<1>0. ASSUME Return0, disk' = disk, Patched(job), pc \in {"load", "cleanup"}
      PROVE  InOrder'
  <2>1. CASE job = NJobs
    BY <1>0, <2>1 DEF Return0
  <2>2. CASE job # NJobs
    <3>1. pc' = "load" /\ job' = job + 1
      BY <1>0, <2>2 DEF Return0
    <3>2. \A i \in Jobs : i < job + 1 => Patched(i)
      BY <1>0, <1>j
    <3> QED
      BY <1>0, <3>1, <3>2
  <2> QED
    BY <2>1, <2>2
<1>1. CASE UNCHANGED vars
  BY <1>1 DEF vars, persistent, local
<1>2. CASE ApplyPatchCheck
  BY <1>2 DEF ApplyPatchCheck, Return1
<1>3. CASE ApplyPatchSpace
  <2>1. job = 1 /\ \A i \in Jobs : ~(i < 1)
    BY <1>3, ConstantFacts DEF ApplyPatchSpace, MakeFreeSpaceOnCache
  <2> QED
    BY <1>3, <2>1 DEF ApplyPatchSpace, MakeFreeSpaceOnCache
<1>4. CASE SaveMakeFree
  BY <1>4 DEF SaveMakeFree, MakeFreeSpaceOnCache
<1>5. CASE AlreadyPatched
  BY <1>5, <1>0 DEF AlreadyPatched, persistent
<1>6. CASE LoadSource \/ LoadCopy \/ LoadFails
  BY <1>6 DEF LoadSource, LoadCopy, LoadFails, Generate, Return1, persistent
<1>7. CASE PartitionTarget \/ EnoughSpace \/ LowSpace
  BY <1>7 DEF PartitionTarget, EnoughSpace, LowSpace, persistent
<1>8. CASE SaveTruncate \/ SaveWrite \/ SaveNullFails \/ SaveDone
  <2>1. pc \in {"truncate", "save"} /\ UNCHANGED <<disk, job>>
    BY <1>8 DEF SaveTruncate, SaveWrite, SaveNullFails, SaveDone, Return1, persistent
  <2>2. pc' \in {"save", "failed", "open", "unlink"}
    BY <1>8 DEF SaveTruncate, SaveWrite, SaveNullFails, SaveDone, Return1
  <2> QED
    BY <2>1, <2>2
<1>9. CASE UnlinkSource
  <2>1. \A i \in Jobs : i # job => disk'[Tgt[i]] = disk[Tgt[i]]
    BY <1>9, OtherJobsUntouched DEF UnlinkSource
  <2>2. pc = "unlink" /\ pc' = "open" /\ job' = job
    BY <1>9 DEF UnlinkSource
  <2>3. \A i \in Jobs : i < job => Patched(i)
    BY <2>2
  <2>4. \A i \in Jobs : i < job => Patched(i)'
    BY <1>j, <2>1, <2>3
  <2> QED
    BY <2>2, <2>4
<1>10. CASE OpenOutput \/ Patch \/ PatchRetry \/ IoError
  BY <1>10 DEF OpenOutput, Patch, PatchRetry, IoError, Return1, persistent
<1>11. CASE RenameOutput \/ WriteBegin \/ WriteEnd
  <2>1. /\ \A i \in Jobs : i # job => disk'[Tgt[i]] = disk[Tgt[i]]
        /\ RenameOutput \/ WriteEnd => disk'[Tgt[job]] = out
    BY <1>11, OtherJobsUntouched DEF RenameOutput, WriteBegin, WriteEnd
  <2>2. /\ pc \in {"install", "writing"} /\ job' = job
        /\ \/ (RenameOutput \/ WriteEnd) /\ pc' = "cleanup"
           \/ pc' = "writing" /\ out' = out
    BY <1>11 DEF RenameOutput, WriteBegin, WriteEnd, local
  <2> QED
    BY <1>j, <2>1, <2>2
<1>12. CASE Cleanup
  BY <1>12, <1>0 DEF Cleanup
<1>13. CASE Crash \/ Rerun
  BY <1>13 DEF Crash, Rerun, Restart
<1> HIDE DEF InOrder
<1> QED
  BY <1>1, <1>2, <1>3, <1>4, <1>5, <1>6, <1>7, <1>8, <1>9, <1>10, <1>11,
     <1>12, <1>13 DEF Next, Run

\* A script that ends well has patched every target: jobs are patched one
\* after the other and nothing that a later job does undoes an earlier one.
\* Holds for files and partitions alike.
THEOREM Success == Spec => []SuccessMeansPatched
<1>1. Init => TypeOK /\ InOrder
  BY TypeInit DEF Init, InOrder
<1>2. TypeOK /\ InOrder /\ [Next]_vars => (TypeOK /\ InOrder)'
  BY TypeStep, InOrderStep
<1>3. TypeOK /\ InOrder => SuccessMeansPatched
  <2> SUFFICES ASSUME TypeOK, InOrder, pc = "done", NEW j \in Jobs
               PROVE  Patched(j)
    BY DEF SuccessMeansPatched
  <2>1. job = NJobs /\ Patched(job) /\ \A i \in Jobs : i < job => Patched(i)
    BY DEF InOrder
  <2>2. j < job \/ j = job
    BY <2>1, JobsAssumption
  <2> QED
    BY <2>1, <2>2
<1> QED
  BY <1>1, <1>2, <1>3, PTL DEF Spec

-----------------------------------------------------------------------------
(* Files survive: the invariant behind Recoverable. *)

\* Job i can be done only with the copy.
NeedsCopy(i) == ~Patched(i) /\ disk[Src[i]] \notin Sources[i]

\* The source is still where it was, and the job still to be done.
Untouched == disk[Src[job]] = use /\ ~Patched(job)

Generating == {"space", "makefree", "truncate", "save", "unlink", "open",
               "patch", "install", "cleanup"}

\* The steps that save the source work on the source itself, never on the
\* copy, and only while the source is intact.
Saving ==
    /\ pc \in Generating \ {"install", "cleanup"} => use \in Sources[job]
    /\ pc \in {"makefree", "truncate", "save", "unlink"} =>
           ~fromCopy /\ ~retry /\ Untouched
    /\ pc = "space" /\ ~fromCopy => Untouched
    /\ pc \in {"open", "patch"} /\ ~fromCopy /\ retry => Untouched
    /\ pc \in Generating \ {"install", "cleanup"} /\ ~fromCopy => saveSize = Size[use]
    /\ pc = "save" /\ copyLen = saveSize => copy = use
    /\ pc = "unlink" => copy = use
    /\ pc # "writing"

\* At most one job needs the copy: the first one that is not patched.  A run
\* that made a copy of its own made it when no other job needed one.
CopyServes ==
    /\ \A i \in Jobs : NeedsCopy(i) =>
           copy \in Sources[i] /\ \A k \in Jobs : k < i => Patched(k)
    /\ madeCopy /\ pc \in Generating =>
           \A i \in Jobs : i # job => ~NeedsCopy(i)

FileInv == TypeOK /\ InOrder /\ Saving /\ CopyServes

LEMMA FileInit == Init => FileInv
<1> SUFFICES ASSUME Init PROVE FileInv
  OBVIOUS
<1>1. TypeOK
  BY TypeInit
<1>2. InOrder /\ Saving
  BY DEF Init, InOrder, Saving, Generating
<1>3. CopyServes
  BY DEF Init, CopyServes, NeedsCopy, Generating
<1> QED
  BY <1>1, <1>2, <1>3 DEF FileInv

LEMMA SavingStep ==
    ASSUME FileTargets, TypeOK, Saving, Next PROVE Saving'
<1> USE DEF Saving, Untouched, Patched, Generating
<1>j. job \in Jobs /\ Tgt[job] \notin Partition /\ fromCopy \in BOOLEAN /\ retry \in BOOLEAN
  BY DEF TypeOK, FileTargets
<1>1. CASE ApplyPatchCheck
  BY <1>1 DEF ApplyPatchCheck, Return1
<1>2. CASE AlreadyPatched
  BY <1>2 DEF AlreadyPatched, Return0
<1>3. CASE LoadFails
  BY <1>3 DEF LoadFails, Return1
<1>4. CASE ApplyPatchSpace
  BY <1>4 DEF ApplyPatchSpace, MakeFreeSpaceOnCache
<1>5. CASE SaveMakeFree
  BY <1>5 DEF SaveMakeFree, MakeFreeSpaceOnCache, local
<1>6. CASE LoadSource
  BY <1>6, <1>j, ConstantFacts DEF LoadSource, Generate, SourceMatches, persistent
<1>7. CASE LoadCopy
  BY <1>7, <1>j DEF LoadCopy, Generate, SourceMatches
<1>8. CASE PartitionTarget
  BY <1>8, <1>j DEF PartitionTarget
<1>9. CASE EnoughSpace
  BY <1>9, <1>j DEF EnoughSpace, persistent, local
<1>10. CASE LowSpace
  BY <1>10, <1>j DEF LowSpace, persistent
<1>11. CASE SaveTruncate
  <2>1. saveSize # 0
    <3>1. use \in Content /\ saveSize = Size[use]
      BY <1>11, <1>j, ConstantFacts DEF SaveTruncate, TypeOK
    <3> QED
      BY <3>1, SizeAssumption
  <2> QED
    BY <1>11, <2>1 DEF SaveTruncate, local
<1>12. CASE SaveWrite
  BY <1>12, <1>j DEF SaveWrite, local
<1>13. CASE SaveNullFails
  BY <1>13 DEF SaveNullFails, Return1
<1>14. CASE SaveDone
  BY <1>14 DEF SaveDone, persistent
<1>15. CASE UnlinkSource
  BY <1>15 DEF UnlinkSource, local
<1>16. CASE OpenOutput
  BY <1>16 DEF OpenOutput, persistent
<1>17. CASE Patch
  BY <1>17 DEF Patch
<1>18. CASE PatchRetry
  BY <1>18 DEF PatchRetry, persistent
<1>19. CASE IoError
  BY <1>19 DEF IoError, Return1
<1>20. CASE RenameOutput
  BY <1>20 DEF RenameOutput
<1>21. CASE WriteBegin
  BY <1>21, <1>j DEF WriteBegin
<1>22. CASE WriteEnd
  BY <1>22 DEF WriteEnd
<1>23. CASE Cleanup
  BY <1>23 DEF Cleanup, Return0
<1>24. CASE Crash \/ Rerun
  BY <1>24 DEF Crash, Rerun, Restart
<1> HIDE DEF Saving
<1> QED
  BY <1>1, <1>2, <1>3, <1>4, <1>5, <1>6, <1>7, <1>8, <1>9, <1>10, <1>11, <1>12,
     <1>13, <1>14, <1>15, <1>16, <1>17, <1>18, <1>19, <1>20, <1>21, <1>22, <1>23,
     <1>24 DEF Next, Run

\* A step that leaves the files and the copy alone disturbs CopyServes only if a
\* copy of its own comes into use.
LEMMA CopyServesKept ==
    ASSUME CopyServes, disk' = disk, copy' = copy,
           madeCopy' /\ pc' \in Generating => madeCopy /\ pc \in Generating /\ job' = job
    PROVE  CopyServes'
BY DEF CopyServes, NeedsCopy, Patched

LEMMA CopyServesStep ==
    ASSUME FileTargets, TypeOK, InOrder, Saving, CopyServes, Next
    PROVE  CopyServes'
<1> USE DEF Generating, persistent, local
<1>j. job \in Jobs /\ Tgt[job] \notin Partition /\ madeCopy \in BOOLEAN
  BY DEF TypeOK, FileTargets
\* While the source is intact and the job not done, nothing needs the copy.
<1>n. Untouched /\ use \in Sources[job]
         /\ pc \notin {"check", "reserve", "failed"} => \A i \in Jobs : ~NeedsCopy(i)
  <2> SUFFICES ASSUME Untouched, use \in Sources[job],
                      pc \notin {"check", "reserve", "failed"}, NEW i \in Jobs, NeedsCopy(i)
               PROVE  FALSE
    OBVIOUS
  <2>1. i < job => Patched(i)
    BY DEF InOrder
  <2>2. job < i => Patched(job)
    BY <1>j DEF CopyServes
  <2>3. i < job \/ i = job \/ job < i
    BY <1>j, ConstantFacts
  <2> QED
    BY <2>1, <2>2, <2>3 DEF Untouched, NeedsCopy
<1>1. CASE ApplyPatchCheck \/ AlreadyPatched \/ LoadFails
  BY <1>1, CopyServesKept DEF ApplyPatchCheck, AlreadyPatched, LoadFails, Return0, Return1
<1>2. CASE ApplyPatchSpace \/ SaveMakeFree
  <2>1. UNCHANGED <<disk, copy, job, madeCopy>> /\ (pc' = pc \/ pc' \in {"load", "failed", "truncate"})
    BY <1>2 DEF ApplyPatchSpace, SaveMakeFree, MakeFreeSpaceOnCache
  <2>2. pc' = "truncate" => pc \in {"makefree", "truncate"}
    BY <1>2 DEF ApplyPatchSpace, SaveMakeFree, MakeFreeSpaceOnCache
  <2> QED
    BY <2>1, <2>2, CopyServesKept
<1>3. CASE LoadSource \/ LoadCopy
  BY <1>3, CopyServesKept DEF LoadSource, LoadCopy, Generate
<1>4. CASE PartitionTarget \/ EnoughSpace \/ LowSpace
  <2>1. UNCHANGED <<disk, copy, job, madeCopy>> /\ pc = "space"
    BY <1>4 DEF PartitionTarget, EnoughSpace, LowSpace
  <2> QED
    BY <2>1, CopyServesKept
<1>5. CASE SaveTruncate \/ SaveWrite \/ SaveNullFails \/ SaveDone
  <2>1. \A i \in Jobs : ~NeedsCopy(i)
    BY <1>5, <1>n DEF SaveTruncate, SaveWrite, SaveNullFails, SaveDone, Saving
  <2>2. \A i \in Jobs : ~NeedsCopy(i)'
    BY <1>5, <2>1 DEF SaveTruncate, SaveWrite, SaveNullFails, SaveDone, Return1,
                      NeedsCopy, Patched
  <2> QED
    BY <2>2 DEF CopyServes
<1>6. CASE UnlinkSource
  <2>1. \A i \in Jobs : ~NeedsCopy(i)
    BY <1>6, <1>n DEF UnlinkSource, Saving
  <2>2. \A i \in Jobs : i # job =>
            disk'[Src[i]] = disk[Src[i]] /\ disk'[Tgt[i]] = disk[Tgt[i]]
    BY <1>6, OtherJobsUntouched DEF UnlinkSource
  <2>3. copy' \in Sources[job]
    BY <1>6 DEF UnlinkSource, Saving
  <2>4. \A k \in Jobs : k < job => Patched(k)
    BY <1>6 DEF UnlinkSource, InOrder
  <2>5. \A i \in Jobs : i # job => ~NeedsCopy(i)' /\ (Patched(i) => Patched(i)')
    BY <2>1, <2>2 DEF NeedsCopy, Patched
  <2>6. \A k \in Jobs : k < job => Patched(k)'
    BY <1>j, <2>4, <2>5, ConstantFacts
  <2>7. job' = job
    BY <1>6 DEF UnlinkSource
  <2> QED
    BY <2>3, <2>5, <2>6, <2>7 DEF CopyServes
<1>7. CASE OpenOutput \/ Patch \/ PatchRetry \/ IoError
  BY <1>7, CopyServesKept DEF OpenOutput, Patch, PatchRetry, IoError, Return1
<1>8. CASE RenameOutput
  <2>1. \A i \in Jobs : i # job =>
            disk'[Src[i]] = disk[Src[i]] /\ disk'[Tgt[i]] = disk[Tgt[i]]
    BY <1>8, OtherJobsUntouched, Zenon DEF RenameOutput
  <2>2. Patched(job)'
    BY <1>8, ConstantFacts, OtherJobsUntouched, Zenon DEF RenameOutput, InOrder, Patched
  <2>3. \A i \in Jobs : (NeedsCopy(i)' => NeedsCopy(i) /\ i # job) /\ (Patched(i) => Patched(i)')
    BY <1>8, <2>1, <2>2 DEF RenameOutput, NeedsCopy, Patched
  <2>4. copy' = copy /\ job' = job /\ madeCopy' = madeCopy /\ pc \in Generating
    BY <1>8 DEF RenameOutput
  <2> QED
    BY <2>3, <2>4 DEF CopyServes
<1>9. CASE WriteBegin \/ WriteEnd
  BY <1>9, <1>j DEF WriteBegin, WriteEnd, Saving
<1>10. CASE Cleanup
  <2>1. madeCopy => \A i \in Jobs : ~NeedsCopy(i)
    BY <1>10, <1>j DEF Cleanup, InOrder, CopyServes, NeedsCopy
  <2> QED
    BY <1>10, <1>j, <2>1 DEF Cleanup, Return0, CopyServes, NeedsCopy, Patched
<1>11. CASE Crash \/ Rerun
  BY <1>11, CopyServesKept DEF Crash, Rerun, Restart
<1> QED
  BY <1>1, <1>2, <1>3, <1>4, <1>5, <1>6, <1>7, <1>8, <1>9, <1>10, <1>11
  DEF Next, Run

LEMMA FileStep == ASSUME FileTargets PROVE FileInv /\ [Next]_vars => FileInv'
<1> SUFFICES ASSUME FileInv, [Next]_vars PROVE FileInv'
  OBVIOUS
<1>1. TypeOK' /\ InOrder'
  BY TypeStep, InOrderStep DEF FileInv
<1>2. Saving' /\ CopyServes'
  <2>1. CASE Next
    BY <2>1, SavingStep, CopyServesStep DEF FileInv
  <2>2. CASE UNCHANGED vars
    BY <2>2 DEF vars, persistent, local, FileInv, Saving, Untouched, CopyServes,
                NeedsCopy, Patched
  <2> QED
    BY <2>1, <2>2
<1> QED
  BY <1>1, <1>2 DEF FileInv

\* As long as no target is a partition, whatever interrupts the script leaves
\* every job patched, with its source intact, or with its source in the copy.
THEOREM FilesRecoverable == ASSUME FileTargets PROVE Spec => []Recoverable
<1>1. FileInv => Recoverable
  BY DEF FileInv, CopyServes, NeedsCopy, Recoverable
<1> QED
  BY <1>1, FileInit, FileStep, PTL DEF Spec

-----------------------------------------------------------------------------
(* A script that patches files in place can always be started again. *)

LEMMA RestartStep ==
    ASSUME InPlaceFiles
    PROVE  FileInv /\ RestartNeverFails /\ [Next]_vars => RestartNeverFails'
<1> SUFFICES ASSUME FileInv, RestartNeverFails, [Next]_vars, pc' = "failed"
             PROVE  fault'
  BY DEF RestartNeverFails
<1> USE DEF RestartNeverFails
<1>t. TypeOK /\ job \in Jobs /\ Tgt[job] \notin Partition /\ Src[job] = Tgt[job]
  BY DEF FileInv, TypeOK, InPlaceFiles, FileTargets
<1>r. Patched(job) \/ disk[Src[job]] \in Sources[job] \/ copy \in Sources[job]
  BY <1>t DEF FileInv, CopyServes, NeedsCopy
<1>1. CASE UNCHANGED vars
  BY <1>1 DEF vars
<1>2. CASE ApplyPatchCheck
  <2>1. New[job] # Absent /\ Absent \notin Sources[job]
    BY <1>t, ConstantFacts
  <2>2. Checks[job] = Sources[job] \cup {New[job]}
    BY <1>t DEF InPlaceFiles
  <2>3. disk[Src[job]] \in Checks[job] => Loads(Src[job], job)
    BY <1>t, <2>1, <2>2 DEF Loads
  <2>4. CheckPasses(job)
    BY <1>r, <1>t, <2>2, <2>3 DEF CheckPasses, Patched
  <2> QED
    BY <1>2, <2>4 DEF ApplyPatchCheck
<1>3. ASSUME NEW bytes \in 0..MaxSize, NEW at, NEW next,
             MakeFreeSpaceOnCache(at, bytes, next), next # "failed"
      PROVE  fault'
  <2>1. bloat = 0 => FreeSpaceOnCache >= bytes
    <3>1. copyLen \in 0..MaxSize /\ MaxSize \in Nat /\ CacheSize \in Nat
      BY <1>t, SizeAssumption DEF TypeOK
    <3>2. CacheSize >= 2 * MaxSize
      BY DEF InPlaceFiles
    <3> QED
      BY <1>3, <3>1, <3>2 DEF FreeSpaceOnCache
  <2>2. FreeSpaceOnCache \in Int /\ bytes \in Int
    BY <1>t, SizeAssumption DEF TypeOK, FreeSpaceOnCache
  <2>3. FreeSpaceOnCache < bytes => bloat # 0
    BY <2>1, <2>2
  <2>4. pc # "failed" \/ fault
    OBVIOUS
  <2> QED
    BY <1>3, <2>3, <2>4 DEF MakeFreeSpaceOnCache
<1>4. CASE ApplyPatchSpace \/ SaveMakeFree
  <2>1. saveSize \in 0..MaxSize /\ MaxSize \in 0..MaxSize
    BY <1>t, SizeAssumption DEF TypeOK
  <2> QED
    BY <1>3, <1>4, <2>1 DEF ApplyPatchSpace, SaveMakeFree
<1>5. CASE AlreadyPatched \/ LoadSource \/ LoadCopy
  BY <1>5 DEF AlreadyPatched, LoadSource, LoadCopy, Generate, Return0
<1>6. CASE LoadFails
  BY <1>6, <1>r, <1>t, ConstantFacts DEF LoadFails, SourceMatches, Loads, Patched
<1>7. CASE PartitionTarget \/ EnoughSpace \/ LowSpace
  BY <1>7 DEF PartitionTarget, EnoughSpace, LowSpace
<1>8. CASE SaveTruncate \/ SaveWrite \/ SaveDone \/ UnlinkSource
  BY <1>8 DEF SaveTruncate, SaveWrite, SaveDone, UnlinkSource
<1>9. CASE SaveNullFails
  BY <1>9 DEF SaveNullFails, FileInv, Saving
<1>10. CASE OpenOutput \/ Patch \/ PatchRetry \/ IoError
  BY <1>10 DEF OpenOutput, Patch, PatchRetry, IoError
<1>11. CASE RenameOutput \/ WriteBegin \/ WriteEnd \/ Cleanup
  BY <1>11 DEF RenameOutput, WriteBegin, WriteEnd, Cleanup, Return0
<1>12. CASE Crash \/ Rerun
  BY <1>12 DEF Crash, Rerun, Restart
<1> QED
  BY <1>1, <1>2, <1>4, <1>5, <1>6, <1>7, <1>8, <1>9, <1>10, <1>11, <1>12
  DEF Next, Run

\* With room for two copies on /cache, a script that patches files in place
\* can be interrupted anywhere, any number of times, and started again: a run
\* that meets no I/O error itself does not fail.
THEOREM Restartable == ASSUME InPlaceFiles PROVE Spec => []RestartNeverFails
<1>1. FileTargets
  BY DEF InPlaceFiles
<1>2. Init => FileInv /\ RestartNeverFails
  BY FileInit DEF Init, RestartNeverFails
<1>3. FileInv /\ RestartNeverFails /\ [Next]_vars => (FileInv /\ RestartNeverFails)'
  BY <1>1, FileStep, RestartStep
<1> QED
  BY <1>2, <1>3, PTL DEF Spec

-----------------------------------------------------------------------------
(* What a step may do to a path. *)

LEMMA OriginalKeptStep ==
    ASSUME FileTargets, FileInv, Next, NEW p \in Path, disk'[p] # disk[p]
    PROVE  \/ \E j \in Jobs : p = Tgt[j] /\ disk'[p] = New[j]
           \/ copy = disk[p] /\ copy' = copy
<1>t. TypeOK /\ job \in Jobs /\ disk \in [Path -> Content] /\ Tgt[job] \notin Partition
  BY DEF FileInv, TypeOK, FileTargets
<1>1. CASE UnlinkSource
  <2>1. p = Src[job] /\ copy' = copy
    BY <1>1, <1>t DEF UnlinkSource
  <2>2. copy = use /\ disk[Src[job]] = use
    BY <1>1 DEF UnlinkSource, FileInv, Saving, Untouched
  <2> QED
    BY <2>1, <2>2
<1>2. CASE RenameOutput \/ WriteBegin \/ WriteEnd
  <2>1. RenameOutput
    BY <1>2, <1>t DEF WriteBegin, WriteEnd, FileInv, Saving
  <2>2. p = Tgt[job] /\ disk'[p] = out
    BY <2>1, <1>t, ConstantFacts DEF RenameOutput
  <2>3. out = New[job]
    BY <2>1 DEF RenameOutput, FileInv, InOrder
  <2> QED
    BY <1>t, <2>2, <2>3
<1>3. ~(UnlinkSource \/ RenameOutput \/ WriteBegin \/ WriteEnd) => disk' = disk
  BY Zenon DEF Next, Run, ApplyPatchCheck, ApplyPatchSpace, SaveMakeFree,
         MakeFreeSpaceOnCache, AlreadyPatched, LoadSource, LoadCopy, LoadFails,
         Generate, PartitionTarget, EnoughSpace, LowSpace, SaveTruncate,
         SaveWrite, SaveNullFails, SaveDone, OpenOutput, Patch, PatchRetry,
         IoError, Cleanup, Crash, Rerun, Restart, Return0, Return1, persistent
<1> QED
  BY <1>1, <1>2, <1>3

\* "The original file is not touched until we have the desired replacement
\* for it", or a copy of it that stays.
THEOREM FilesKept == ASSUME FileTargets PROVE Spec => OriginalKept
<1> DEFINE Kept ==
      \A p \in Path : disk'[p] # disk[p] =>
          \/ \E j \in Jobs : p = Tgt[j] /\ disk'[p] = New[j]
          \/ copy = disk[p] /\ copy' = copy
<1>1. FileInv /\ [Next]_vars => [Kept]_vars
  BY OriginalKeptStep, Zenon
<1>2. OriginalKept <=> [][Kept]_vars
  BY DEF OriginalKept
<1> HIDE DEF Kept
<1> QED
  BY <1>1, <1>2, FileInit, FileStep, PTL DEF Spec

-----------------------------------------------------------------------------
(* The script implements PatchPromise. *)

LEMMA PromiseInit == Init => Promise!Init
BY DEF Init, Promise!Init, Status, Result

\* A step that leaves the targets' status alone either leaves the result alone
\* too or ends or restarts the run, and it ends it well only when all is done.
LEMMA QuietStep ==
    ASSUME FileInv', Status' = Status,
           pc \in {"failed", "done"} => pc' = "check" \/ pc' = pc
    PROVE  [Promise!Next]_<<Status, Result>>
<1>1. pc' = "done" => \A j \in Jobs : Status'[j] = "new"
  <2> SUFFICES ASSUME pc' = "done", NEW j \in Jobs PROVE Patched(j)'
    BY DEF Status
  <2>1. /\ job' = NJobs /\ Patched(job)'
        /\ \A i \in Jobs : i < job' => Patched(i)'
    BY DEF FileInv, InOrder, Patched
  <2>2. j < job' \/ j = job'
    BY <2>1, JobsAssumption
  <2> QED
    BY <2>1, <2>2 DEF Patched
<1>2. CASE pc \in {"failed", "done"}
  BY <1>2 DEF Result, Promise!Next, Promise!RunAgain
<1>3. CASE pc \notin {"failed", "done"} /\ pc' = "done"
  BY <1>1, <1>3 DEF Result, Promise!Next, Promise!Succeed
<1>4. CASE pc \notin {"failed", "done"} /\ pc' = "failed"
  BY <1>4 DEF Result, Promise!Next, Promise!Fail
<1>5. CASE pc \notin {"failed", "done"} /\ pc' \notin {"failed", "done"}
  BY <1>5 DEF Result
<1> QED
  BY <1>2, <1>3, <1>4, <1>5

LEMMA PromiseStep ==
    ASSUME FileTargets, FileInv, FileInv', [Next]_vars
    PROVE  [Promise!Next]_<<Status, Result>>
<1>t. TypeOK /\ job \in Jobs /\ Tgt[job] \notin Partition
  BY DEF FileInv, TypeOK, FileTargets
<1>e. pc \in {"failed", "done"} => pc' = "check" \/ pc' = pc
  BY Zenon DEF Next, Run, ApplyPatchCheck, ApplyPatchSpace, SaveMakeFree,
         MakeFreeSpaceOnCache, AlreadyPatched, LoadSource, LoadCopy, LoadFails,
         PartitionTarget, EnoughSpace, LowSpace, SaveTruncate, SaveWrite,
         SaveNullFails, SaveDone, UnlinkSource, OpenOutput, Patch, PatchRetry,
         IoError, RenameOutput, WriteBegin, WriteEnd, Cleanup, Crash, Rerun,
         Restart, vars
<1>1. CASE disk' = disk
  <2>1. Status' = Status
    BY <1>1, Zenon DEF Status, Patched
  <2> QED
    BY <2>1, <1>e, QuietStep
<1>2. CASE UnlinkSource
  <2>1. \A i \in Jobs : i # job => disk'[Tgt[i]] = disk[Tgt[i]]
    BY <1>2, <1>t, OtherJobsUntouched, SMTT(30) DEF UnlinkSource
  <2>2. ~Patched(job) /\ ~Patched(job)'
    <3>1. ~Patched(job)
      BY <1>2, Zenon DEF UnlinkSource, FileInv, Saving, Untouched
    <3>2. disk'[Tgt[job]] \in {disk[Tgt[job]], Absent} /\ job' = job
      <4>1. Tgt[job] \in Path /\ Src[job] \in Path /\ disk \in [Path -> Content]
        BY <1>t, ConstantFacts, SMTT(30) DEF TypeOK
      <4> QED
        BY <1>2, <4>1, SMTT(30) DEF UnlinkSource
    <3> QED
      BY <3>1, <3>2, <1>t, ConstantFacts DEF Patched
  <2>3. Status' = Status
    BY <1>2, <2>1, <2>2 DEF Status, Patched, UnlinkSource
  <2> QED
    BY <2>3, <1>e, QuietStep
<1>3. CASE RenameOutput
  <2>1. pc = "install" /\ pc' = "cleanup"
    BY <1>3 DEF RenameOutput
  <2>2. /\ \A i \in Jobs : i # job => disk'[Tgt[i]] = disk[Tgt[i]]
        /\ disk'[Tgt[job]] = New[job]
    BY <1>3, <1>t, OtherJobsUntouched, Zenon DEF RenameOutput, FileInv, InOrder
  <2>3. CASE Patched(job)
    <3>1. Status' = Status
      BY <2>2, <2>3 DEF Status, Patched
    <3> QED
      BY <3>1, <1>e, QuietStep
  <2>4. CASE ~Patched(job)
    <3>1. Status' = [Status EXCEPT ![job] = "new"]
      BY <1>t, <2>2, <2>4, Zenon DEF Status, Patched
    <3>2. Status[job] = "old" /\ \A i \in Jobs : i < job => Status[i] = "new"
      <4>1. \A i \in Jobs : i < job => Patched(i)
        BY <2>1 DEF FileInv, InOrder
      <4> QED
        BY <1>t, <2>4, <4>1 DEF Status
    <3>3. \A i \in 1..(job - 1) : i \in Jobs /\ i < job
      BY <1>t, JobsAssumption
    <3>4. Promise!Replace(job)
      BY <2>1, <3>1, <3>2, <3>3 DEF Promise!Replace, Result
    <3> QED
      BY <1>t, <3>4 DEF Promise!Next
  <2> QED
    BY <2>3, <2>4
<1>4. CASE WriteBegin \/ WriteEnd
  BY <1>4, <1>t DEF WriteBegin, WriteEnd, FileInv, Saving
<1>5. ~(UnlinkSource \/ RenameOutput \/ WriteBegin \/ WriteEnd) => disk' = disk
  BY Zenon DEF Next, Run, ApplyPatchCheck, ApplyPatchSpace, SaveMakeFree,
         MakeFreeSpaceOnCache, AlreadyPatched, LoadSource, LoadCopy, LoadFails,
         Generate, PartitionTarget, EnoughSpace, LowSpace, SaveTruncate,
         SaveWrite, SaveNullFails, SaveDone, OpenOutput, Patch, PatchRetry,
         IoError, Cleanup, Crash, Rerun, Restart, Return0, Return1, persistent,
         vars
<1> QED
  BY <1>1, <1>2, <1>3, <1>4, <1>5

\* As long as no target is a partition, the script keeps its promise: targets
\* are replaced whole, in order and for good, and success means all of them.
THEOREM KeepsPromise == ASSUME FileTargets PROVE Spec => PromiseKept
<1>1. Init => Promise!Init
  BY PromiseInit
<1>2. FileInv /\ FileInv' /\ [Next]_vars => [Promise!Next]_<<Status, Result>>
  BY PromiseStep
<1> QED
  BY <1>1, <1>2, FileInit, FileStep, PTL DEF Spec, PromiseKept, Promise!Spec
-----------------------------------------------------------------------------
(* Partitions. *)

\* The way to WriteToPartition leads through SaveFileContents, and the copy is complete
\* when the output is opened.
Backing ==
    /\ pc \in Generating \cup {"writing"} /\ ~fromCopy =>
           use \in Sources[job] /\ saveSize = Size[use]
    /\ pc = "save" /\ ~fromCopy /\ copyLen = saveSize => copy = use
    /\ pc \in {"open", "patch", "install", "writing"} /\ Tgt[job] \in Partition /\ ~fromCopy
           => copy = use
    /\ pc = "writing" => Tgt[job] \in Partition
    /\ pc = "unlink" => Tgt[job] \notin Partition

LEMMA SizesNotZero == \A c \in Content : Size[c] # 0
BY SizeAssumption

LEMMA BackingStep ==
    ASSUME TypeOK, Backing, [Next]_vars PROVE Backing'
<1> USE DEF Backing, Generating
<1>j. job \in Jobs /\ fromCopy \in BOOLEAN
  BY Zenon DEF TypeOK
<1>1. CASE ApplyPatchCheck
  BY <1>1, Zenon DEF ApplyPatchCheck, Return1
<1>2. CASE AlreadyPatched
  BY <1>2 DEF AlreadyPatched, Return0
<1>3. CASE LoadFails
  BY <1>3 DEF LoadFails, Return1
<1>4. CASE ApplyPatchSpace
  BY <1>4 DEF ApplyPatchSpace, MakeFreeSpaceOnCache
<1>5. CASE SaveMakeFree
  BY <1>5 DEF SaveMakeFree, MakeFreeSpaceOnCache, local
<1>6. CASE LoadSource
  BY <1>6, <1>j DEF LoadSource, Generate, SourceMatches, persistent
<1>7. CASE LoadCopy
  BY <1>7 DEF LoadCopy, Generate
<1>8. CASE PartitionTarget
  BY <1>8, <1>j DEF PartitionTarget, persistent
<1>9. CASE EnoughSpace
  BY <1>9, <1>j DEF EnoughSpace, persistent, local
<1>10. CASE LowSpace
  BY <1>10, <1>j DEF LowSpace, persistent
<1>11. CASE SaveTruncate
  <2>1. ~fromCopy => saveSize # 0
    <3>1. ~fromCopy => use \in Content /\ saveSize = Size[use]
      BY <1>11, <1>j, ConstantFacts DEF SaveTruncate
    <3> QED
      BY <3>1, SizesNotZero
  <2> QED
    BY <1>11, <2>1 DEF SaveTruncate, local
<1>12. CASE SaveWrite
  BY <1>12, <1>j DEF SaveWrite, local
<1>13. CASE SaveNullFails
  BY <1>13 DEF SaveNullFails, Return1
<1>14. CASE SaveDone
  BY <1>14, <1>j DEF SaveDone, persistent
<1>15. CASE UnlinkSource
  BY <1>15 DEF UnlinkSource, local
<1>16. CASE OpenOutput
  BY <1>16 DEF OpenOutput, persistent
<1>17. CASE Patch
  BY <1>17 DEF Patch, persistent
<1>18. CASE PatchRetry
  BY <1>18 DEF PatchRetry, persistent
<1>19. CASE IoError
  BY <1>19 DEF IoError, Return1
<1>20. CASE RenameOutput
  BY <1>20 DEF RenameOutput
<1>21. CASE WriteBegin
  BY <1>21 DEF WriteBegin, local
<1>22. CASE WriteEnd
  BY <1>22 DEF WriteEnd, local
<1>23. CASE Cleanup
  BY <1>23 DEF Cleanup, Return0
<1>24. CASE Crash \/ Rerun
  BY <1>24 DEF Crash, Rerun, Restart
<1>25. CASE UNCHANGED vars
  BY <1>25 DEF vars, persistent, local
<1> HIDE DEF Backing
<1> QED
  BY <1>1, <1>2, <1>3, <1>4, <1>5, <1>6, <1>7, <1>8, <1>9, <1>10, <1>11, <1>12,
     <1>13, <1>14, <1>15, <1>16, <1>17, <1>18, <1>19, <1>20, <1>21, <1>22, <1>23,
     <1>24, <1>25 DEF Next, Run

\* GenerateTarget writes "the original source to cache, in case the partition write is
\* interrupted": while WriteToPartition runs on what was read from the source itself, the
\* copy holds it, whole, and it is contents the job has a patch for.  For every list of
\* files and partitions, and every size of /cache.
THEOREM PartitionIsBackedUp == Spec => []PartitionBackedUp
<1>1. Init => Backing
  BY DEF Init, Backing, Generating
<1>2. Backing => PartitionBackedUp
  BY DEF Backing, PartitionBackedUp
<1> QED
  BY <1>1, <1>2, TypeInit, TypeStep, BackingStep, PTL DEF Spec

-----------------------------------------------------------------------------
(* EmmcWrite: WriteToPartition on EMMC, for data of any length and any     *)
(* number of attempts.                                                     *)

USE EmmcAssumption DEF Pages

\* The type invariant of the EMMC branch of WriteToPartition.
THEOREM EmmcTypeCorrect == EmmcSpec => []EmmcTypeOK
<1>1. EmmcInit => EmmcTypeOK
  <2> SUFFICES ASSUME EmmcInit PROVE EmmcTypeOK
    OBVIOUS
  <2>1. dropped \in BOOLEAN /\ deviceFault \in BOOLEAN
    BY Zenon DEF EmmcInit
  <2>2. start \in 0..NPages /\ page \in 0..NPages /\ attempt \in 0..Attempts /\ attempt < Attempts
    BY SMTT(30) DEF EmmcInit
  <2> QED BY <2>1, <2>2 DEF EmmcInit, EmmcTypeOK
<1>2. EmmcTypeOK /\ [EmmcNext]_emmcVars => EmmcTypeOK'
  <2> SUFFICES ASSUME EmmcTypeOK, [EmmcNext]_emmcVars PROVE EmmcTypeOK'
    OBVIOUS
  <2> USE DEF EmmcTypeOK
  <2>1. CASE WritePage
    <3>1. dropped' \in BOOLEAN /\ deviceFault' \in BOOLEAN
      BY <2>1, Zenon DEF WritePage
    <3>2. medium' \in [Pages -> {"same", "differs"}] /\ cached' \in [Pages -> {"no", "same", "differs"}]
      BY <2>1 DEF WritePage
    <3>3. start' \in 0..NPages /\ page' \in 0..NPages /\ attempt' \in 0..Attempts
      BY <2>1 DEF WritePage
    <3> QED BY <2>1, <3>1, <3>2, <3>3 DEF WritePage
  <2>2. CASE WriteDone
    BY <2>2 DEF WriteDone
  <2>3. CASE DropCaches
    <3>1. dropped' \in BOOLEAN /\ deviceFault' \in BOOLEAN
      BY <2>3, Zenon DEF DropCaches
    <3>2. medium' \in [Pages -> {"same", "differs"}] /\ cached' \in [Pages -> {"no", "same", "differs"}]
      BY <2>3 DEF DropCaches
    <3>3. start' \in 0..NPages /\ page' \in 0..NPages /\ attempt' \in 0..Attempts
      BY <2>3 DEF DropCaches
    <3> QED BY <2>3, <3>1, <3>2, <3>3 DEF DropCaches
  <2>4. CASE VerifySame
    BY <2>4 DEF VerifySame, PageRead
  <2>5. CASE VerifyDiffers
    <3>1. dropped' \in BOOLEAN /\ deviceFault' \in BOOLEAN
      BY <2>5, Zenon DEF VerifyDiffers
    <3>2. medium' \in [Pages -> {"same", "differs"}] /\ cached' \in [Pages -> {"no", "same", "differs"}]
      BY <2>5 DEF VerifyDiffers
    <3>3. start' \in 0..NPages /\ page' \in 0..NPages /\ attempt' \in 0..Attempts
      BY <2>5 DEF VerifyDiffers
    <3> QED BY <2>5, <3>1, <3>2, <3>3 DEF VerifyDiffers
  <2>6. CASE VerifyDone
    BY <2>6 DEF VerifyDone
  <2>7. CASE CloseFd
    BY <2>7 DEF CloseFd
  <2>8. CASE EmmcError
    BY <2>8 DEF EmmcError
  <2>9. CASE PowerCut
    <3>1. dropped' \in BOOLEAN /\ deviceFault' \in BOOLEAN
      BY <2>9, Zenon DEF PowerCut
    <3>2. medium' \in [Pages -> {"same", "differs"}] /\ cached' \in [Pages -> {"no", "same", "differs"}]
      BY <2>9 DEF PowerCut
    <3>3. start' \in 0..NPages /\ page' \in 0..NPages /\ attempt' \in 0..Attempts
      BY <2>9 DEF PowerCut
    <3> QED BY <2>9, <3>1, <3>2, <3>3 DEF PowerCut
  <2>10. CASE UNCHANGED emmcVars
    BY <2>10 DEF emmcVars
  <2> QED BY <2>1, <2>2, <2>3, <2>4, <2>5, <2>6, <2>7, <2>8, <2>9, <2>10 DEF EmmcNext, EmmcRun
<1> QED BY <1>1, <1>2, PTL DEF EmmcSpec

-----------------------------------------------------------------------------
(* EmmcSuccess. *)

\* Since the caches were dropped, a page that reads the same is the same on the
\* medium, and so are all pages before p.
Verified ==
    dropped /\ step \in {"verify", "close", "done"} =>
        /\ \A q \in Pages : cached[q] = "same" => medium[q] = "same"
        /\ \A q \in Pages : q < page => medium[q] = "same"
        /\ step # "verify" => page = NPages

LEMMA VerifiedStep == EmmcTypeOK /\ Verified /\ [EmmcNext]_emmcVars => Verified'
<1> SUFFICES ASSUME EmmcTypeOK, Verified, [EmmcNext]_emmcVars PROVE Verified'
  OBVIOUS
<1> USE DEF EmmcTypeOK, Verified
<1>1. CASE WritePage \/ WriteDone
  BY <1>1, Zenon DEF WritePage, WriteDone
<1>2. CASE DropCaches
  BY <1>2 DEF DropCaches
<1>3. CASE VerifySame
  <2> SUFFICES ASSUME dropped PROVE Verified'
    BY <1>3 DEF VerifySame
  <2>1. medium[page] = "same"
    BY <1>3 DEF VerifySame, PageRead
  <2> QED BY <1>3, <2>1 DEF VerifySame
<1>4. CASE VerifyDiffers
  BY <1>4 DEF VerifyDiffers
<1>5. CASE VerifyDone \/ CloseFd
  BY <1>5, Zenon DEF VerifyDone, CloseFd
<1>6. CASE EmmcError \/ PowerCut
  BY <1>6 DEF EmmcError, PowerCut
<1>7. CASE UNCHANGED emmcVars
  BY <1>7 DEF emmcVars
<1> QED BY <1>1, <1>2, <1>3, <1>4, <1>5, <1>6, <1>7 DEF EmmcNext, EmmcRun

\* When WriteToPartition returns 0 and the caches could be dropped, the data is
\* on the medium.
THEOREM EmmcSuccess == EmmcSpec => []SuccessOnMedium
<1>1. EmmcInit => Verified
  BY DEF EmmcInit, Verified
<1>2. EmmcTypeOK /\ Verified => SuccessOnMedium
  BY DEF EmmcTypeOK, Verified, SuccessOnMedium
<1> QED BY <1>1, <1>2, EmmcTypeCorrect, VerifiedStep, PTL DEF EmmcSpec

-----------------------------------------------------------------------------
(* Failure. *)

\* As long as the device made no error, what was written is on the medium and
\* the cache agrees with the medium.
Honest ==
    ~deviceFault =>
        /\ step # "failed"
        /\ \A q \in Pages : cached[q] \in {"no", medium[q]}
        /\ \A q \in Pages : q < start => medium[q] = "same"

LEMMA HonestStep == EmmcTypeOK /\ Honest /\ [EmmcNext]_emmcVars => Honest'
<1> SUFFICES ASSUME EmmcTypeOK, Honest, [EmmcNext]_emmcVars PROVE Honest'
  OBVIOUS
<1> USE DEF EmmcTypeOK, Honest
<1>1. CASE WritePage
  BY <1>1 DEF WritePage
<1>2. CASE WriteDone \/ VerifyDone \/ CloseFd
  BY <1>2 DEF WriteDone, VerifyDone, CloseFd
<1>3. CASE DropCaches
  BY <1>3 DEF DropCaches
<1>4. CASE VerifySame
  BY <1>4 DEF VerifySame, PageRead
<1>5. CASE VerifyDiffers
  <2>1. ~deviceFault => PageRead(page) = "same"
    BY <1>5 DEF VerifyDiffers, PageRead
  <2> QED BY <1>5, <2>1 DEF VerifyDiffers
<1>6. CASE EmmcError \/ PowerCut
  BY <1>6 DEF EmmcError, PowerCut
<1>7. CASE UNCHANGED emmcVars
  BY <1>7 DEF emmcVars
<1> QED BY <1>1, <1>2, <1>3, <1>4, <1>5, <1>6, <1>7 DEF EmmcNext, EmmcRun

\* On a device that makes no error, WriteToPartition does not fail.
THEOREM EmmcNoFalseFailure == EmmcSpec => []FailsOnlyIfFaulty
<1>1. EmmcInit => Honest
  BY DEF EmmcInit, Honest
<1>2. Honest => FailsOnlyIfFaulty
  BY DEF Honest, FailsOnlyIfFaulty
<1> QED BY <1>1, <1>2, EmmcTypeCorrect, HonestStep, PTL DEF EmmcSpec
=============================================================================
