----------------------------- MODULE EmmcWrite ------------------------------
(***************************************************************************)
(* The EMMC branch of WriteToPartition (applypatch/applypatch.c): write    *)
(* the data page by page, read it back, and write again from the first     *)
(* page that differs.  ApplyPatch takes all of this as one step.           *)
(*                                                                         *)
(* Between the program and the medium is the kernel's page cache.  Reading *)
(* back proves nothing about a page that is still cached, which is why the *)
(* code drops the caches first, without looking whether that worked.       *)
(***************************************************************************)
EXTENDS Integers

CONSTANTS
    NPages,     \* len, in pages of 4096 bytes
    Attempts    \* the 10 of the loop over attempt

ASSUME EmmcAssumption == NPages \in Nat \ {0} /\ Attempts \in Nat \ {0}

Pages == 0..(NPages - 1)

VARIABLES
    medium,     \* does the page on the medium equal the data? (persistent)
    cached,     \* is the page in the page cache, and if so, as what?
    dropped,    \* the last attempt did drop the caches
    start,      \* where the next write goes
    page,       \* the page to be read back next
    attempt,
    deviceFault, \* history: this run met an error of the device or the kernel
    step

emmcVars == <<medium, cached, dropped, start, page, attempt, deviceFault, step>>

\* The type invariant: every variable has its type; start is the end of the
\* data while it is being read back, and there is an attempt left until the
\* last has failed.
EmmcTypeOK ==
    /\ medium \in [Pages -> {"same", "differs"}]
    /\ cached \in [Pages -> {"no", "same", "differs"}]
    /\ dropped \in BOOLEAN /\ deviceFault \in BOOLEAN
    /\ start \in 0..NPages /\ page \in 0..NPages
    /\ attempt \in 0..Attempts
    /\ step \in {"write", "drop", "verify", "close", "done", "failed"}
    /\ step \in {"drop", "verify", "close", "done"} => start = NPages
    /\ step # "failed" => attempt < Attempts

\* open: nothing has been written, and pages may be in the cache as they are.
EmmcInit ==
    /\ medium \in [Pages -> {"same", "differs"}]
    /\ cached \in [Pages -> {"no", "same", "differs"}]
    /\ \A q \in Pages : cached[q] \in {"no", medium[q]}
    /\ dropped = FALSE /\ start = 0 /\ page = 0 /\ attempt = 0 /\ deviceFault = FALSE
    /\ step = "write"

-----------------------------------------------------------------------------
\* write(fd, data+start, to_write) under O_SYNC.  What the cache holds is
\* right; the medium may take it wrongly without telling.
WritePage ==
    /\ step = "write" /\ start < NPages
    /\ \/ medium' = [medium EXCEPT ![start] = "same"] /\ deviceFault' = deviceFault
       \/ medium' = [medium EXCEPT ![start] = "differs"] /\ deviceFault' = TRUE
    /\ cached' = [cached EXCEPT ![start] = "same"]
    /\ start' = start + 1
    /\ UNCHANGED <<dropped, page, attempt, step>>

\* Mistake: the last page is left out.
WriteDone_OffByOne ==
    /\ step = "write" /\ start >= NPages - 1
    /\ start' = NPages
    /\ step' = "drop"
    /\ UNCHANGED <<medium, cached, dropped, page, attempt, deviceFault>>

\* fsync, after the last page.
WriteDone ==
    /\ step = "write" /\ start = NPages
    /\ step' = "drop"
    /\ UNCHANGED <<medium, cached, dropped, start, page, attempt, deviceFault>>

\* Mistake: the caches are not dropped.
DropCaches_Not ==
    /\ step = "drop"
    /\ dropped' = TRUE
    /\ page' = 0
    /\ step' = "verify"
    /\ UNCHANGED <<medium, cached, start, attempt, deviceFault>>

\* "drop caches so our subsequent verification read won't just be reading the
\* cache": the results of open and write are not looked at.
DropCaches ==
    /\ step = "drop"
    /\ \/ dropped' = TRUE /\ cached' = [q \in Pages |-> "no"] /\ deviceFault' = deviceFault
       \/ dropped' = FALSE /\ UNCHANGED cached /\ deviceFault' = TRUE
    /\ page' = 0
    /\ step' = "verify"
    /\ UNCHANGED <<medium, start, attempt>>

\* What read gives for page q, when there is no error.
PageRead(q) == IF cached[q] = "no" THEN medium[q] ELSE cached[q]

VerifySame ==
    /\ step = "verify" /\ page < NPages /\ PageRead(page) = "same"
    /\ cached' = [cached EXCEPT ![page] = PageRead(page)]
    /\ page' = page + 1
    /\ UNCHANGED <<medium, dropped, start, attempt, deviceFault, step>>

\* "verification failed starting at": the next attempt starts there; after
\* the last one, "failed to verify after all attempts".  A page may also be
\* read wrongly.
VerifyDiffers ==
    /\ step = "verify" /\ page < NPages
    /\ \/ PageRead(page) = "differs" /\ deviceFault' = deviceFault
       \/ deviceFault' = TRUE
    /\ cached' = [cached EXCEPT ![page] = "differs"]
    /\ start' = page
    /\ attempt' = attempt + 1
    /\ step' = IF attempt' < Attempts THEN "write" ELSE "failed"
    /\ UNCHANGED <<medium, dropped, page>>

VerifyDone ==
    /\ step = "verify" /\ page = NPages
    /\ step' = "close"
    /\ UNCHANGED <<medium, cached, dropped, start, page, attempt, deviceFault>>

\* close, sync, sleep; return 0.
CloseFd ==
    /\ step = "close"
    /\ step' = "done"
    /\ UNCHANGED <<medium, cached, dropped, start, page, attempt, deviceFault>>

\* An error of write, of read, or of close: return -1.
EmmcError ==
    /\ step \in {"write", "verify", "close"}
    /\ deviceFault' = TRUE
    /\ step' = "failed"
    /\ UNCHANGED <<medium, cached, dropped, start, page, attempt>>

\* Power is lost, and WriteToPartition is called again after the next boot.
\* The page being written may be torn.
PowerCut ==
    /\ step \notin {"done", "failed"}
    /\ \/ UNCHANGED medium
       \/ /\ step = "write" /\ start < NPages
          /\ medium' = [medium EXCEPT ![start] = "differs"]
    /\ cached' = [q \in Pages |-> "no"]
    /\ dropped' = FALSE /\ start' = 0 /\ page' = 0 /\ attempt' = 0 /\ deviceFault' = FALSE
    /\ step' = "write"

EmmcRun ==
    \/ WritePage \/ WriteDone \/ DropCaches
    \/ VerifySame \/ VerifyDiffers \/ VerifyDone \/ CloseFd

EmmcNext == EmmcRun \/ EmmcError \/ PowerCut

EmmcSpec == EmmcInit /\ [][EmmcNext]_emmcVars

-----------------------------------------------------------------------------
(* Properties. *)

\* "Return 0 on success": the data is on the medium, wherever earlier attempts
\* and earlier runs stopped.  Only if the caches could not be dropped does the
\* result rest on what they held.
SuccessOnMedium ==
    step = "done" /\ dropped => \A q \in Pages : medium[q] = "same"

\* "failed to verify after all attempts": on a device that makes no error the
\* first attempt succeeds, whatever a power cut left there.
FailsOnlyIfFaulty == step = "failed" => deviceFault

=============================================================================
