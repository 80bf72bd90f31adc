------------------------------ MODULE MtdUtils ------------------------------
(***************************************************************************)
(* mtdutils/mtdutils.c: reading, writing and erasing raw flash, block by   *)
(* block, around blocks that are bad; with the programs that use it to     *)
(* write a partition (the clients):                                        *)
(*   "partition"  WriteToPartition of applypatch.c, on MTD                 *)
(*   "bcb"        set_bootloader_message_mtd of bootloader.cpp             *)
(*   "format"     format_volume of roots.cpp, FormatFn of the updater      *)
(*   "raw"        WriteRawImageFn of the updater                           *)
(*   "flash"      flash_image.c                                            *)
(* One client runs at a time, on a partition of NBlocks erase blocks.      *)
(* Sizes are in units of which an erase block has EraseSize.  A flash page *)
(* is a unit: a power cut leaves a block programmed up to some unit.       *)
(***************************************************************************)
EXTENDS Integers, Sequences, FiniteSets, Functions

CONSTANTS
    NBlocks,    \* partition->size / partition->erase_size
    EraseSize,  \* partition->erase_size
    HeaderSize, \* HEADER_SIZE of flash_image.c
    BufSize,    \* BUFSIZ, the chunk WriteRawImageFn reads
    Images,     \* the data that may be written: sequences of units > 0
    Clients,    \* the programs that may run
    MaxFaults,  \* bound on the errors the driver reports or the flash makes
    MaxCuts     \* bound on the number of power cuts

Zero  == 0      \* a unit of padding
Blank == -1     \* a unit that is erased
Old   == -2     \* a unit of what was there before

Blocks == 0..(NBlocks - 1)

ASSUME SizesAssumption ==
    /\ NBlocks \in Nat \ {0} /\ EraseSize \in Nat \ {0}
    /\ HeaderSize \in 1..EraseSize /\ BufSize \in Nat \ {0}
    /\ MaxFaults \in Nat /\ MaxCuts \in Nat
    /\ Clients \subseteq {"partition", "bcb", "format", "raw", "flash"}
    /\ \A i \in Images : i \in Seq(Nat \ {0}) /\ i # <<>>

VARIABLES
    flash,   \* contents of every block (persistent)
    bad,     \* the blocks the driver reports as bad (persistent)
    client,  \* the program that runs
    image,   \* the data it is to write
    pc,      \* where it is, "end" when it has returned
    fpos,    \* how much of the image it has read
    success, \* its result, when at the end; before that WriteRawImageFn's flag
    ret,     \* result of the library call that has returned: 0, -1; 1 if none has
    ctx,     \* MtdWriteContext: fd's position, pending data, bad_block_offsets
    call,    \* the library call in progress
    wb,      \* write_block in progress
    worn,    \* history: the blocks skipped without being reported bad
    faults,  \* errors so far
    cuts     \* power cuts so far

vars == <<flash, bad, worn, client, image, pc, fpos, success, ret, ctx, call, wb, faults, cuts>>
program == <<client, image, pc, fpos, success>>

NoCall == [fn |-> "none", rest |-> <<>>, blocks |-> 0]
NoBlock == [ph |-> "idle", data |-> <<>>, pos |-> 0, retry |-> 0]
FreshCtx == [pos |-> 0, stored |-> <<>>, badBlocks |-> <<>>]

Unit == {Zero, Blank, Old} \cup UNION {Range(i) : i \in Images}
Steps == {"begin", "data", "erase", "undo", "close", "pass1", "close1", "pass2", "end"}
Phases == {"idle", "test", "erase", "program", "verify", "giveup"}

\* The type invariant: every variable has its type, no more than a block is
\* pending, and write_block always has a whole block to write.
TypeOK ==
    /\ flash \in [Blocks -> [1..EraseSize -> Unit]]
    /\ bad \in SUBSET Blocks /\ worn \in SUBSET Blocks
    /\ client \in Clients /\ image \in Images /\ pc \in Steps
    /\ fpos \in 0..Len(image) /\ success \in BOOLEAN /\ ret \in {-1, 0, 1}
    /\ ctx \in [pos : 0..NBlocks, stored : Seq(Unit), badBlocks : Seq(Blocks)]
    /\ Len(ctx.stored) <= EraseSize
    /\ call \in [fn : {"none", "data", "erase"}, rest : Seq(Unit), blocks : {-1, 0}]
    /\ wb \in [ph : Phases, data : Seq(Unit), pos : 0..NBlocks, retry : 0..1]
    /\ wb.ph # "idle" => Len(wb.data) = EraseSize
    /\ faults \in 0..MaxFaults /\ cuts \in 0..MaxCuts

Filled(x, n) == [i \in 1..n |-> x]

Init ==
    /\ flash = [b \in Blocks |-> Filled(Old, EraseSize)]
    /\ bad \in SUBSET Blocks /\ worn = {}
    /\ client \in Clients /\ image \in Images
    /\ pc = "begin" /\ fpos = 0 /\ success = TRUE /\ ret = 1
    /\ ctx = FreshCtx /\ call = NoCall /\ wb = NoBlock
    /\ faults = 0 /\ cuts = 0

-----------------------------------------------------------------------------
(* The flash. *)

\* Block b is the one that mtd_read_data reads after r others if read_block skips the
\* blocks in skip.
IsNth(skip, r, b) == b \in Blocks \ skip /\ Cardinality({c \in Blocks \ skip : c < b}) = r

Take(s, n) == SubSeq(s, 1, IF n < Len(s) THEN n ELSE Len(s))
Drop(s, n) == SubSeq(s, n + 1, Len(s))

\* What programming a blank block with data leaves when it stops after n units.
Programmed(data, n) == Take(data, n) \o Filled(Blank, EraseSize - n)

Put(b, contents) == flash' = [flash EXCEPT ![b] = contents]

\* Something goes wrong in the flash or its driver.
Fault == faults < MaxFaults /\ faults' = faults + 1
NoFault == faults' = faults

-----------------------------------------------------------------------------
(* write_block: find a block, from the position of fd on, that takes the   *)
(* data and gives it back.                                                 *)

StartBlock(data) ==
    wb' = [ph |-> "test", data |-> data, pos |-> ctx.pos, retry |-> 0]

\* Mistake: the last block is left out.
WriteBlockFull_OffByOne ==
    /\ wb.ph = "test" /\ wb.pos + 1 >= NBlocks
    /\ ret' = -1 /\ wb' = NoBlock /\ call' = NoCall
    /\ UNCHANGED <<flash, bad, worn, program, ctx, faults, cuts>>

\* "Ran out of space on the device": every caller up to the client returns -1.
WriteBlockFull ==
    /\ wb.ph = "test" /\ wb.pos + 1 > NBlocks
    /\ ret' = -1 /\ wb' = NoBlock /\ call' = NoCall
    /\ UNCHANGED <<flash, bad, worn, program, ctx, faults, cuts>>

\* MEMGETBADBLOCK: the block is bad, or the driver cannot tell.
SkipBadBlock ==
    /\ wb.ph = "test" /\ wb.pos < NBlocks
    /\ IF wb.pos \in bad THEN NoFault ELSE Fault
    /\ ctx' = [ctx EXCEPT !.badBlocks = Append(@, wb.pos)]
    /\ worn' = worn \cup ({wb.pos} \ bad)
    /\ wb' = [wb EXCEPT !.pos = @ + 1]
    /\ UNCHANGED <<flash, bad, program, ret, call, cuts>>

GoodBlock ==
    /\ wb.ph = "test" /\ wb.pos < NBlocks /\ wb.pos \notin bad
    /\ wb' = [wb EXCEPT !.ph = "erase", !.retry = 0]
    /\ UNCHANGED <<flash, bad, worn, program, ret, ctx, call, faults, cuts>>

\* continue of the loop of two attempts.
Attempt ==
    wb' = [wb EXCEPT !.ph = IF wb.retry = 0 THEN "erase" ELSE "giveup", !.retry = 1]

EraseBlock ==
    /\ wb.ph = "erase"
    /\ \/ Put(wb.pos, Filled(Blank, EraseSize)) /\ wb' = [wb EXCEPT !.ph = "program"] /\ NoFault
       \/ Attempt /\ Fault /\ UNCHANGED flash
    /\ UNCHANGED <<bad, worn, program, ret, ctx, call, cuts>>

\* write: an error is only printed.
ProgramBlock ==
    /\ wb.ph = "program"
    /\ \/ Put(wb.pos, wb.data) /\ NoFault
       \/ \E n \in 0..(EraseSize - 1) : Put(wb.pos, Programmed(wb.data, n)) /\ Fault
    /\ wb' = [wb EXCEPT !.ph = "verify"]
    /\ UNCHANGED <<bad, worn, program, ret, ctx, call, cuts>>

\* write_block returns 0: mtd_write_data or mtd_erase_blocks goes on.  The
\* data was in ctx->buffer exactly when something is stored.
BlockWritten ==
    /\ wb' = NoBlock
    /\ ctx' = [ctx EXCEPT !.pos = wb.pos + 1, !.stored = <<>>]
    /\ call' = IF ctx.stored = <<>> THEN [call EXCEPT !.rest = Drop(@, EraseSize)] ELSE call

\* Mistake: the block is not compared with the data.
VerifyBlock_NoCompare ==
    /\ wb.ph = "verify"
    /\ BlockWritten /\ NoFault
    /\ UNCHANGED <<flash, bad, worn, program, ret, cuts>>

\* The block is read back.  A read that fails leaves fd at its beginning.
VerifyBlock ==
    /\ wb.ph = "verify"
    /\ \/ flash[wb.pos] = wb.data /\ BlockWritten /\ NoFault
       \/ /\ flash[wb.pos] # wb.data /\ Attempt /\ NoFault
          /\ ctx' = [ctx EXCEPT !.pos = wb.pos + 1] /\ UNCHANGED call
       \/ /\ Attempt /\ Fault
          /\ ctx' = [ctx EXCEPT !.pos = wb.pos] /\ UNCHANGED call
    /\ UNCHANGED <<flash, bad, worn, program, ret, cuts>>

\* "Try to erase it once more as we give up on this block"; the result is
\* ignored, and the driver is not told that the block is bad.
GiveUp ==
    /\ wb.ph = "giveup"
    /\ \/ Put(wb.pos, Filled(Blank, EraseSize)) /\ NoFault
       \/ Fault /\ UNCHANGED flash
    /\ ctx' = [ctx EXCEPT !.badBlocks = Append(@, wb.pos)]
    /\ worn' = worn \cup ({wb.pos} \ bad)
    /\ wb' = [wb EXCEPT !.ph = "test", !.pos = @ + 1]
    /\ UNCHANGED <<bad, program, ret, call, cuts>>

-----------------------------------------------------------------------------
(* mtd_write_data and mtd_erase_blocks, up to the next block of theirs.    *)

Return(r) == ret' = r /\ call' = NoCall

\* mtd_write_data: coalesce partial writes into complete blocks.
WriteData ==
    /\ call.fn = "data" /\ wb.ph = "idle"
    /\ LET coalesce == ctx.stored # <<>> \/ Len(call.rest) < EraseSize
           n == IF coalesce THEN Len(Take(call.rest, EraseSize - Len(ctx.stored))) ELSE 0
           stored == ctx.stored \o Take(call.rest, n)
           rest == Drop(call.rest, n)
       IN  /\ ctx' = [ctx EXCEPT !.stored = stored]
           /\ \/ Len(stored) = EraseSize /\ StartBlock(stored)
                 /\ call' = [call EXCEPT !.rest = rest] /\ UNCHANGED ret
              \/ stored = <<>> /\ Len(rest) >= EraseSize
                 /\ StartBlock(Take(rest, EraseSize))
                 /\ call' = [call EXCEPT !.rest = rest] /\ UNCHANGED ret
              \/ Len(stored) < EraseSize /\ rest = <<>> /\ Return(0) /\ UNCHANGED wb
    /\ UNCHANGED <<flash, bad, worn, program, faults, cuts>>

\* mtd_erase_blocks, first part: pad and write what is pending.
PadBlock ==
    /\ call.fn = "erase" /\ wb.ph = "idle"
    /\ ctx.stored # <<>>
    /\ StartBlock(ctx.stored \o Filled(Zero, EraseSize - Len(ctx.stored)))
    /\ UNCHANGED <<flash, bad, worn, program, ret, ctx, call, faults, cuts>>

\* The blocks mtd_erase_blocks erases after that: from the position of fd on,
\* all of them or none (no caller passes anything but -1 and 0), except those
\* reported bad.
ToErase == {b \in Blocks : call.blocks < 0 /\ b >= ctx.pos /\ b \notin bad}
Erased(s) == [b \in Blocks |-> IF b \in s THEN Filled(Blank, EraseSize) ELSE flash[b]]

\* Second part, in one step.  An erase that fails is only printed.
EraseBlocks ==
    /\ call.fn = "erase" /\ wb.ph = "idle"
    /\ ctx.stored = <<>>
    /\ \/ flash' = Erased(ToErase) /\ NoFault
       \/ \E s \in SUBSET ToErase : flash' = Erased(s) /\ Fault
    /\ Return(0)
    /\ UNCHANGED <<bad, worn, program, ctx, wb, cuts>>

-----------------------------------------------------------------------------
(* The clients.  A client acts when no library call is in progress. *)

Data(d) == call' = [fn |-> "data", rest |-> d, blocks |-> 0]
Erase(n) == call' = [fn |-> "erase", rest |-> <<>>, blocks |-> n]
\* mtd_write_close: mtd_erase_blocks(ctx, 0), then close.
Close == Erase(0)

\* read(fd, buf, n)
Chunk(n) == Take(Drop(image, fpos), n)

\* The client is back from a call made at step s.
Back(s) == pc = s /\ call.fn = "none"
Goto(s) == pc' = s /\ ret' = 1
End(ok) == pc' = "end" /\ success' = ok /\ UNCHANGED <<fpos, ret, ctx, call>>

Untouched == UNCHANGED <<flash, bad, worn, client, image, wb, faults, cuts>>

\* WriteToPartition: write the data, erase the rest, close.  When a call
\* fails, the context is closed, which may write what is pending, and -1 is
\* returned.  The other two are as careful: set_bootloader_message_mtd erases
\* nothing, and format_volume writes nothing.
PartitionBegin ==
    /\ client \in {"partition", "bcb"} /\ Back("begin")
    /\ ctx' = FreshCtx
    /\ Goto("data") /\ Data(image) /\ fpos' = Len(image)
    /\ UNCHANGED success /\ Untouched

FormatBegin ==
    /\ client = "format" /\ Back("begin")
    /\ ctx' = FreshCtx
    /\ Goto("erase") /\ Erase(-1)
    /\ UNCHANGED <<fpos, success>> /\ Untouched

PartitionNext ==
    /\ client \in {"partition", "bcb", "format"}
    /\ \/ Back("data") /\ ret = 0 /\ client = "partition" /\ Goto("erase") /\ Erase(-1)
       \/ Back("erase") /\ ret = 0 /\ Goto("close") /\ Close
       \/ (Back("data") \/ Back("erase")) /\ ret = -1 /\ Goto("undo") /\ Close
    /\ UNCHANGED <<fpos, success, ctx>> /\ Untouched

BcbNext ==
    /\ client = "bcb"
    /\ Back("data") /\ ret = 0 /\ Goto("close") /\ Close
    /\ UNCHANGED <<fpos, success, ctx>> /\ Untouched

PartitionEnd ==
    /\ client \in {"partition", "bcb", "format"}
    /\ \/ Back("undo") /\ End(FALSE)
       \/ Back("close") /\ End(ret = 0)
    /\ Untouched

\* WriteRawImageFn: chunk by chunk until the end of the file or an error; then
\* erase the rest and close, whatever these return.  An fread that fails is
\* taken for the end of the file (RawReadFails).
RawNext ==
    /\ client = "raw"
    /\ \/ /\ Back("begin") /\ ctx' = FreshCtx
          /\ Goto("data") /\ Data(Chunk(BufSize)) /\ fpos' = fpos + Len(Chunk(BufSize))
          /\ UNCHANGED success
       \/ /\ Back("data") /\ ret = 0 /\ fpos < Len(image)
          /\ Goto("data") /\ Data(Chunk(BufSize)) /\ fpos' = fpos + Len(Chunk(BufSize))
          /\ UNCHANGED <<success, ctx>>
       \/ /\ Back("data") /\ (ret = -1 \/ fpos = Len(image))
          /\ success' = (ret = 0)
          /\ Goto("erase") /\ Erase(-1)
          /\ UNCHANGED <<fpos, ctx>>
       \/ Back("erase") /\ Goto("close") /\ Close /\ UNCHANGED <<fpos, success, ctx>>
       \/ Back("close") /\ End(success)
    /\ Untouched

RawReadFails ==
    /\ client = "raw" /\ Fault
    /\ \/ Back("begin") /\ ctx' = FreshCtx
       \/ Back("data") /\ ret = 0 /\ UNCHANGED ctx
    /\ Goto("erase") /\ Erase(-1)
    /\ UNCHANGED <<flash, bad, worn, client, image, fpos, success, wb, cuts>>

\* flash_image.  The header is compared with what the partition has; if it
\* differs, the image is written with zeros for a header, and then its first
\* block once more, with the header.  A block that cannot be read is skipped.
Header == Take(image, HeaderSize)
HeaderSame(skip) ==
    /\ Len(image) >= HeaderSize
    /\ \E b \in Blocks : IsNth(skip, 0, b) /\ \A j \in 1..HeaderSize : flash[b][j] = image[j]

\* Mistake: the header is written in the first pass already.
FlashCheck_HeaderFirst ==
    /\ client = "flash" /\ Back("begin")
    /\ \E skip \in {bad} \cup {bad \cup {b} : b \in Blocks \ bad} :
          /\ IF skip = bad THEN NoFault ELSE Fault
          /\ \/ HeaderSame(skip) /\ End(TRUE)
             \/ /\ ~HeaderSame(skip)
                /\ ctx' = FreshCtx
                /\ Goto("pass1") /\ Data(Header) /\ fpos' = Len(Header)
                /\ UNCHANGED success
    /\ UNCHANGED <<flash, bad, worn, client, image, wb, cuts>>

FlashCheck ==
    /\ client = "flash" /\ Back("begin")
    /\ \E skip \in {bad} \cup {bad \cup {b} : b \in Blocks \ bad} :
          /\ IF skip = bad THEN NoFault ELSE Fault
          /\ \/ HeaderSame(skip) /\ End(TRUE)
             \/ /\ ~HeaderSame(skip)
                /\ ctx' = FreshCtx
                /\ Goto("pass1") /\ Data(Filled(Zero, Len(Header))) /\ fpos' = Len(Header)
                /\ UNCHANGED success
    /\ UNCHANGED <<flash, bad, worn, client, image, wb, cuts>>

FlashPass1 ==
    /\ client = "flash"
    /\ \/ /\ Back("pass1") /\ ret = 0 /\ fpos < Len(image)
          /\ Goto("pass1") /\ Data(Chunk(HeaderSize)) /\ fpos' = fpos + Len(Chunk(HeaderSize))
          /\ UNCHANGED ctx
       \/ Back("pass1") /\ ret = 0 /\ fpos = Len(image) /\ Goto("close1") /\ Close
          /\ UNCHANGED <<fpos, ctx>>
       \/ /\ Back("close1") /\ ret = 0
          /\ ctx' = FreshCtx
          /\ Goto("pass2") /\ Data(Header) /\ fpos' = Len(Header)
    /\ UNCHANGED success /\ Untouched

\* The rest of the first block; the file must have that much.
FlashPass2 ==
    /\ client = "flash" /\ Back("pass2") /\ ret = 0
    /\ LET left == EraseSize - fpos
           n == IF left < HeaderSize THEN left ELSE HeaderSize
       IN  \/ /\ left > 0 /\ fpos < Len(image)
              /\ Goto("pass2") /\ Data(Chunk(n)) /\ fpos' = fpos + Len(Chunk(n))
              /\ UNCHANGED <<success, ctx>>
           \/ left > 0 /\ fpos = Len(image) /\ End(FALSE)
           \/ left = 0 /\ Goto("close") /\ Close /\ UNCHANGED <<fpos, success, ctx>>
    /\ Untouched

\* die(), or the end of main.
FlashEnd ==
    /\ client = "flash"
    /\ \/ \E s \in {"pass1", "close1", "pass2"} : Back(s) /\ ret = -1 /\ End(FALSE)
       \/ Back("close") /\ End(ret = 0)
    /\ Untouched

\* A system call of the client's own fails (open, read, close, MEMGETINFO):
\* it returns an error.  ret = 1 remembers that.
ClientFails ==
    /\ pc # "end" /\ call.fn = "none"
    /\ client # "raw" \/ pc = "begin"
    /\ Fault
    /\ pc' = "end" /\ success' = FALSE /\ ret' = 1
    /\ UNCHANGED <<flash, bad, worn, client, image, fpos, ctx, call, wb, cuts>>

-----------------------------------------------------------------------------
\* Power is lost; the same program runs again after the next boot.  A block
\* that is being programmed is left programmed up to some unit, and only some
\* of the blocks to be erased are.
PowerCut ==
    /\ pc # "end" /\ cuts < MaxCuts
    /\ cuts' = cuts + 1
    /\ \/ UNCHANGED flash
       \/ wb.ph = "program" /\ \E n \in 1..(EraseSize - 1) : Put(wb.pos, Programmed(wb.data, n))
       \/ /\ call.fn = "erase" /\ wb.ph = "idle" /\ ctx.stored = <<>>
          /\ \E n \in Blocks : flash' = Erased({b \in ToErase : b <= n})
    /\ pc' = "begin" /\ fpos' = 0 /\ success' = TRUE /\ ret' = 1
    /\ ctx' = FreshCtx /\ call' = NoCall /\ wb' = NoBlock
    /\ UNCHANGED <<bad, worn, client, image, faults>>

WriteBlock ==
    WriteBlockFull \/ SkipBadBlock \/ GoodBlock \/ EraseBlock \/ ProgramBlock \/ VerifyBlock \/ GiveUp

Run ==
    \/ WriteBlock \/ WriteData \/ PadBlock \/ EraseBlocks
    \/ PartitionBegin \/ FormatBegin \/ PartitionNext \/ BcbNext \/ PartitionEnd \/ RawNext
    \/ FlashCheck \/ FlashPass1 \/ FlashPass2 \/ FlashEnd

Next == Run \/ RawReadFails \/ ClientFails \/ PowerCut

Spec == Init /\ [][Next]_vars

-----------------------------------------------------------------------------
(* Properties. *)

\* Block r of the image, with the padding of mtd_erase_blocks, and where it is to be
ImageBlock(r) ==
    [j \in 1..EraseSize |-> IF EraseSize * r + j <= Len(image) THEN image[EraseSize * r + j] ELSE Zero]
Holds(skip, r) == \E b \in Blocks : IsNth(skip, r, b) /\ flash[b] = ImageBlock(r)

\* "Return 0 on success": when WriteToPartition or set_bootloader_message_mtd
\* succeeds, the partition without the blocks that were skipped begins with the
\* data and its padding.  write_raw_image vouches only for the complete blocks of
\* what it could read, since it ignores the errors that come later.
SuccessMeansWritten ==
    /\ TypeOK
    /\ pc = "end" /\ success /\ client \in {"partition", "bcb", "raw"} =>
          \A r \in 0..Len(image) :
              (IF client = "raw" THEN EraseSize * r + EraseSize <= fpos ELSE EraseSize * r < Len(image))
              => Holds(Range(ctx.badBlocks), r)

\* A client fails only if one of its own system calls did, if a block that was
\* not reported bad had to be given up, or if the image does not fit; one error
\* on a block is made good by the second attempt.  (flash_image also fails on
\* an image smaller than a block.)
FailsOnlyForCause ==
    pc = "end" /\ ~success =>
        \/ ret = 1 \/ worn # {}
        \/ Len(image) > EraseSize * Cardinality(Blocks \ bad)
        \/ client = "flash" /\ Len(image) < EraseSize

\* flash_image, "Now come back and write the header last": as long as no block
\* has been given up, a partition that has the header, so that the next run
\* will skip it, has everything that follows the first block.
HeaderLast ==
    client = "flash" /\ worn = {} /\ HeaderSame(bad) =>
        \A r \in 1..Len(image) : EraseSize * r < Len(image) => Holds(bad, r)

=============================================================================
