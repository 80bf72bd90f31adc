-------------------------- MODULE MtdUtils_proofs ---------------------------
(***************************************************************************)
(* Proofs about MtdUtils, for flash of any size, any set of bad blocks, any  *)
(* images and any number of errors and power cuts: the steps of the clients  *)
(* keep the invariant of MtdSteps_proofs, and the theorems follow from it.   *)
(***************************************************************************)
EXTENDS MtdSteps_proofs, FiniteSetTheorems

\* Blocks can be counted.
LEMMA CountingHolds == Counting
<1>1. NBlocks \in Nat /\ 0 \in Int /\ NBlocks - 1 \in Int
  BY SizesAssumption
<1>2. IsFiniteSet(Blocks)
  BY <1>1, FS_Interval DEF Blocks
<1>3. ASSUME NEW S \in SUBSET Blocks
      PROVE  /\ Cardinality(S) \in Nat
             /\ Cardinality(S) = 0 <=> S = {}
             /\ \A b \in Blocks \ S : Cardinality(S \cup {b}) = Cardinality(S) + 1
             /\ \A T \in SUBSET S : Cardinality(T) <= Cardinality(S)
  <2>1. IsFiniteSet(S)
    BY <1>2, FS_Subset
  <2> QED BY <2>1, FS_CardinalityType, FS_EmptySet, FS_AddElement, FS_Subset
<1> QED BY <1>3 DEF Counting

USE CountingHolds

-----------------------------------------------------------------------------
(* The steps of the clients keep the invariant. *)

\* What is given is the image, but for the header in the first pass.
LEMMA BlockGiven ==
  ASSUME TypeOK, NEW r \in Nat, pc \in {"pass1", "close1"} => r # 0
  PROVE  GivenBlock(r) = ImageBlock(r)
<1> DEFINE a == EraseSize * r
<1>1. a \in Nat /\ (r # 0 => a >= HeaderSize) /\ HeaderSize \in Nat /\ EraseSize \in Nat /\ Len(image) \in Nat
  <2>1. a \in Nat /\ (0 < r => EraseSize * 0 + EraseSize <= a) /\ EraseSize * 0 = 0
    BY Times
  <2> HIDE DEF a
  <2> QED BY <2>1, SizesAssumption, Parts
<1> HIDE DEF a
<1>2. ASSUME NEW j \in 1..EraseSize PROVE Given(a + j) = IF a + j <= Len(image) THEN image[a + j] ELSE Zero
  <2>1. pc \in {"pass1", "close1"} => ~(a + j <= HeaderSize)
    BY <1>1
  <2>2. (a + j > Len(image)) <=> ~(a + j <= Len(image))
    BY <1>1
  <2> QED BY <2>1, <2>2 DEF Given
<1> QED BY <1>2 DEF GivenBlock, ImageBlock, a

LEMMA TookHolds ==
  ASSUME NEW r, Took(r), GivenBlock(r) = ImageBlock(r) PROVE Holds(Skip, r)
BY DEF Took, Holds

\* When nothing is pending any more, the blocks behind have the image.
LEMMA AllTook ==
  ASSUME TypeOK, Flow, ctx.stored = <<>>, call.rest = <<>>, NEW r \in Nat, EraseSize * r < fpos
  PROVE  Took(r)
<1> DEFINE N == Rank(Skip, Place)
<1>1. N \in Nat /\ fpos \in Nat /\ EraseSize * N \in Nat /\ EraseSize * r \in Nat
  <2>1. N \in Nat
    BY RankType
  <2>2. fpos \in Nat
    BY Parts
  <2> QED BY <2>1, <2>2, Times
<1>2. EraseSize * N + 0 + 0 >= fpos
  BY FreshType DEF Flow, Amounts, Done
<1>3. N <= r => EraseSize * N <= EraseSize * r
  BY <1>1, Times
<1>4. r \in 0..(N - 1)
  <2> HIDE DEF N
  <2> DEFINE x == EraseSize * N
             y == EraseSize * r
  <2>1. x \in Nat /\ y \in Nat /\ x + 0 + 0 >= fpos /\ y < fpos /\ (N <= r => x <= y)
    BY <1>1, <1>2, <1>3
  <2> HIDE DEF x, y
  <2> QED BY <1>1, <2>1
<1> QED BY <1>4 DEF Flow, Taken

\* flash_image closes the first context: all of the image but its first block is there.
LEMMA CloseRest ==
  ASSUME TypeOK, Shape, Course, Flowing => Flow, HeaderInv, client = "flash", worn = {},
         pc = "close1", ret = 0, call.fn = "none"
  PROVE  Rest
<1>1. Flowing /\ Flow /\ fpos = Len(image) /\ ctx.stored = <<>> /\ call.rest = <<>> /\ wb.ph = "idle"
  BY ClientIdle DEF Flowing, Course, Flow, Pending
<1>2. \A c \in bad : c < Place => c \in Skip
  BY <1>1 DEF HeaderInv
<1>3. ASSUME NEW r \in 1..Len(image), EraseSize * r < Len(image) PROVE Holds(bad, r)
  <2>1. r \in Nat /\ r # 0
    BY Parts
  <2>2. Took(r)
    BY <1>1, <1>3, <2>1, AllTook
  <2>3. PICK b \in Blocks : Behind(b) /\ IsNth(Skip, r, b) /\ flash[b] = GivenBlock(r)
    BY <2>2 DEF Took
  <2>4. b < Place /\ b \in Int /\ Place \in Int
    BY <1>1, <2>3, Positions DEF Behind, Place
  <2>5. b \notin bad /\ Rank(Skip, b) = r
    BY <1>2, <2>3, <2>4, NthRank
  <2>6. Rank(Skip, b) = Rank(bad, b)
    BY <1>2, <2>4, SkipIsBad
  <2>7. IsNth(bad, r, b)
    BY <2>5, <2>6, NthRank
  <2>8. flash[b] = ImageBlock(r)
    BY <2>1, <2>3, BlockGiven
  <2> QED BY <2>7, <2>8 DEF Holds
<1> QED BY <1>3 DEF Rest

LEMMA FreshStart ==
  ASSUME Shape, Begins
  PROVE  /\ wb'.ph = "idle" /\ Skip' = {} /\ Place' = 0 /\ Rank(Skip', Place') = 0 /\ Done' = 0
         /\ ctx'.stored = <<>> /\ Len(ctx'.stored) = 0
<1>1. wb'.ph = "idle" /\ ctx' = FreshCtx
  BY ClientIdle DEF Begins, Still
<1>2. Skip' = {} /\ Place' = 0
  BY <1>1, FreshType, RangeEmpty DEF Skip, Place
<1>3. Rank(Skip', Place') = 0
  BY <1>2, RankZero
<1>4. Done' = 0
  BY <1>3, Times DEF Done
<1> QED BY <1>1, <1>2, <1>3, <1>4, FreshType, SMTT(30)

LEMMA BeginsFlow ==
  ASSUME TypeOK, TypeOK', Shape, Course, Begins PROVE Flow'
<1>1. /\ wb'.ph = "idle" /\ Skip' = {} /\ Place' = 0 /\ Rank(Skip', Place') = 0 /\ Done' = 0
      /\ ctx'.stored = <<>> /\ Len(ctx'.stored) = 0
  BY FreshStart, SMTT(30)
<1>2. call'.fn # "none" /\ ret' = 1 /\ image' = image /\ Len(image) \in Nat /\ fpos' \in 0..Len(image)
  BY Parts, SMTT(30) DEF Begins, Still, TypeOK
<1>3. Len(call'.rest) = fpos' /\ Len(call'.rest) \in Nat
  <2>1. CASE call'.fn = "data"
    BY <1>2, <2>1 DEF Begins
  <2>2. CASE call'.fn = "erase"
    BY <2>2, FreshType DEF Begins, Course
  <2> QED BY <2>1, <2>2 DEF Begins
<1>4. ASSUME NEW j \in 1..Len(call'.rest) PROVE call'.rest[j] = Given(0 + 0 + j)'
  <2>1. j \in Nat /\ ~(j > Len(image)) /\ 0 + 0 + j = j
    BY <1>2, <1>3
  <2>2. call'.fn = "data"
    BY <1>4, FreshType DEF Begins
  <2>3. call'.rest[j] = IF pc' = "pass1" /\ j <= HeaderSize THEN Zero ELSE image[j]
    BY <2>2 DEF Begins
  <2>4. pc' # "close1"
    BY DEF Begins
  <2> QED BY <1>2, <2>1, <2>3, <2>4, SMTT(30) DEF Given
<1>5. Contents'
  BY <1>1, <1>4 DEF Contents
<1>6. Amounts'
  BY <1>1, <1>3 DEF Amounts
<1>7. Pending' /\ Ahead' /\ Taken'
  BY <1>1, <1>2 DEF Pending, Ahead, Taken
<1> QED BY <1>5, <1>6, <1>7 DEF Flow

LEMMA BeginsStep == ASSUME Inv, TypeOK', Begins PROVE Inv'
<1> USE DEF Inv
<1>1. /\ flash' = flash /\ bad' = bad /\ worn' = worn /\ client' = client /\ image' = image /\ wb'.ph = "idle"
      /\ ret' = 1 /\ success' = success /\ call.fn = "none" /\ pc # "end"
      /\ pc' \in {"data", "pass1", "pass2", "erase"} /\ call'.fn # "none"
  BY ClientIdle DEF Begins, Still
<1>2. /\ Skip' = {} /\ Place' = 0 /\ Rank(Skip', Place') = 0
  BY FreshStart
<1>3. Shape'
  BY <1>1, <1>2, SMTT(30) DEF Shape, Begins
<1>4. Course'
  BY <1>1 DEF Course, Begins
<1>5. (Flowing => Flow)'
  BY BeginsFlow
<1>6. RawFlow'
  <2>1. ASSUME pc' = "erase", NEW r \in 0..Len(image) PROVE ~(EraseSize * r + EraseSize <= fpos')
    <3>1. fpos' = 0
      BY <2>1 DEF Begins, Course
    <3>2. EraseSize * r \in Nat /\ EraseSize \in Nat \ {0}
      BY Parts, Times, SizesAssumption
    <3> DEFINE x == EraseSize * r
    <3> HIDE DEF x
    <3>3. x \in Nat => ~(x + EraseSize <= 0)
      BY <3>2
    <3> QED BY <3>1, <3>2, <3>3, SMTT(30) DEF x
  <2> QED BY <1>1, <2>1 DEF RawFlow
<1>7. Causes'
  BY <1>1 DEF Causes, Cause
<1>8. SuccessMeansWritten' /\ FailsOnlyForCause'
  BY <1>1 DEF SuccessMeansWritten, FailsOnlyForCause
<1>9. HeaderInv'
  <2>1. ASSUME client = "flash", worn = {}, pc' = "pass2" PROVE Rest'
    <3>1. pc = "close1" /\ ret = 0
      BY <2>1 DEF Begins
    <3>2. Rest
      BY <1>1, <2>1, <3>1, CloseRest, SMTT(30)
    <3> QED BY <1>1, <3>2, SameHeader, SMTT(30)
  <2>2. \A c \in bad' : ~(c < Place')
    BY <1>1, <1>2, SizesAssumption, SMTT(30) DEF TypeOK, Blocks
  <2> QED BY <1>1, <1>2, <2>1, <2>2, SMTT(30) DEF HeaderInv
<1>10. HeaderLast'
  BY <1>1, HeaderLastKept
<1> QED BY <1>3, <1>4, <1>5, <1>6, <1>7, <1>8, <1>9, <1>10, SMTT(30)

\* The context is the same.
LEMMA SameContext ==
  ASSUME TypeOK, Shape, Still, ctx' = ctx
  PROVE  /\ wb'.ph = "idle" /\ wb.ph = "idle" /\ call.rest = <<>> /\ Len(call.rest) = 0 /\ BehindKept
         /\ Skip' = Skip /\ Place' = Place /\ Done' = Done
<1>1. wb'.ph = "idle" /\ wb.ph = "idle" /\ call.rest = <<>> /\ flash' = flash
  BY ClientIdle DEF Still
<1>2. Skip' = Skip /\ Place' = Place
  BY <1>1 DEF Skip, Place
<1>3. Done' = Done
  BY <1>2 DEF Done, Rank
<1>4. BehindKept
  BY <1>1, <1>2 DEF BehindKept, Behind
<1> QED BY <1>1, <1>2, <1>3, <1>4, FreshType, SMTT(30)

LEMMA ContinuesFlow ==
  ASSUME TypeOK, TypeOK', Shape, Course, Flowing => Flow, Continues PROVE Flow'
<1>1. /\ Still /\ ctx' = ctx /\ image' = image /\ pc' = pc /\ ret = 0 /\ pc \in {"data", "pass1", "pass2"} /\ ret' = 1
      /\ client' = client /\ client # "format" /\ call'.fn = "data" /\ fpos' = fpos + Len(call'.rest)
      /\ fpos < Len(image)
  BY DEF Continues, Still
<1>2. /\ wb'.ph = "idle" /\ call.rest = <<>> /\ Len(call.rest) = 0 /\ BehindKept /\ Skip' = Skip /\ Place' = Place /\ Done' = Done
  BY <1>1, SameContext
<1>3. Flow
  BY <1>1 DEF Flowing
<1>4. \A k : Given(k)' = Given(k)
  BY <1>1, GivenSame
<1> DEFINE d == Done
           a == Len(ctx.stored)
           b == Len(call'.rest)
           n == Len(image)
<1>5. d \in Nat /\ a \in Nat /\ b \in Nat /\ fpos \in Nat /\ n \in Nat /\ fpos + b <= n
  <2>1. d \in Nat
    BY RankType, Times DEF Done
  <2>2. a \in Nat /\ fpos \in Nat /\ n \in Nat
    BY Parts, SMTT(30)
  <2>3. call'.rest \in Seq(Unit)
    BY DEF TypeOK
  <2>4. b \in Nat
    BY <2>3, LenOf, SMTT(30)
  <2>5. fpos' <= n
    BY <1>1, <2>2, SMTT(30) DEF TypeOK
  <2> QED BY <1>1, <2>1, <2>2, <2>4, <2>5, SMTT(30)
<1>6. d + a + 0 = fpos
  BY <1>1, <1>2, <1>3, SMTT(30) DEF Flow, Amounts
<1>7. Amounts'
  <2>1. d + a + b = fpos + b
    <3> HIDE DEF d, a, b
    <3> QED BY <1>5, <1>6
  <2>2. Done' + Len(ctx'.stored) + Len(call'.rest) = fpos'
    BY <1>1, <1>2, <2>1, SMTT(30)
  <2>3. fpos' \in Nat
    BY <1>1, <1>5
  <2> QED BY <2>2, <2>3 DEF Amounts
<1>8. Contents'
  <2>1. ASSUME NEW j \in 1..b PROVE call'.rest[j] = Given(d + a + j)
    <3>1. d + a + j = fpos + j /\ ~(fpos + j > n) /\ (pc = "pass1" => ~(fpos + j <= HeaderSize))
      <4>1. pc = "pass1" => fpos >= HeaderSize
        BY <1>1, <1>5 DEF Course
      <4>2. HeaderSize \in Nat
        BY SizesAssumption
      <4> HIDE DEF d, a, b, n
      <4> QED BY <1>5, <1>6, <4>1, <4>2, SMTT(30)
    <3>2. call'.rest[j] = image[fpos + j]
      BY DEF Continues
    <3>3. pc # "close1"
      BY <1>1
    <3> QED BY <3>1, <3>2, <3>3, SMTT(30) DEF Given
  <2>2. \A j \in 1..a : ctx.stored[j] = Given(d + j)
    BY <1>3 DEF Flow, Contents
  <2> QED BY <1>1, <1>2, <1>4, <2>1, <2>2, SMTT(30) DEF Contents
<1>9. Pending' /\ Ahead'
  BY <1>1, <1>2, <1>3, SMTT(30) DEF Pending, Ahead, Flow
<1>10. Taken'
  <2>1. \A r : GivenBlock(r)' = GivenBlock(r)
    BY <1>1, GivenSame
  <2> QED BY <1>2, <1>3, <2>1, TakenKept, SMTT(30) DEF Flow
<1> QED BY <1>7, <1>8, <1>9, <1>10, SMTT(30) DEF Flow

LEMMA ContinuesStep == ASSUME Inv, TypeOK', Continues PROVE Inv'
<1> USE DEF Inv
<1>1. /\ Still /\ ctx' = ctx /\ flash' = flash /\ bad' = bad /\ worn' = worn /\ client' = client /\ image' = image
      /\ ret = 0 /\ ret' = 1 /\ success' = success /\ pc' = pc /\ pc \in {"data", "pass1", "pass2"}
      /\ call'.fn = "data" /\ call'.blocks = 0 /\ fpos < Len(image)
  BY DEF Continues, Still
<1>2. wb'.ph = "idle" /\ Skip' = Skip /\ Place' = Place
  BY <1>1, SameContext, SMTT(30)
<1>3. Shape'
  BY <1>1, <1>2, SMTT(30) DEF Shape
<1>4. Course'
  <2>1. pc = "pass1" => fpos' >= HeaderSize
    <3>1. fpos \in Nat /\ Len(image) \in Nat /\ Len(call'.rest) \in Nat /\ HeaderSize \in Nat
      <4>1. call'.rest \in Seq(Unit)
        BY DEF TypeOK
      <4> QED BY <4>1, Parts, SizesAssumption, LenOf, SMTT(30)
    <3>2. fpos' = fpos + Len(call'.rest) /\ (pc = "pass1" => fpos >= HeaderSize)
      BY <1>1, <3>1 DEF Continues, Course
    <3> QED BY <3>1, <3>2
  <2>2. client # "partition" /\ client # "bcb" /\ (pc = "pass2" => fpos' <= EraseSize)
    BY DEF Continues
  <2> QED BY <1>1, <2>1, <2>2, SMTT(30) DEF Course
<1>5. (Flowing => Flow)'
  BY ContinuesFlow
<1>6. RawFlow' /\ Causes' /\ SuccessMeansWritten' /\ FailsOnlyForCause'
  BY <1>1 DEF RawFlow, Causes, Cause, SuccessMeansWritten, FailsOnlyForCause
<1>7. HeaderInv'
  <2>1. Flowing /\ Rank(Skip', Place') = Rank(Skip, Place)
    BY <1>1, <1>2 DEF Flowing
  <2>2. (Spoiled => Spoiled') /\ (Rest => Rest')
    BY <1>1, SameHeader
  <2> QED BY <1>1, <1>2, <2>1, <2>2, SMTT(30) DEF HeaderInv
<1>8. HeaderLast'
  BY <1>1, HeaderLastKept
<1> QED BY <1>3, <1>4, <1>5, <1>6, <1>7, <1>8, SMTT(30)

\* The blocks that are complete have been written.
LEMMA FullTook ==
  ASSUME TypeOK, Shape, Flow, call.fn = "none", pc = "data", NEW r \in Nat, EraseSize * r + EraseSize <= fpos
  PROVE  Took(r)
<1> DEFINE N == Rank(Skip, Place)
           x == EraseSize * N
           y == EraseSize * r
           a == Len(ctx.stored)
<1>1. N \in Nat /\ a \in Nat /\ fpos \in Nat /\ EraseSize \in Nat
  BY RankType, Parts, SizesAssumption, SMTT(30)
<1>2. x \in Nat /\ y \in Nat /\ (N <= r => x <= y)
  BY <1>1, Times, SMTT(30)
<1>3. x + a + 0 = fpos /\ a < EraseSize /\ y + EraseSize <= fpos
  <2>1. Len(call.rest) = 0
    BY ClientIdle, FreshType, SMTT(30)
  <2> QED BY <2>1 DEF Flow, Amounts, Done, Pending
<1> HIDE DEF N, x, y, a
<1>4. r \in 0..(N - 1)
  BY <1>1, <1>2, <1>3, SMTT(30)
<1> QED BY <1>4 DEF Flow, Taken, N

\* The second pass has filled its block.
LEMMA SecondPass ==
  ASSUME TypeOK, Shape, Flow, call.fn = "none", pc = "pass2", fpos = EraseSize PROVE ctx.stored = <<>>
<1> DEFINE N == Rank(Skip, Place)
           x == EraseSize * N
           a == Len(ctx.stored)
<1>1. N \in Nat /\ a \in Nat /\ EraseSize \in Nat
  BY RankType, Parts, SizesAssumption, SMTT(30)
<1>2. /\ x \in Nat /\ EraseSize * 0 = 0 /\ EraseSize * 1 = EraseSize
      /\ (0 < N => EraseSize * 0 + EraseSize <= x) /\ (N <= 0 => x <= EraseSize * 0)
  BY <1>1, Times, SizesAssumption, SMTT(30)
<1>3. x + a + 0 = EraseSize /\ a < EraseSize
  <2>1. Len(call.rest) = 0
    BY ClientIdle, FreshType, SMTT(30)
  <2> QED BY <2>1 DEF Flow, Amounts, Done, Pending
<1>4. a = 0
  <2> HIDE DEF N, x, a
  <2> QED BY <1>1, <1>2, <1>3, SMTT(30)
<1> QED BY <1>4, Parts, EmptyOf, SMTT(30)

LEMMA TurnsFlow ==
  ASSUME TypeOK, Shape, Course, Flowing => Flow, Turns, Flowing' PROVE Flow' /\ Flowing
<1>1. /\ Still /\ ctx' = ctx /\ image' = image /\ client' = client /\ ret' = 1 /\ fpos' = fpos
      /\ call'.fn = "erase" /\ call'.rest = <<>> /\ call.fn = "none" /\ ret = 0
      /\ pc' \in {"erase", "close", "close1"} /\ pc \in {"data", "erase", "pass1", "pass2"}
      /\ (pc' = "close1" <=> pc = "pass1") /\ (pc = "erase" => client # "raw")
      /\ (client = "flash" /\ pc' = "close" => pc = "pass2" /\ fpos = EraseSize)
  BY DEF Turns, Still, Flowing
<1>2. /\ wb'.ph = "idle" /\ Len(call.rest) = 0 /\ BehindKept /\ Skip' = Skip /\ Place' = Place /\ Done' = Done
  BY <1>1, SameContext, SMTT(30)
<1>3. Flowing /\ Flow
  BY <1>1 DEF Flowing
<1>4. (\A k : Given(k)' = Given(k)) /\ (\A r : GivenBlock(r)' = GivenBlock(r))
  BY <1>1, GivenSame, SMTT(30)
<1>5. Pending'
  <2>1. client = "flash" /\ pc' = "close" => ctx.stored = <<>>
    BY <1>1, <1>3, SecondPass, SMTT(30)
  <2>2. client = "format" => ctx.stored = <<>>
    BY <1>3 DEF Flow, Pending
  <2> QED BY <1>1, <2>1, <2>2, SMTT(30) DEF Pending
<1>6. Amounts'
  <2>1. Len(call'.rest) = Len(call.rest) /\ (ctx'.stored # <<>> => Done + Len(ctx.stored) + Len(call.rest) = fpos)
    BY <1>1, <1>2, <1>3, FreshType, SMTT(30) DEF Flow, Amounts
  <2>2. Done + Len(ctx.stored) + Len(call.rest) >= fpos
    BY <1>3, SMTT(30) DEF Flow, Amounts
  <2> QED BY <1>1, <1>2, <2>1, <2>2, SMTT(30) DEF Amounts
<1>7. Contents'
  <2>1. \A j \in 1..Len(ctx.stored) : ctx.stored[j] = Given(Done + j)
    BY <1>3, SMTT(30) DEF Flow, Contents
  <2>2. Len(call'.rest) = 0
    BY <1>1, FreshType, SMTT(30)
  <2> QED BY <1>1, <1>2, <1>4, <2>1, <2>2, SMTT(30) DEF Contents
<1>8. Ahead'
  BY <1>2, <1>3 DEF Ahead, Flow
<1>9. Taken'
  BY <1>2, <1>3, <1>4, TakenKept, SMTT(30) DEF Flow
<1> QED BY <1>3, <1>5, <1>6, <1>7, <1>8, <1>9, SMTT(30) DEF Flow

LEMMA TurnsRaw ==
  ASSUME TypeOK, Shape, Flowing => Flow, RawFlow, Turns PROVE RawFlow'
<1> SUFFICES ASSUME client = "raw", success' PROVE \A r \in 0..Len(image) : EraseSize * r + EraseSize <= fpos => Took(r)'
  BY DEF RawFlow, Turns, Still
<1>1. /\ Still /\ ctx' = ctx /\ image' = image /\ call.fn = "none"
      /\ (pc = "data" /\ ret = 0 /\ pc' = "erase") \/ (pc = "erase" /\ success /\ pc' = "close")
  BY Zenon DEF Turns, Still
<1>2. BehindKept
  BY <1>1, SameContext, SMTT(30)
<1>3. \A r : GivenBlock(r)' = GivenBlock(r)
  BY <1>1, GivenSame, SMTT(30)
<1>4. ASSUME NEW r \in 0..Len(image), EraseSize * r + EraseSize <= fpos PROVE Took(r)
  <2>1. CASE pc = "data" /\ ret = 0
    <3>1. Flow /\ r \in Nat
      BY <2>1, Parts, SMTT(30) DEF Flowing
    <3> QED BY <1>1, <1>4, <2>1, <3>1, FullTook, SMTT(30)
  <2>2. CASE pc = "erase" /\ success
    BY <1>4, <2>2, SMTT(30) DEF RawFlow
  <2> QED BY <1>1, <2>1, <2>2, SMTT(30)
<1> QED BY <1>2, <1>3, <1>4, TookKept, SMTT(30)

LEMMA TurnsStep == ASSUME Inv, TypeOK', Turns PROVE Inv'
<1> USE DEF Inv
<1>1. /\ Still /\ ctx' = ctx /\ flash' = flash /\ bad' = bad /\ worn' = worn /\ client' = client /\ image' = image
      /\ ret' = 1 /\ pc' \in {"erase", "close", "close1", "undo"} /\ fpos' = fpos
      /\ call'.fn = "erase" /\ call'.rest = <<>> /\ (client = "flash" => call'.blocks = 0)
  BY SMTT(30) DEF Turns, Still
<1>2. wb'.ph = "idle" /\ Skip' = Skip /\ Place' = Place
  BY <1>1, SameContext, SMTT(30)
<1>3. Shape'
  BY <1>1, <1>2, SMTT(30) DEF Shape
<1>4. Course'
  BY <1>1 DEF Course, Turns
<1>5. (Flowing => Flow)' /\ (Flowing' => Flowing)
  BY TurnsFlow
<1>6. RawFlow'
  BY TurnsRaw, SMTT(30)
<1>7. Causes'
  <2>1. (pc' = "undo" => Cause) /\ (~success' => client = "raw" /\ Cause)
    BY DEF Turns, Still, Causes
  <2>2. Cause => Cause'
    BY <1>1 DEF Cause
  <2> QED BY <1>1, <2>1, <2>2, SMTT(30) DEF Causes
<1>8. SuccessMeansWritten' /\ FailsOnlyForCause'
  BY <1>1, SMTT(30) DEF SuccessMeansWritten, FailsOnlyForCause
<1>9. HeaderInv'
  <2>1. (Spoiled => Spoiled') /\ (Rest => Rest')
    BY <1>1, SameHeader, SMTT(30)
  <2>2. client = "flash" => (pc = "pass1" /\ pc' = "close1") \/ (pc = "pass2" /\ pc' = "close")
    BY DEF Turns
  <2> QED BY <1>1, <1>2, <1>5, <2>1, <2>2, SMTT(30) DEF HeaderInv
<1>10. HeaderLast'
  BY <1>1, HeaderLastKept, SMTT(30)
<1> QED BY <1>3, <1>4, <1>5, <1>6, <1>7, <1>8, <1>9, <1>10, SMTT(30)

\* What is behind when WriteToPartition, set_bootloader_message_mtd or WriteRawImageFn
\* succeeds
LEMMA EndsWritten ==
  ASSUME TypeOK, Shape, Course, Flowing => Flow, RawFlow, Ends, success', client \in {"partition", "bcb", "raw"},
         NEW r \in 0..Len(image),
         IF client = "raw" THEN EraseSize * r + EraseSize <= fpos ELSE EraseSize * r < Len(image)
  PROVE  pc = "close" /\ Took(r)
<1>1. pc = "close" /\ call.fn = "none" /\ (client = "raw" => success) /\ (client # "raw" => ret = 0) /\ r \in Nat
  <2>1. r \in Nat /\ client # "flash" /\ client # "format"
    BY Parts
  <2>2. success' # FALSE
    OBVIOUS
  <2> QED BY <2>1, <2>2, Zenon DEF Ends, Still
<1>2. CASE client = "raw"
  BY <1>1, <1>2, SMTT(30) DEF RawFlow
<1>3. CASE client # "raw"
  <2>1. Flow /\ fpos = Len(image) /\ ctx.stored = <<>> /\ call.rest = <<>>
    BY <1>1, <1>3, ClientIdle, SMTT(30) DEF Flowing, Flow, Pending, Course
  <2> QED BY <1>1, <1>3, <2>1, AllTook, SMTT(30)
<1> QED BY <1>1, <1>2, <1>3, SMTT(30)

LEMMA EndsStep == ASSUME Inv, TypeOK', Ends PROVE Inv'
<1> USE DEF Inv
<1>1. /\ Still /\ ctx' = ctx /\ flash' = flash /\ bad' = bad /\ worn' = worn /\ client' = client /\ image' = image
      /\ call' = call /\ call.fn = "none" /\ fpos' = fpos /\ pc' = "end" /\ pc # "end"
  BY DEF Ends, Still
<1>2. wb'.ph = "idle" /\ Skip' = Skip /\ BehindKept
  BY <1>1, SameContext, SMTT(30)
<1>3. Shape' /\ Course' /\ ~Flowing'
  BY <1>1, <1>2, SMTT(30) DEF Shape, Course, Flowing
<1>4. Cause' <=> Cause
  BY <1>1 DEF Cause
<1>5. Causes'
  BY <1>1, <1>4, SMTT(30) DEF Causes, Ends
<1>6. RawFlow'
  <2>1. ASSUME client = "raw", success', NEW r \in 0..Len(image), EraseSize * r + EraseSize <= fpos PROVE Took(r)'
    <3>1. pc = "close" /\ Took(r)
      BY <2>1, EndsWritten, SMTT(30)
    <3>2. GivenBlock(r)' = GivenBlock(r)
      BY <1>1, <3>1, GivenSame, SMTT(30)
    <3> QED BY <1>2, <3>1, <3>2, TookKept, SMTT(30)
  <2> QED BY <1>1, <2>1, SMTT(30) DEF RawFlow
<1>7. SuccessMeansWritten'
  <2>1. ASSUME success', client \in {"partition", "bcb", "raw"}, NEW r \in 0..Len(image),
               IF client = "raw" THEN EraseSize * r + EraseSize <= fpos ELSE EraseSize * r < Len(image)
        PROVE  Holds(Skip, r)'
    <3>1. pc = "close" /\ Took(r) /\ r \in Nat
      BY <2>1, EndsWritten, Parts, SMTT(30)
    <3>2. Holds(Skip, r)
      BY <3>1, BlockGiven, TookHolds, SMTT(30)
    <3>3. PICK s : s = Skip
      OBVIOUS
    <3>4. Holds(s, r)'
      BY <1>1, <3>2, <3>3, HoldsKept, SMTT(30)
    <3> QED BY <1>2, <3>3, <3>4, SMTT(30) DEF Holds
  <2> QED BY <1>1, <2>1, SMTT(30) DEF SuccessMeansWritten, Skip
<1>8. FailsOnlyForCause'
  <2>1. ASSUME ~success', ret' # 1 PROVE Cause \/ (client = "flash" /\ Len(image) < EraseSize)
    <3>1. pc = "close" => ret \in {-1, 0}
      BY <1>1, SMTT(30) DEF Shape, TypeOK
    <3>2. ret = -1 /\ client # "raw" => Cause
      BY DEF Causes
    <3>3. pc = "undo" \/ (~success /\ pc # "end") => Cause
      BY DEF Causes
    <3>4. \/ pc = "undo"
          \/ client # "raw" /\ pc = "close" /\ ret # 0
          \/ client = "raw" /\ ~success
          \/ client = "flash" /\ fpos = Len(image) /\ fpos < EraseSize
          \/ client = "flash" /\ ret = -1
      <4>1. client \in {"partition", "bcb", "format", "flash"} => client # "raw"
        OBVIOUS
      <4> QED BY <2>1, <4>1, Zenon DEF Ends
    <3> QED BY <1>1, <3>1, <3>2, <3>3, <3>4, SMTT(30)
  <2> QED BY <1>1, <2>1 DEF FailsOnlyForCause, Cause
<1>9. HeaderInv' /\ HeaderLast'
  BY <1>1, <1>3, HeaderLastKept, SMTT(30) DEF HeaderInv
<1> QED BY <1>3, <1>5, <1>6, <1>7, <1>8, <1>9, SMTT(30)

-----------------------------------------------------------------------------
(* Power cuts, and the initial states *)

\* A power cut leaves the flash as it is, or touches one block, or has erased blocks.
LEMMA CutFlash ==
  ASSUME TypeOK, Shape, PowerCut
  PROVE  /\ flash' \in [Blocks -> [1..EraseSize -> Unit]]
         /\ \/ client = "flash" => flash' = flash
            \/ wb.ph # "idle" /\ wb.pos \in Blocks \ bad /\ Touched
<1>1. CASE flash' = flash
  BY <1>1, SMTT(30) DEF TypeOK
<1>2. CASE wb.ph = "program" /\ \E n \in 1..(EraseSize - 1) : Put(wb.pos, Programmed(wb.data, n))
  <2>1. PICK n \in 1..(EraseSize - 1) : Put(wb.pos, Programmed(wb.data, n))
    BY <1>2
  <2>2. n \in 0..(EraseSize - 1)
    BY SizesAssumption
  <2>3. wb.pos \in Blocks \ bad /\ wb.ph # "idle" /\ Len(wb.data) = EraseSize /\ wb.data \in Seq(Unit)
    BY <1>2, BlockThere, Parts, SMTT(30)
  <2>4. Programmed(wb.data, n) \in [1..EraseSize -> Unit] /\ Programmed(wb.data, n)[1] \in {wb.data[1], Blank}
    BY <2>2, <2>3, ProgrammedIs, SMTT(30)
  <2>5. Touched
    BY <2>1, <2>3, <2>4, PutTouches, SMTT(30)
  <2> QED BY <2>3, <2>5 DEF Touched
<1>3. CASE \E n \in Blocks : flash' = Erased({b \in ToErase : b <= n})
  <2>1. \E s \in SUBSET ToErase : flash' = Erased(s)
    BY <1>3
  <2>2. flash' \in [Blocks -> [1..EraseSize -> Unit]] /\ (call.blocks = 0 => flash' = flash)
    BY <2>1, ErasedIs
  <2> QED BY <2>2 DEF Shape
<1> QED BY <1>1, <1>2, <1>3, Zenon DEF PowerCut

LEMMA PowerCutStep == ASSUME Inv, PowerCut PROVE Inv'
<1> USE DEF Inv
<1>1. /\ bad' = bad /\ worn' = worn /\ client' = client /\ image' = image /\ faults' = faults
      /\ pc' = "begin" /\ fpos' = 0 /\ success' = TRUE /\ ret' = 1
      /\ ctx' = FreshCtx /\ call' = NoCall /\ wb' = NoBlock /\ pc # "end" /\ cuts' = cuts + 1 /\ cuts < MaxCuts
  BY DEF PowerCut
<1>2. /\ flash' \in [Blocks -> [1..EraseSize -> Unit]]
      /\ \/ client = "flash" => flash' = flash
         \/ wb.ph # "idle" /\ wb.pos \in Blocks \ bad /\ Touched
  BY CutFlash
<1>3. TypeOK'
  <2>1. cuts' \in 0..MaxCuts /\ fpos' \in 0..Len(image) /\ pc' \in Steps
    BY <1>1, Parts, SizesAssumption, SMTT(30) DEF TypeOK, Steps
  <2>2. ctx' \in Ctxs /\ call' \in Calls /\ wb' \in Wbs /\ Len(ctx'.stored) <= EraseSize /\ wb'.ph = "idle"
    BY <1>1, FreshType, SMTT(30)
  <2>3. worn' \in SUBSET Blocks /\ faults' \in 0..MaxFaults /\ success' \in BOOLEAN /\ ret' \in {-1, 0, 1}
    BY <1>1, SMTT(30) DEF TypeOK
  <2> QED BY <1>1, <1>2, <2>1, <2>2, <2>3, TypeFrom, SMTT(30)
<1>4. Shape'
  <2>1. Skip' = {}
    BY <1>1, FreshType, RangeEmpty, SMTT(30) DEF Skip
  <2> QED BY <1>1, <2>1, FreshType, SMTT(30) DEF Shape
<1>5. Course' /\ ~Flowing' /\ RawFlow' /\ Causes' /\ SuccessMeansWritten' /\ FailsOnlyForCause'
  BY <1>1, <1>3, SMTT(30) DEF Course, Flowing, RawFlow, Causes, SuccessMeansWritten, FailsOnlyForCause
<1>6. HeaderLast'
  <2>1. CASE client # "flash" \/ worn # {}
    BY <1>1, <2>1, SMTT(30) DEF HeaderLast
  <2>2. CASE flash' = flash
    BY <1>1, <2>2, HeaderLastKept, SMTT(30)
  <2>3. CASE client = "flash" /\ worn = {} /\ flash' # flash
    <3>1. wb.ph # "idle" /\ wb.pos \in Blocks \ bad /\ Touched
      BY <1>2, <2>3, SMTT(30)
    <3>2. Flow
      BY <2>3, <3>1, FlashFlows, SMTT(30) DEF Shape
    <3>3. Spoiled' \/ Rest'
      BY <1>1, <2>3, <3>1, <3>2, TouchHeader, SMTT(30)
    <3> QED BY <1>3, <3>3, SpoiledHeader, RestHeader, SMTT(30)
  <2> QED BY <2>1, <2>2, <2>3, SMTT(30)
<1> QED BY <1>3, <1>4, <1>5, <1>6, SMTT(30) DEF HeaderInv

\* At first, no block has the header.
LEMMA InitInv == Init => Inv
<1> SUFFICES ASSUME Init PROVE Inv
  OBVIOUS
<1>1. TypeOK
  BY InitType
<1>2. /\ pc = "begin" /\ fpos = 0 /\ success = TRUE /\ ret = 1 /\ ctx = FreshCtx /\ call = NoCall /\ wb = NoBlock
      /\ flash = [b \in Blocks |-> Filled(Old, EraseSize)]
  BY DEF Init
<1>3. Skip = {}
  BY <1>2, FreshType, RangeEmpty, SMTT(30) DEF Skip
<1>4. Shape
  BY <1>2, <1>3, FreshType, SMTT(30) DEF Shape
<1>5. Course /\ ~Flowing /\ RawFlow /\ Causes /\ SuccessMeansWritten /\ FailsOnlyForCause
  BY <1>1, <1>2 DEF Course, Flowing, RawFlow, Causes, SuccessMeansWritten, FailsOnlyForCause
<1>6. ASSUME HeaderSame(bad) PROVE FALSE
  <2>1. PICK b \in Blocks : \A j \in 1..HeaderSize : flash[b][j] = image[j]
    BY <1>6 DEF HeaderSame
  <2>2. flash[b][1] = Old
    BY <1>2, SizesAssumption, SMTT(30) DEF Filled
  <2>3. 1 \in 1..HeaderSize /\ 1 \in 1..Len(image) /\ image \in Images
    BY <1>1, SizesAssumption, Parts, SMTT(30) DEF TypeOK
  <2>4. image[1] \in Nat \ {0}
    BY <2>3, Units
  <2> QED BY <2>1, <2>2, <2>3, <2>4, SMTT(30) DEF Old
<1>7. HeaderInv /\ HeaderLast
  BY <1>5, <1>6 DEF HeaderInv, HeaderLast
<1> QED BY <1>1, <1>4, <1>5, <1>7, SMTT(30) DEF Inv

LEMMA StutterStep == ASSUME Inv, UNCHANGED vars PROVE Inv'
<1>1. /\ flash' = flash /\ bad' = bad /\ worn' = worn /\ client' = client /\ image' = image /\ pc' = pc /\ fpos' = fpos
      /\ success' = success /\ ret' = ret /\ ctx' = ctx /\ call' = call /\ wb' = wb /\ faults' = faults /\ cuts' = cuts
  BY DEF vars
<1>2. Quiet /\ worn \subseteq worn'
  BY <1>1 DEF Quiet
<1>3. Skip' = Skip /\ Place' = Place
  BY <1>1 DEF Skip, Place
<1>4. Done' = Done /\ Rank(Skip', Place') = Rank(Skip, Place)
  BY <1>3 DEF Done, Rank
<1>5. (\A k : Given(k)' = Given(k)) /\ (\A r : GivenBlock(r)' = GivenBlock(r))
  BY <1>2, QuietGiven
<1>6. BehindKept
  BY <1>1, <1>3 DEF BehindKept, Behind
<1>7. TypeOK' /\ Shape' /\ Course' /\ RawFlow' /\ Causes'
  <2>1. TypeOK'
    BY <1>1, SMTT(30) DEF Inv, TypeOK
  <2>2. Shape'
    BY <1>1, <1>3, SMTT(30) DEF Inv, Shape
  <2> QED BY <1>1, <1>2, <1>6, <2>1, <2>2, CourseKept, RawFlowKept, CausesKept, SMTT(30) DEF Inv
<1>8. (Flowing => Flow)'
  <2>1. Flowing' <=> Flowing
    BY <1>1, SMTT(30) DEF Flowing
  <2>2. ASSUME Flow PROVE Pending' /\ Amounts' /\ Ahead'
    BY <1>1, <1>3, <1>4, <2>2, SMTT(30) DEF Flow, Pending, Amounts, Ahead
  <2>3. ASSUME Flow PROVE Contents'
    BY <1>1, <1>4, <1>5, <2>3, SMTT(30) DEF Flow, Contents
  <2>4. ASSUME Flow PROVE Taken'
    BY <1>4, <1>5, <1>6, <2>4, TakenKept, SMTT(30) DEF Inv, Flow
  <2> QED BY <2>1, <2>2, <2>3, <2>4, SMTT(30) DEF Inv, Flow
<1>9. SuccessMeansWritten' /\ FailsOnlyForCause'
  <2>1. ASSUME NEW r PROVE Holds(Skip, r)' <=> Holds(Skip, r)
    BY <1>1, <1>3, SMTT(30) DEF Holds, IsNth, ImageBlock
  <2>2. SuccessMeansWritten'
    BY <1>1, <1>7, <2>1, SMTT(30) DEF Inv, SuccessMeansWritten, Skip
  <2> QED BY <1>1, <2>2, SMTT(30) DEF Inv, FailsOnlyForCause
<1>10. HeaderInv' /\ HeaderLast'
  <2>1. (Spoiled => Spoiled') /\ (Rest => Rest') /\ (Flowing' <=> Flowing)
    BY <1>1, SameHeader, SMTT(30) DEF Flowing
  <2>2. HeaderInv'
    BY <1>1, <1>3, <1>4, <2>1, SMTT(30) DEF Inv, HeaderInv
  <2> QED BY <1>1, <1>2, <2>2, HeaderLastKept, SMTT(30) DEF Inv
<1> QED BY <1>7, <1>8, <1>9, <1>10, SMTT(30) DEF Inv

\* The invariant holds along every behaviour of the library and its clients: every
\* unit that a client has given to mtd_write_data is in the blocks behind, in the
\* context's buffer or still in the caller's data.
THEOREM InvariantHolds == Spec => []Inv
<1>1. ASSUME Inv, Next PROVE Inv'
  <2>1. TypeOK /\ Shape /\ Course
    BY <1>1 DEF Inv
  <2>2. CASE WriteBlock \/ WriteData \/ PadBlock \/ EraseBlocks
    BY <1>1, <2>2, LibraryStep, SMTT(30)
  <2>3. CASE PartitionBegin \/ FormatBegin \/ PartitionNext \/ BcbNext \/ PartitionEnd \/ RawNext \/ RawReadFails
             \/ FlashCheck \/ FlashPass1 \/ FlashPass2 \/ FlashEnd \/ ClientFails
    <3>1. TypeOK' /\ (Begins \/ Continues \/ Turns \/ Ends)
      BY <2>1, <2>3, PartitionBeginDoes, FormatBeginDoes, PartitionNextDoes, PartitionEndDoes, RawNextDoes, RawReadFailsDoes,
         FlashCheckDoes, FlashPass1Does, FlashPass2Does, FlashEndDoes, ClientFailsDoes, SMTT(30)
    <3> QED BY <1>1, <3>1, BeginsStep, ContinuesStep, TurnsStep, EndsStep, SMTT(30)
  <2>4. CASE PowerCut
    BY <1>1, <2>4, PowerCutStep, SMTT(30)
  <2> QED BY <1>1, <2>2, <2>3, <2>4, SMTT(30) DEF Next, Run
<1>2. Inv /\ [Next]_vars => Inv'
  BY <1>1, StutterStep
<1> QED BY <1>2, InitInv, PTL DEF Spec

\* When WriteToPartition, set_bootloader_message_mtd or WriteRawImageFn succeeds, the
\* partition, read past the blocks that were skipped, has what was to be written.
THEOREM SuccessIsWritten == Spec => []SuccessMeansWritten
<1>1. Inv => SuccessMeansWritten
  BY SMTT(30) DEF Inv
<1> QED BY <1>1, InvariantHolds, PTL

\* A client fails only if one of its own system calls did, a block wore out, or the
\* image does not fit (or is shorter than flash_image's second pass needs).
THEOREM FailureHasCause == Spec => []FailsOnlyForCause
<1>1. Inv => FailsOnlyForCause
  BY SMTT(30) DEF Inv
<1> QED BY <1>1, InvariantHolds, PTL

\* flash_image, whatever power cuts it meets: as long as no block wears out, a
\* partition that has the header has all that follows the first block.
THEOREM HeaderIsLast == Spec => []HeaderLast
<1>1. Inv => HeaderLast
  BY DEF Inv
<1> QED BY <1>1, InvariantHolds, PTL

=============================================================================
