-------------------------- MODULE MtdSteps_proofs ---------------------------
(***************************************************************************)
(* What the steps of MtdUtils do, for flash of any size, any set of bad      *)
(* blocks, any images and any number of errors: they keep the types, and     *)
(* each of them has one of a few effects; and that the steps of the library  *)
(* keep the invariant.  MtdUtils_proofs rests on this.                       *)
(***************************************************************************)
EXTENDS MtdUtils, TLAPS

\* The blocks that this context skips
Skip == Range(ctx.badBlocks)

\* The library
Shape ==
    /\ wb.ph \in {"erase", "program", "verify", "giveup"} => wb.pos < NBlocks /\ wb.pos \notin bad
    /\ wb.ph # "idle" => call.fn # "none"
    /\ wb.ph # "idle" =>
          IF call.fn = "erase" THEN ctx.stored # <<>>
          ELSE \/ Len(ctx.stored) = EraseSize
               \/ ctx.stored = <<>> /\ Len(call.rest) >= EraseSize
    /\ pc \in {"begin", "end"} => call.fn = "none"
    /\ call.fn # "none" => ret = 1
    /\ call.fn = "none" /\ pc \notin {"begin", "end"} => ret # 1
    /\ call.fn # "data" => call.rest = <<>>
    /\ call.fn = "data" => pc \in {"data", "pass1", "pass2"}
    /\ call.fn = "erase" => pc \in {"erase", "undo", "close", "close1"}
    /\ client = "flash" => call.blocks = 0
    /\ \A c \in Skip : c \in bad \/ c \in worn

\* The clients
Course ==
    /\ client \in {"partition", "bcb"} => pc \in {"begin", "data", "erase", "undo", "close", "end"}
    /\ client = "raw" => pc \in {"begin", "data", "erase", "close", "end"}
    /\ client = "format" => pc \in {"begin", "erase", "undo", "close", "end"}
    /\ client = "flash" => pc \in {"begin", "pass1", "close1", "pass2", "close", "end"}
    /\ client \in {"partition", "bcb"} /\ pc \in {"data", "erase", "close"} => fpos = Len(image)
    /\ pc = "begin" => fpos = 0
    /\ pc = "pass1" => fpos >= HeaderSize \/ fpos = Len(image)
    /\ pc = "close1" => fpos = Len(image)
    /\ pc = "pass2" => fpos <= EraseSize

-----------------------------------------------------------------------------
(* Sequences of units and lengths *)

LEMMA Times ==
  /\ \A a \in Nat : EraseSize * a \in Nat /\ EraseSize * (a + 1) = EraseSize * a + EraseSize
  /\ \A a, b \in Nat : a < b => EraseSize * a + EraseSize <= EraseSize * b
  /\ \A a, b \in Nat : a <= b => EraseSize * a <= EraseSize * b
  /\ EraseSize * 0 = 0
<1>1. EraseSize \in Nat \ {0}
  BY SizesAssumption
<1>2. ASSUME NEW a \in Nat
      PROVE  EraseSize * a \in Nat /\ EraseSize * (a + 1) = EraseSize * a + EraseSize
  BY <1>1
<1>3. ASSUME NEW a \in Nat, NEW b \in Nat, a < b
      PROVE  EraseSize * a + EraseSize <= EraseSize * b
  <2>1. PICK d \in Nat : b = a + 1 + d
    <3>1. b - a - 1 \in Nat /\ b = a + 1 + (b - a - 1)
      BY <1>3
    <3> QED BY <3>1
  <2>2. EraseSize * b = EraseSize * a + EraseSize + EraseSize * d
    BY <1>1, <2>1
  <2>3. EraseSize * d \in Nat /\ EraseSize * a \in Nat
    BY <1>2
  <2> QED BY <1>1, <2>2, <2>3
<1>4. ASSUME NEW a \in Nat, NEW b \in Nat, a <= b
      PROVE  EraseSize * a <= EraseSize * b
  <2>1. CASE a = b
    BY <1>2, <2>1
  <2>2. CASE a < b
    <3>1. EraseSize * a + EraseSize <= EraseSize * b
      BY <1>3, <2>2
    <3>2. EraseSize * a \in Nat /\ EraseSize * b \in Nat
      BY <1>2
    <3> QED BY <1>1, <3>1, <3>2
  <2> QED BY <1>4, <2>1, <2>2
<1>5. EraseSize * 0 = 0
  BY <1>1
<1> QED BY <1>2, <1>3, <1>4, <1>5

\* Sequences: the facts about the operators of Sequences that the proofs use
LEMMA LenOf ==
  ASSUME NEW S, NEW s \in Seq(S)
  PROVE  Len(s) \in Nat /\ s \in [1..Len(s) -> S] /\ DOMAIN s = 1..Len(s)
OBVIOUS

LEMMA EmptyOf == ASSUME NEW S PROVE << >> \in Seq(S) /\ Len(<< >>) = 0
OBVIOUS

LEMMA AppendOf ==
  ASSUME NEW S, NEW s \in Seq(S), NEW e \in S
  PROVE  /\ Append(s, e) \in Seq(S) /\ Len(Append(s, e)) = Len(s) + 1
         /\ \A i \in 1..Len(s) : Append(s, e)[i] = s[i]
         /\ Append(s, e)[Len(s) + 1] = e
OBVIOUS

LEMMA ConcatOf ==
  ASSUME NEW S, NEW s \in Seq(S), NEW t \in Seq(S)
  PROVE  /\ s \o t \in Seq(S) /\ Len(s \o t) = Len(s) + Len(t)
         /\ \A i \in 1..Len(s) + Len(t) :
                (s \o t)[i] = IF i <= Len(s) THEN s[i] ELSE t[i - Len(s)]
OBVIOUS

LEMMA SubSeqOf ==
  ASSUME NEW S, NEW s, NEW m \in Int, NEW n \in Int, \A i \in m..n : s[i] \in S
  PROVE  /\ SubSeq(s, m, n) \in Seq(S)
         /\ Len(SubSeq(s, m, n)) = IF m <= n THEN n - m + 1 ELSE 0
         /\ \A i \in 1..n - m + 1 : SubSeq(s, m, n)[i] = s[m + i - 1]
OBVIOUS

LEMMA Larger == ASSUME NEW S, NEW T, NEW s \in Seq(S), S \subseteq T PROVE s \in Seq(T)
OBVIOUS

LEMMA RangeOf == ASSUME NEW S, NEW s \in Seq(S) PROVE Range(s) \subseteq S
BY DEF Range

LEMMA OfRange == ASSUME NEW S, NEW s \in Seq(S) PROVE s \in Seq(Range(s))
BY DEF Range

LEMMA DropIs ==
  ASSUME NEW S, NEW s \in Seq(S), NEW n \in 0..Len(s)
  PROVE  /\ Drop(s, n) \in Seq(S) /\ Len(Drop(s, n)) = Len(s) - n
         /\ \A j \in 1..(Len(s) - n) : Drop(s, n)[j] = s[n + j]
<1>1. Len(s) \in Nat /\ \A i \in 1..Len(s) : s[i] \in S
  BY LenOf
<1>2. n + 1 \in Int /\ \A i \in (n + 1)..Len(s) : s[i] \in S
  BY <1>1
<1>3. /\ Drop(s, n) \in Seq(S)
      /\ Len(Drop(s, n)) = IF n + 1 <= Len(s) THEN Len(s) - (n + 1) + 1 ELSE 0
      /\ \A i \in 1..(Len(s) - (n + 1) + 1) : Drop(s, n)[i] = s[(n + 1) + i - 1]
  BY <1>1, <1>2, SubSeqOf DEF Drop
<1>4. Len(Drop(s, n)) = Len(s) - n
  BY <1>1, <1>3
<1>5. ASSUME NEW j \in 1..(Len(s) - n) PROVE Drop(s, n)[j] = s[n + j]
  <2>1. j \in 1..(Len(s) - (n + 1) + 1) /\ (n + 1) + j - 1 = n + j
    BY <1>1
  <2>2. Drop(s, n)[j] = s[(n + 1) + j - 1]
    BY <1>3, <2>1
  <2> QED BY <2>1, <2>2
<1> QED BY <1>3, <1>4, <1>5

LEMMA TakeIs ==
  ASSUME NEW S, NEW s \in Seq(S), NEW n \in Nat
  PROVE  /\ Take(s, n) \in Seq(S)
         /\ Len(Take(s, n)) = IF n < Len(s) THEN n ELSE Len(s)
         /\ Len(Take(s, n)) \in 0..Len(s) /\ Len(Take(s, n)) <= n
         /\ \A j \in 1..Len(Take(s, n)) : Take(s, n)[j] = s[j]
<1> DEFINE m == IF n < Len(s) THEN n ELSE Len(s)
<1>1. Len(s) \in Nat /\ \A i \in 1..Len(s) : s[i] \in S
  BY LenOf
<1>2. m \in 0..Len(s) /\ m <= n /\ m \in Int /\ 1 \in Int
  BY <1>1
<1>3. \A i \in 1..m : s[i] \in S
  BY <1>1, <1>2
<1> HIDE DEF m
<1>4. /\ SubSeq(s, 1, m) \in Seq(S)
      /\ Len(SubSeq(s, 1, m)) = IF 1 <= m THEN m - 1 + 1 ELSE 0
      /\ \A i \in 1..(m - 1 + 1) : SubSeq(s, 1, m)[i] = s[1 + i - 1]
  BY <1>2, <1>3, SubSeqOf
<1>5. m - 1 + 1 = m /\ \A i \in Nat : 1 + i - 1 = i
  BY <1>2
<1>6. Take(s, n) = SubSeq(s, 1, m)
  BY DEF Take, m
<1>7. Len(Take(s, n)) = m
  BY <1>2, <1>4, <1>5, <1>6
<1>8. \A i \in 1..m : Take(s, n)[i] = s[i]
  BY <1>2, <1>4, <1>5, <1>6
<1>9. m = IF n < Len(s) THEN n ELSE Len(s)
  BY DEF m
<1> QED BY <1>2, <1>4, <1>6, <1>7, <1>8, <1>9

LEMMA FilledIs ==
  ASSUME NEW S, NEW x \in S, NEW n \in Nat
  PROVE  /\ Filled(x, n) \in Seq(S) /\ Len(Filled(x, n)) = n
         /\ \A j \in 1..n : Filled(x, n)[j] = x
         /\ Filled(x, n) \in [1..n -> S]
BY DEF Filled

LEMMA BlockOfSeq ==
  ASSUME NEW S, NEW s \in Seq(S)
  PROVE  s \in [1..Len(s) -> S]
BY LenOf

LEMMA RangeAppend ==
  ASSUME NEW S, NEW s \in Seq(S), NEW e \in S
  PROVE  Range(Append(s, e)) = Range(s) \cup {e}
<1>1. Len(s) \in Nat /\ DOMAIN s = 1..Len(s)
  BY LenOf
<1> DEFINE t == Append(s, e)
<1>2. /\ t \in Seq(S) /\ Len(t) = Len(s) + 1
      /\ \A i \in 1..Len(s) : t[i] = s[i]
      /\ t[Len(s) + 1] = e
  BY AppendOf
<1>3. DOMAIN t = 1..(Len(s) + 1)
  BY <1>2, LenOf
<1> HIDE DEF t
<1>4. Range(t) = {t[i] : i \in 1..(Len(s) + 1)} /\ Range(s) = {s[i] : i \in 1..Len(s)}
  BY <1>1, <1>3 DEF Range
<1>5. 1..(Len(s) + 1) = 1..Len(s) \cup {Len(s) + 1}
  BY <1>1
<1> DEFINE n == Len(s) + 1
<1>6. {t[i] : i \in 1..Len(s)} = {s[i] : i \in 1..Len(s)}
  BY <1>2
<1>7. {t[i] : i \in 1..Len(s) \cup {n}} = {t[i] : i \in 1..Len(s)} \cup {t[n]}
  <2> HIDE DEF n
  <2> QED BY Zenon
<1> QED BY <1>2, <1>4, <1>5, <1>6, <1>7 DEF t

LEMMA RangeEmpty == Range(<<>>) = {}
BY DEF Range

-----------------------------------------------------------------------------
(* Types *)

LEMMA Units ==
  /\ Zero \in Unit /\ Blank \in Unit /\ Old \in Unit
  /\ \A i \in Images : i \in Seq(Unit) /\ Len(i) \in Nat \ {0} /\ \A k \in 1..Len(i) : i[k] \in Nat \ {0}
<1>1. Zero \in Unit /\ Blank \in Unit /\ Old \in Unit
  BY DEF Unit
<1>2. ASSUME NEW i \in Images
      PROVE  i \in Seq(Unit) /\ Len(i) \in Nat \ {0} /\ \A k \in 1..Len(i) : i[k] \in Nat \ {0}
  <2>1. i \in Seq(Nat \ {0}) /\ i # <<>>
    BY SizesAssumption
  <2>2. Len(i) \in Nat \ {0} /\ \A k \in 1..Len(i) : i[k] \in Nat \ {0}
    BY <2>1, EmptyOf, LenOf
  <2>3. i \in Seq(Range(i))
    BY <2>1, OfRange
  <2>4. Range(i) \subseteq Unit
    BY DEF Unit
  <2>5. i \in Seq(Unit)
    BY <2>3, <2>4, Larger
  <2> QED BY <2>2, <2>5
<1> QED BY <1>1, <1>2

LEMMA ProgrammedIs ==
  ASSUME NEW data \in Seq(Unit), Len(data) = EraseSize, NEW n \in 0..(EraseSize - 1)
  PROVE  /\ Programmed(data, n) \in [1..EraseSize -> Unit]
         /\ Programmed(data, n)[1] \in {data[1], Blank}
<1>1. EraseSize \in Nat \ {0} /\ n \in Nat /\ EraseSize - n \in Nat /\ 1 \in 1..EraseSize
  BY SizesAssumption
<1> DEFINE t == Take(data, n)
           f == Filled(Blank, EraseSize - n)
<1>2. t \in Seq(Unit) /\ Len(t) = n /\ \A j \in 1..Len(t) : t[j] = data[j]
  BY <1>1, TakeIs
<1>3. f \in Seq(Unit) /\ Len(f) = EraseSize - n /\ \A j \in 1..(EraseSize - n) : f[j] = Blank
  BY <1>1, Units, FilledIs, Zenon
<1> HIDE DEF t, f
<1>4. /\ t \o f \in Seq(Unit) /\ Len(t \o f) = Len(t) + Len(f)
      /\ \A i \in 1..(Len(t) + Len(f)) : (t \o f)[i] = IF i <= Len(t) THEN t[i] ELSE f[i - Len(t)]
  BY <1>2, <1>3, ConcatOf, Zenon
<1>5. Len(t) + Len(f) = EraseSize
  BY <1>1, <1>2, <1>3
<1>6. t \o f \in [1..EraseSize -> Unit]
  BY <1>4, <1>5, BlockOfSeq, Zenon
<1>7. (t \o f)[1] \in {data[1], Blank}
  <2>1. (t \o f)[1] = IF 1 <= Len(t) THEN t[1] ELSE f[1 - Len(t)]
    BY <1>1, <1>4, <1>5
  <2>2. CASE n >= 1
    BY <1>1, <1>2, <2>1, <2>2
  <2>3. CASE n = 0
    BY <1>1, <1>2, <1>3, <2>1, <2>3
  <2>4. n >= 1 \/ n = 0
    BY <1>1
  <2> QED BY <2>2, <2>3, <2>4, Zenon
<1> QED BY <1>6, <1>7 DEF Programmed, t, f

\* The padding of mtd_erase_blocks
LEMMA PaddedIs ==
  ASSUME NEW s \in Seq(Unit), Len(s) <= EraseSize
  PROVE  LET d == s \o Filled(Zero, EraseSize - Len(s))
         IN  /\ d \in Seq(Unit) /\ Len(d) = EraseSize
             /\ \A j \in 1..EraseSize : d[j] = IF j <= Len(s) THEN s[j] ELSE Zero
<1>1. EraseSize \in Nat /\ Len(s) \in Nat /\ EraseSize - Len(s) \in Nat
  BY SizesAssumption, LenOf
<1> DEFINE f == Filled(Zero, EraseSize - Len(s))
<1>2. f \in Seq(Unit) /\ Len(f) = EraseSize - Len(s) /\ \A j \in 1..(EraseSize - Len(s)) : f[j] = Zero
  BY <1>1, Units, FilledIs, Zenon
<1> HIDE DEF f
<1>3. /\ s \o f \in Seq(Unit) /\ Len(s \o f) = Len(s) + Len(f)
      /\ \A i \in 1..(Len(s) + Len(f)) : (s \o f)[i] = IF i <= Len(s) THEN s[i] ELSE f[i - Len(s)]
  BY <1>2, ConcatOf, Zenon
<1>4. Len(s) + Len(f) = EraseSize
  BY <1>1, <1>2
<1>5. ASSUME NEW j \in 1..EraseSize PROVE (s \o f)[j] = IF j <= Len(s) THEN s[j] ELSE Zero
  BY <1>1, <1>2, <1>3, <1>4
<1> QED BY <1>3, <1>4, <1>5 DEF f

\* mtd_write_data moves n units from the caller's data, t, to ctx->buffer, s.
Moved(s, t, n, s2, t2) ==
    /\ s2 \in Seq(Unit) /\ Len(s2) = Len(s) + n
    /\ t2 \in Seq(Unit) /\ Len(t2) = Len(t) - n
    /\ \A j \in 1..(Len(s) + n) : s2[j] = IF j <= Len(s) THEN s[j] ELSE t[j - Len(s)]
    /\ \A j \in 1..(Len(t) - n) : t2[j] = t[n + j]

LEMMA MovedIs ==
  ASSUME NEW s \in Seq(Unit), NEW t \in Seq(Unit), NEW n \in 0..Len(t)
  PROVE  Moved(s, t, n, s \o Take(t, n), Drop(t, n))
<1>1. Len(s) \in Nat /\ Len(t) \in Nat /\ n \in Nat
  BY LenOf
<1> DEFINE u == Take(t, n)
<1>2. u \in Seq(Unit) /\ Len(u) = n /\ \A j \in 1..Len(u) : u[j] = t[j]
  BY <1>1, TakeIs
<1> HIDE DEF u
<1>3. /\ s \o u \in Seq(Unit) /\ Len(s \o u) = Len(s) + Len(u)
      /\ \A i \in 1..(Len(s) + Len(u)) : (s \o u)[i] = IF i <= Len(s) THEN s[i] ELSE u[i - Len(s)]
  BY <1>2, ConcatOf, Zenon
<1>4. ASSUME NEW j \in 1..(Len(s) + n) PROVE (s \o u)[j] = IF j <= Len(s) THEN s[j] ELSE t[j - Len(s)]
  BY <1>1, <1>2, <1>3
<1>5. /\ Drop(t, n) \in Seq(Unit) /\ Len(Drop(t, n)) = Len(t) - n
      /\ \A j \in 1..(Len(t) - n) : Drop(t, n)[j] = t[n + j]
  BY DropIs
<1> QED BY <1>2, <1>3, <1>4, <1>5, Zenon DEF u, Moved

\* What a client reads
LEMMA ChunkIs ==
  ASSUME TypeOK, NEW n \in Nat
  PROVE  /\ Chunk(n) \in Seq(Unit) /\ Len(Chunk(n)) \in Nat
         /\ fpos + Len(Chunk(n)) \in 0..Len(image) /\ Len(Chunk(n)) <= n
         /\ \A j \in 1..Len(Chunk(n)) : Chunk(n)[j] = image[fpos + j]
<1>1. image \in Seq(Unit) /\ Len(image) \in Nat /\ fpos \in 0..Len(image)
  BY Units DEF TypeOK
<1> DEFINE d == Drop(image, fpos)
<1>2. d \in Seq(Unit) /\ Len(d) = Len(image) - fpos /\ \A j \in 1..(Len(image) - fpos) : d[j] = image[fpos + j]
  BY <1>1, DropIs, Zenon
<1> HIDE DEF d
<1>3. /\ Take(d, n) \in Seq(Unit) /\ Len(Take(d, n)) \in 0..Len(d) /\ Len(Take(d, n)) <= n
      /\ \A j \in 1..Len(Take(d, n)) : Take(d, n)[j] = d[j]
  BY <1>2, TakeIs
<1>4. Len(Take(d, n)) \in Nat /\ fpos + Len(Take(d, n)) \in 0..Len(image)
  BY <1>1, <1>2, <1>3
<1>5. ASSUME NEW j \in 1..Len(Take(d, n)) PROVE Take(d, n)[j] = image[fpos + j]
  BY <1>1, <1>2, <1>3
<1> QED BY <1>3, <1>4, <1>5 DEF Chunk, d

LEMMA HeaderIs ==
  ASSUME TypeOK
  PROVE  /\ Header \in Seq(Unit) /\ Len(Header) \in 0..Len(image) /\ Len(Header) <= HeaderSize
         /\ Len(Header) >= HeaderSize \/ Len(Header) = Len(image)
         /\ \A j \in 1..Len(Header) : Header[j] = image[j]
<1>1. image \in Seq(Unit) /\ Len(image) \in Nat /\ HeaderSize \in Nat
  BY Units, SizesAssumption DEF TypeOK
<1>2. /\ Header \in Seq(Unit) /\ Len(Header) = IF HeaderSize < Len(image) THEN HeaderSize ELSE Len(image)
      /\ \A j \in 1..Len(Header) : Header[j] = image[j]
  BY <1>1, TakeIs DEF Header
<1> QED BY <1>1, <1>2

Ctxs == [pos : 0..NBlocks, stored : Seq(Unit), badBlocks : Seq(Blocks)]
Calls == [fn : {"none", "data", "erase"}, rest : Seq(Unit), blocks : {-1, 0}]
Wbs == [ph : Phases, data : Seq(Unit), pos : 0..NBlocks, retry : 0..1]

LEMMA Parts ==
  ASSUME TypeOK
  PROVE  /\ ctx.pos \in 0..NBlocks /\ ctx.stored \in Seq(Unit) /\ ctx.badBlocks \in Seq(Blocks)
         /\ call.fn \in {"none", "data", "erase"} /\ call.rest \in Seq(Unit) /\ call.blocks \in {-1, 0}
         /\ wb.ph \in Phases /\ wb.data \in Seq(Unit) /\ wb.pos \in 0..NBlocks /\ wb.retry \in 0..1
         /\ Len(ctx.stored) \in Nat /\ Len(call.rest) \in Nat /\ Len(ctx.stored) <= EraseSize
         /\ Len(image) \in Nat \ {0} /\ fpos \in 0..Len(image) /\ image \in Seq(Unit)
<1>1. /\ ctx.pos \in 0..NBlocks /\ ctx.stored \in Seq(Unit) /\ ctx.badBlocks \in Seq(Blocks)
      /\ Len(ctx.stored) <= EraseSize
  BY DEF TypeOK
<1>2. call.fn \in {"none", "data", "erase"} /\ call.rest \in Seq(Unit) /\ call.blocks \in {-1, 0}
  BY DEF TypeOK
<1>3. wb.ph \in Phases /\ wb.data \in Seq(Unit) /\ wb.pos \in 0..NBlocks /\ wb.retry \in 0..1
  BY DEF TypeOK
<1>4. image \in Images /\ fpos \in 0..Len(image)
  BY DEF TypeOK
<1>5. Len(image) \in Nat \ {0} /\ image \in Seq(Unit)
  BY <1>4, Units
<1>6. Len(ctx.stored) \in Nat /\ Len(call.rest) \in Nat
  BY <1>1, <1>2, LenOf
<1> QED BY <1>1, <1>2, <1>3, <1>4, <1>5, <1>6

LEMMA FilledBlock ==
  /\ Filled(Blank, EraseSize) \in [1..EraseSize -> Unit] /\ Filled(Old, EraseSize) \in [1..EraseSize -> Unit]
  /\ Filled(Blank, EraseSize)[1] = Blank
<1>1. EraseSize \in Nat /\ 1 \in 1..EraseSize
  BY SizesAssumption
<1> QED BY <1>1, Units, FilledIs

LEMMA ErasedType ==
  ASSUME TypeOK, NEW s PROVE Erased(s) \in [Blocks -> [1..EraseSize -> Unit]]
BY FilledBlock DEF TypeOK, Erased

LEMMA FreshType ==
  /\ FreshCtx \in Ctxs /\ FreshCtx.pos = 0 /\ FreshCtx.stored = <<>> /\ FreshCtx.badBlocks = <<>>
  /\ NoCall \in Calls /\ NoCall.fn = "none" /\ NoCall.rest = <<>> /\ NoCall.blocks = 0
  /\ NoBlock \in Wbs /\ NoBlock.ph = "idle"
  /\ Len(<<>>) = 0 /\ 0 <= EraseSize
<1>1. <<>> \in Seq(Unit) /\ <<>> \in Seq(Blocks) /\ Len(<<>>) = 0
  BY EmptyOf
<1>2. 0 \in 0..NBlocks /\ 0 <= EraseSize
  BY SizesAssumption
<1> QED BY <1>1, <1>2 DEF FreshCtx, NoCall, NoBlock, Phases, Ctxs, Calls, Wbs

LEMMA InitType == Init => TypeOK
<1> SUFFICES ASSUME Init PROVE TypeOK
  OBVIOUS
<1>1. flash \in [Blocks -> [1..EraseSize -> Unit]]
  BY FilledBlock DEF Init
<1>2. Len(image) \in Nat /\ 0 \in 0..Len(image)
  BY Units DEF Init
<1>3. 0 \in 0..MaxFaults /\ 0 \in 0..MaxCuts
  BY SizesAssumption
<1> QED BY <1>1, <1>2, <1>3, FreshType DEF Init, TypeOK, Steps, Ctxs, Calls, Wbs

LEMMA CtxExcept ==
  ASSUME TypeOK
  PROVE  /\ \A p \in 0..NBlocks : LET c == [ctx EXCEPT !.pos = p]
            IN  c \in Ctxs /\ c.pos = p /\ c.stored = ctx.stored /\ c.badBlocks = ctx.badBlocks
         /\ \A s \in Seq(Unit) : LET c == [ctx EXCEPT !.stored = s]
            IN  c \in Ctxs /\ c.pos = ctx.pos /\ c.stored = s /\ c.badBlocks = ctx.badBlocks
         /\ \A q \in Seq(Blocks) : LET c == [ctx EXCEPT !.badBlocks = q]
            IN  c \in Ctxs /\ c.pos = ctx.pos /\ c.stored = ctx.stored /\ c.badBlocks = q
         /\ \A p \in 0..NBlocks : \A s \in Seq(Unit) : LET c == [ctx EXCEPT !.pos = p, !.stored = s]
            IN  c \in Ctxs /\ c.pos = p /\ c.stored = s /\ c.badBlocks = ctx.badBlocks
<1>1. ctx \in [pos : 0..NBlocks, stored : Seq(Unit), badBlocks : Seq(Blocks)]
  BY DEF TypeOK
<1>2. ASSUME NEW p \in 0..NBlocks, NEW s \in Seq(Unit), NEW q \in Seq(Blocks)
      PROVE  /\ [ctx EXCEPT !.pos = p] \in Ctxs /\ [ctx EXCEPT !.stored = s] \in Ctxs
             /\ [ctx EXCEPT !.badBlocks = q] \in Ctxs /\ [ctx EXCEPT !.pos = p, !.stored = s] \in Ctxs
  BY <1>1, Zenon DEF Ctxs
<1>3. 0 \in 0..NBlocks /\ <<>> \in Seq(Unit) /\ <<>> \in Seq(Blocks)
  BY SizesAssumption, EmptyOf
<1> QED BY <1>1, <1>2, <1>3, Zenon

LEMMA CallExcept ==
  ASSUME TypeOK, NEW r \in Seq(Unit)
  PROVE  LET c == [call EXCEPT !.rest = r]
         IN  c \in Calls /\ c.fn = call.fn /\ c.rest = r /\ c.blocks = call.blocks
<1>1. call \in [fn : {"none", "data", "erase"}, rest : Seq(Unit), blocks : {-1, 0}]
  BY DEF TypeOK
<1>2. [call EXCEPT !.rest = r] \in Calls
  BY <1>1, Zenon DEF Calls
<1> QED BY <1>1, <1>2

LEMMA WbExcept ==
  ASSUME TypeOK
  PROVE  /\ \A h \in Phases : LET w == [wb EXCEPT !.ph = h]
            IN  w \in Wbs /\ w.ph = h /\ w.data = wb.data /\ w.pos = wb.pos
         /\ \A p \in 0..NBlocks : LET w == [wb EXCEPT !.pos = p]
            IN  w \in Wbs /\ w.ph = wb.ph /\ w.data = wb.data /\ w.pos = p
         /\ \A h \in Phases : \A y \in 0..1 : LET w == [wb EXCEPT !.ph = h, !.retry = y]
            IN  w \in Wbs /\ w.ph = h /\ w.data = wb.data /\ w.pos = wb.pos
         /\ \A p \in 0..NBlocks : LET w == [wb EXCEPT !.ph = "test", !.pos = p]
            IN  w \in Wbs /\ w.ph = "test" /\ w.data = wb.data /\ w.pos = p
<1>1. wb \in [ph : Phases, data : Seq(Unit), pos : 0..NBlocks, retry : 0..1]
  BY DEF TypeOK
<1>2. ASSUME NEW h \in Phases, NEW p \in 0..NBlocks, NEW y \in 0..1
      PROVE  /\ [wb EXCEPT !.ph = h] \in Wbs /\ [wb EXCEPT !.pos = p] \in Wbs
             /\ [wb EXCEPT !.ph = h, !.retry = y] \in Wbs
  BY <1>1, Zenon DEF Wbs
<1>3. 0 \in 0..NBlocks /\ 0 \in 0..1 /\ "test" \in Phases
  BY SizesAssumption DEF Phases
<1>4. ASSUME NEW p \in 0..NBlocks PROVE [wb EXCEPT !.ph = "test", !.pos = p] \in Wbs
  BY <1>1, <1>3, Zenon DEF Wbs
<1> QED BY <1>1, <1>2, <1>3, <1>4, Zenon

\* One attempt less
LEMMA AttemptType ==
  ASSUME TypeOK, Attempt
  PROVE  wb' \in Wbs /\ wb'.ph \in {"erase", "giveup"} /\ wb'.data = wb.data /\ wb'.pos = wb.pos
<1> DEFINE p == IF wb.retry = 0 THEN "erase" ELSE "giveup"
<1>1. p \in {"erase", "giveup"} /\ p \in Phases /\ 1 \in 0..1 /\ wb.pos \in 0..NBlocks
  BY Parts DEF Phases
<1>2. wb' = [wb EXCEPT !.ph = p, !.retry = 1]
  BY Zenon DEF Attempt
<1> HIDE DEF p
<1>3. LET w == [wb EXCEPT !.ph = p, !.retry = 1]
      IN  w \in Wbs /\ w.ph = p /\ w.data = wb.data /\ w.pos = wb.pos
  BY <1>1, WbExcept, Zenon
<1> QED BY <1>1, <1>2, <1>3, Zenon

LEMMA FaultType ==
  ASSUME TypeOK, Fault \/ NoFault PROVE faults' \in 0..MaxFaults
<1>1. faults \in 0..MaxFaults
  BY DEF TypeOK
<1> QED BY <1>1, SizesAssumption DEF Fault, NoFault

LEMMA TypeFrom ==
  ASSUME TypeOK, bad' = bad, worn' \in SUBSET Blocks, client' = client, image' = image, cuts' \in 0..MaxCuts,
         flash' \in [Blocks -> [1..EraseSize -> Unit]], pc' \in Steps, fpos' \in 0..Len(image),
         success' \in BOOLEAN, ret' \in {-1, 0, 1}, faults' \in 0..MaxFaults,
         ctx' \in Ctxs, call' \in Calls, wb' \in Wbs,
         Len(ctx'.stored) <= EraseSize, wb'.ph # "idle" => Len(wb'.data) = EraseSize
  PROVE  TypeOK'
BY Zenon DEF TypeOK, Ctxs, Calls, Wbs

-----------------------------------------------------------------------------
(* What the steps of the library do *)

Quiet == bad' = bad /\ client' = client /\ image' = image /\ pc' = pc /\ fpos' = fpos /\ success' = success /\ cuts' = cuts

\* At most the block that write_block is at changes.
Touched ==
    /\ flash' \in [Blocks -> [1..EraseSize -> Unit]]
    /\ \A b \in Blocks \ {wb.pos} : flash'[b] = flash[b]
    /\ flash' = flash \/ flash'[wb.pos][1] \in {wb.data[1], Blank}

\* write_block stays at its block,
Stays ==
    /\ Quiet /\ Touched /\ wb.ph # "idle" /\ wb.pos \in Blocks \ bad
    /\ wb'.ph \in {"erase", "program", "verify", "giveup"} /\ wb'.pos = wb.pos /\ wb'.data = wb.data
    /\ call' = call /\ ret' = ret /\ worn' = worn
    /\ ctx'.stored = ctx.stored /\ ctx'.badBlocks = ctx.badBlocks
    /\ ctx'.pos = ctx.pos \/ ctx'.pos >= wb.pos

\* leaves it out,
Passes ==
    /\ Quiet /\ Touched /\ wb.ph # "idle" /\ wb.pos \in Blocks
    /\ wb'.ph = "test" /\ wb'.pos = wb.pos + 1 /\ wb'.data = wb.data
    /\ call' = call /\ ret' = ret /\ worn' = worn \cup ({wb.pos} \ bad)
    /\ wb.pos \in bad => flash' = flash
    /\ ctx'.stored = ctx.stored /\ ctx'.pos = ctx.pos /\ Skip' = Skip \cup {wb.pos}

\* finds that it has taken the data,
Writes ==
    /\ Quiet /\ wb.ph # "idle" /\ wb.pos \in Blocks \ bad
    /\ flash' = flash /\ flash[wb.pos] = wb.data /\ wb'.ph = "idle"
    /\ call'.fn = call.fn /\ call'.blocks = call.blocks /\ ret' = ret /\ worn' = worn
    /\ ctx'.stored = <<>> /\ ctx'.badBlocks = ctx.badBlocks /\ ctx'.pos = wb.pos + 1
    /\ IF ctx.stored = <<>>
       THEN /\ Len(call'.rest) = Len(call.rest) - EraseSize /\ Len(call.rest) >= EraseSize
            /\ \A j \in 1..Len(call'.rest) : call'.rest[j] = call.rest[EraseSize + j]
       ELSE call' = call

\* or runs out of space.
Fails ==
    /\ Quiet /\ wb.ph # "idle" /\ wb.pos = NBlocks
    /\ flash' = flash /\ wb'.ph = "idle" /\ call'.fn = "none" /\ call'.rest = <<>> /\ call'.blocks = 0
    /\ ret' = -1 /\ worn' = worn /\ ctx' = ctx

LEMMA SameFlash == ASSUME TypeOK, flash' = flash PROVE Touched
BY DEF TypeOK, Touched

LEMMA PutTouches ==
  ASSUME TypeOK, wb.pos \in Blocks, NEW c \in [1..EraseSize -> Unit], c[1] \in {wb.data[1], Blank}, Put(wb.pos, c)
  PROVE  Touched
<1>1. flash \in [Blocks -> [1..EraseSize -> Unit]]
  BY DEF TypeOK
<1>2. flash' = [flash EXCEPT ![wb.pos] = c]
  BY DEF Put
<1> QED BY <1>1, <1>2 DEF Touched

LEMMA DataLength == ASSUME TypeOK, wb.ph # "idle" PROVE Len(wb.data) = EraseSize
BY DEF TypeOK

LEMMA WriteBlockFullDoes ==
  ASSUME TypeOK, WriteBlockFull PROVE TypeOK' /\ Fails
<1>1. /\ wb.ph = "test" /\ wb.pos + 1 > NBlocks /\ ret' = -1 /\ wb' = NoBlock /\ call' = NoCall /\ ctx' = ctx
      /\ Quiet /\ flash' = flash /\ worn' = worn /\ faults' = faults
  BY DEF WriteBlockFull, program, Quiet
<1>2. wb.pos = NBlocks
  BY <1>1, Parts, SizesAssumption
<1>3. Fails
  BY <1>1, <1>2, FreshType DEF Fails
<1>4. wb' \in Wbs /\ wb'.ph = "idle" /\ call' \in Calls
  BY <1>1, FreshType
<1>5. TypeOK'
  BY <1>1, <1>4, TypeFrom, Zenon DEF TypeOK, Quiet, Ctxs
<1> QED BY <1>3, <1>5

LEMMA GoodBlockDoes ==
  ASSUME TypeOK, GoodBlock PROVE TypeOK' /\ Stays
<1>1. /\ wb.ph = "test" /\ wb.pos < NBlocks /\ wb.pos \notin bad /\ wb' = [wb EXCEPT !.ph = "erase", !.retry = 0]
      /\ Quiet /\ flash' = flash /\ worn' = worn /\ faults' = faults /\ call' = call /\ ret' = ret /\ ctx' = ctx
  BY DEF GoodBlock, program, Quiet
<1>2. wb.pos \in Blocks
  BY <1>1, Parts, SizesAssumption DEF Blocks
<1>3. "erase" \in Phases /\ 0 \in 0..1
  BY DEF Phases
<1>4. LET w == [wb EXCEPT !.ph = "erase", !.retry = 0]
      IN  w \in Wbs /\ w.ph = "erase" /\ w.data = wb.data /\ w.pos = wb.pos
  BY <1>3, WbExcept, Zenon
<1>5. wb' \in Wbs /\ wb'.ph = "erase" /\ wb'.data = wb.data /\ wb'.pos = wb.pos
  BY <1>1, <1>4
<1>6. Stays
  BY <1>1, <1>2, <1>5, SameFlash DEF Stays
<1>7. Len(wb.data) = EraseSize
  BY <1>1, DataLength
<1>8. TypeOK'
  BY <1>1, <1>5, <1>7, TypeFrom DEF TypeOK, Quiet, Ctxs, Calls
<1> QED BY <1>6, <1>8

LEMMA BlockThere ==
  ASSUME TypeOK, Shape, wb.ph \in {"erase", "program", "verify", "giveup"}
  PROVE  wb.pos \in Blocks \ bad /\ wb.ph # "idle" /\ Len(wb.data) = EraseSize
<1>1. wb.pos < NBlocks /\ wb.pos \notin bad
  BY DEF Shape
<1>2. wb.pos \in Blocks
  BY <1>1, Parts, SizesAssumption DEF Blocks
<1> QED BY <1>1, <1>2, DataLength

LEMMA EraseBlockDoes ==
  ASSUME TypeOK, Shape, EraseBlock PROVE TypeOK' /\ Stays
<1>1. /\ wb.ph = "erase" /\ Quiet /\ worn' = worn /\ call' = call /\ ret' = ret /\ ctx' = ctx
      /\ \/ Put(wb.pos, Filled(Blank, EraseSize)) /\ wb' = [wb EXCEPT !.ph = "program"] /\ NoFault
         \/ Attempt /\ Fault /\ flash' = flash
  BY DEF EraseBlock, program, Quiet
<1>2. wb.pos \in Blocks \ bad /\ wb.ph # "idle" /\ Len(wb.data) = EraseSize
  BY <1>1, BlockThere
<1>3. /\ Touched /\ faults' \in 0..MaxFaults
      /\ wb' \in Wbs /\ wb'.ph \in {"erase", "program", "giveup"} /\ wb'.data = wb.data /\ wb'.pos = wb.pos
  <2>1. CASE Put(wb.pos, Filled(Blank, EraseSize)) /\ wb' = [wb EXCEPT !.ph = "program"] /\ NoFault
    <3>1. "program" \in Phases
      BY DEF Phases
    <3>2. LET w == [wb EXCEPT !.ph = "program"]
          IN  w \in Wbs /\ w.ph = "program" /\ w.data = wb.data /\ w.pos = wb.pos
      BY <3>1, WbExcept, Zenon
    <3>3. Touched
      BY <1>2, <2>1, FilledBlock, PutTouches
    <3> QED BY <2>1, <3>2, <3>3, FaultType
  <2>2. CASE Attempt /\ Fault /\ flash' = flash
    BY <2>2, AttemptType, SameFlash, FaultType
  <2> QED BY <1>1, <2>1, <2>2
<1>4. Stays
  BY <1>1, <1>2, <1>3 DEF Stays
<1>5. TypeOK'
  BY <1>1, <1>2, <1>3, TypeFrom, Zenon DEF TypeOK, Quiet, Ctxs, Calls, Touched
<1> QED BY <1>4, <1>5

LEMMA ProgramBlockDoes ==
  ASSUME TypeOK, Shape, ProgramBlock PROVE TypeOK' /\ Stays
<1>1. /\ wb.ph = "program" /\ Quiet /\ worn' = worn /\ call' = call /\ ret' = ret /\ ctx' = ctx
      /\ wb' = [wb EXCEPT !.ph = "verify"]
      /\ \/ Put(wb.pos, wb.data) /\ NoFault
         \/ \E n \in 0..(EraseSize - 1) : Put(wb.pos, Programmed(wb.data, n)) /\ Fault
  BY DEF ProgramBlock, program, Quiet
<1>2. wb.pos \in Blocks \ bad /\ wb.ph # "idle" /\ Len(wb.data) = EraseSize /\ wb.data \in Seq(Unit)
  BY <1>1, BlockThere, Parts
<1>3. Touched /\ faults' \in 0..MaxFaults
  <2>1. CASE Put(wb.pos, wb.data) /\ NoFault
    <3>1. wb.data \in [1..EraseSize -> Unit]
      BY <1>2, BlockOfSeq
    <3> QED BY <1>2, <2>1, <3>1, PutTouches, FaultType
  <2>2. CASE \E n \in 0..(EraseSize - 1) : Put(wb.pos, Programmed(wb.data, n)) /\ Fault
    <3>1. PICK n \in 0..(EraseSize - 1) : Put(wb.pos, Programmed(wb.data, n)) /\ Fault
      BY <2>2
    <3>2. Programmed(wb.data, n) \in [1..EraseSize -> Unit] /\ Programmed(wb.data, n)[1] \in {wb.data[1], Blank}
      BY <1>2, ProgrammedIs
    <3> QED BY <1>2, <3>1, <3>2, PutTouches, FaultType
  <2> QED BY <1>1, <2>1, <2>2
<1>4. "verify" \in Phases
  BY DEF Phases
<1>5. LET w == [wb EXCEPT !.ph = "verify"]
      IN  w \in Wbs /\ w.ph = "verify" /\ w.data = wb.data /\ w.pos = wb.pos
  BY <1>4, WbExcept, Zenon
<1>6. wb' \in Wbs /\ wb'.ph = "verify" /\ wb'.data = wb.data /\ wb'.pos = wb.pos
  BY <1>1, <1>5
<1>7. Stays
  BY <1>1, <1>2, <1>3, <1>6 DEF Stays
<1>8. TypeOK'
  BY <1>1, <1>2, <1>3, <1>6, TypeFrom, Zenon DEF TypeOK, Quiet, Ctxs, Calls, Touched
<1> QED BY <1>7, <1>8

\* SkipBadBlock and GiveUp have this in common.
LEMMA PassingDoes ==
  ASSUME TypeOK, Quiet, Touched, wb.ph # "idle", wb.pos \in Blocks, wb'.ph = "test",
         \/ wb' = [wb EXCEPT !.pos = @ + 1]
         \/ wb' = [wb EXCEPT !.ph = "test", !.pos = @ + 1],
         ctx' = [ctx EXCEPT !.badBlocks = Append(@, wb.pos)], worn' = worn \cup ({wb.pos} \ bad),
         call' = call, ret' = ret, Fault \/ NoFault, wb.pos \in bad => flash' = flash
  PROVE  TypeOK' /\ Passes
<1> DEFINE p == wb.pos + 1
<1>1. p \in 0..NBlocks /\ "test" \in Phases
  BY SizesAssumption DEF Blocks, Phases
<1>2. wb' \in Wbs /\ wb'.data = wb.data /\ wb'.pos = p
  <2>1. wb' = [wb EXCEPT !.pos = p] \/ wb' = [wb EXCEPT !.ph = "test", !.pos = p]
    OBVIOUS
  <2> HIDE DEF p
  <2>2. LET w == [wb EXCEPT !.pos = p] IN w \in Wbs /\ w.data = wb.data /\ w.pos = p
    BY <1>1, WbExcept, Zenon
  <2>3. LET w == [wb EXCEPT !.ph = "test", !.pos = p] IN w \in Wbs /\ w.data = wb.data /\ w.pos = p
    BY <1>1, WbExcept, Zenon
  <2> QED BY <2>1, <2>2, <2>3, Zenon
<1> DEFINE q == Append(ctx.badBlocks, wb.pos)
<1>3. q \in Seq(Blocks)
  BY Parts, AppendOf
<1>4. Range(q) = Range(ctx.badBlocks) \cup {wb.pos}
  BY Parts, RangeAppend
<1>5. ctx' = [ctx EXCEPT !.badBlocks = q]
  OBVIOUS
<1> HIDE DEF q
<1>6. LET c == [ctx EXCEPT !.badBlocks = q]
      IN  c \in Ctxs /\ c.pos = ctx.pos /\ c.stored = ctx.stored /\ c.badBlocks = q
  BY <1>3, CtxExcept, Zenon
<1>7. ctx' \in Ctxs /\ ctx'.pos = ctx.pos /\ ctx'.stored = ctx.stored /\ ctx'.badBlocks = q
  BY <1>5, <1>6, Zenon
<1>8. Passes
  BY <1>2, <1>4, <1>7, Zenon DEF Passes, Skip
<1>9. worn' \in SUBSET Blocks /\ faults' \in 0..MaxFaults /\ Len(wb.data) = EraseSize
  BY FaultType, DataLength DEF TypeOK
<1>10. TypeOK'
  BY <1>2, <1>7, <1>9, TypeFrom, Zenon DEF TypeOK, Quiet, Calls, Touched
<1> QED BY <1>8, <1>10

LEMMA SkipBadBlockDoes ==
  ASSUME TypeOK, SkipBadBlock PROVE TypeOK' /\ Passes
<1>1. /\ wb.ph = "test" /\ wb.pos < NBlocks /\ Quiet /\ flash' = flash /\ (Fault \/ NoFault)
      /\ ctx' = [ctx EXCEPT !.badBlocks = Append(@, wb.pos)] /\ worn' = worn \cup ({wb.pos} \ bad)
      /\ wb' = [wb EXCEPT !.pos = @ + 1] /\ call' = call /\ ret' = ret
  BY DEF SkipBadBlock, program, Quiet
<1>2. wb.pos \in Blocks
  BY <1>1, Parts, SizesAssumption DEF Blocks
<1>3. wb'.ph = "test"
  BY <1>1 DEF TypeOK
<1> QED BY <1>1, <1>2, <1>3, SameFlash, PassingDoes

LEMMA GiveUpDoes ==
  ASSUME TypeOK, Shape, GiveUp PROVE TypeOK' /\ Passes
<1>1. /\ wb.ph = "giveup" /\ Quiet
      /\ (Put(wb.pos, Filled(Blank, EraseSize)) /\ NoFault) \/ (Fault /\ flash' = flash)
      /\ ctx' = [ctx EXCEPT !.badBlocks = Append(@, wb.pos)] /\ worn' = worn \cup ({wb.pos} \ bad)
      /\ wb' = [wb EXCEPT !.ph = "test", !.pos = @ + 1] /\ call' = call /\ ret' = ret
  BY DEF GiveUp, program, Quiet
<1>2. wb.pos \in Blocks \ bad /\ wb.ph # "idle"
  BY <1>1, BlockThere
<1>3. Touched /\ (Fault \/ NoFault)
  BY <1>1, <1>2, FilledBlock, PutTouches, SameFlash, Zenon
<1>4. wb'.ph = "test"
  BY <1>1 DEF TypeOK
<1> QED BY <1>1, <1>2, <1>3, <1>4, PassingDoes

LEMMA VerifyBlockDoes ==
  ASSUME TypeOK, Shape, VerifyBlock PROVE TypeOK' /\ (Stays \/ Writes)
<1>1. /\ wb.ph = "verify" /\ Quiet /\ flash' = flash /\ worn' = worn /\ ret' = ret
      /\ \/ flash[wb.pos] = wb.data /\ BlockWritten /\ NoFault
         \/ Attempt /\ NoFault /\ ctx' = [ctx EXCEPT !.pos = wb.pos + 1] /\ call' = call
         \/ Attempt /\ Fault /\ ctx' = [ctx EXCEPT !.pos = wb.pos] /\ call' = call
  BY DEF VerifyBlock, program, Quiet
<1>2. wb.pos \in Blocks \ bad /\ wb.ph # "idle" /\ Len(wb.data) = EraseSize
  BY <1>1, BlockThere
<1> DEFINE q == wb.pos + 1
<1>3. wb.pos \in 0..NBlocks /\ q \in 0..NBlocks /\ q >= wb.pos /\ wb.pos >= wb.pos
  BY <1>2, SizesAssumption DEF Blocks
<1>4. faults' \in 0..MaxFaults
  BY <1>1, FaultType
<1>5. Touched
  BY <1>1, SameFlash
<1>6. CASE flash[wb.pos] = wb.data /\ BlockWritten /\ NoFault
  <2>1. /\ wb' = NoBlock /\ ctx' = [ctx EXCEPT !.pos = q, !.stored = <<>>]
        /\ call' = IF ctx.stored = <<>> THEN [call EXCEPT !.rest = Drop(call.rest, EraseSize)] ELSE call
    BY <1>6 DEF BlockWritten
  <2> HIDE DEF q
  <2>2. <<>> \in Seq(Unit) /\ Len(<<>>) <= EraseSize
    BY EmptyOf, FreshType
  <2>3. LET c == [ctx EXCEPT !.pos = q, !.stored = <<>>]
        IN  c \in Ctxs /\ c.pos = q /\ c.stored = <<>> /\ c.badBlocks = ctx.badBlocks
    BY <1>3, <2>2, CtxExcept, Zenon
  <2>4. ctx' \in Ctxs /\ ctx'.pos = q /\ ctx'.stored = <<>> /\ ctx'.badBlocks = ctx.badBlocks
    BY <2>1, <2>3
  <2>5. wb' \in Wbs /\ wb'.ph = "idle"
    BY <2>1, FreshType
  <2>6. /\ call' \in Calls /\ call'.fn = call.fn /\ call'.blocks = call.blocks
        /\ IF ctx.stored = <<>>
           THEN /\ Len(call'.rest) = Len(call.rest) - EraseSize /\ Len(call.rest) >= EraseSize
                /\ \A j \in 1..Len(call'.rest) : call'.rest[j] = call.rest[EraseSize + j]
           ELSE call' = call
    <3>1. CASE ctx.stored # <<>>
      BY <2>1, <3>1 DEF TypeOK, Calls
    <3>2. CASE ctx.stored = <<>>
      <4> DEFINE d == Drop(call.rest, EraseSize)
      <4>1. Len(call.rest) >= EraseSize /\ EraseSize \in 0..Len(call.rest)
        <5>1. Len(call.rest) >= EraseSize
          BY <1>2, <3>2, FreshType, SizesAssumption DEF Shape
        <5> QED BY <5>1, Parts, SizesAssumption
      <4>2. /\ d \in Seq(Unit) /\ Len(d) = Len(call.rest) - EraseSize
            /\ \A j \in 1..(Len(call.rest) - EraseSize) : d[j] = call.rest[EraseSize + j]
        BY <4>1, Parts, DropIs, Zenon
      <4>3. call' = [call EXCEPT !.rest = d]
        BY <2>1, <3>2
      <4> HIDE DEF d
      <4>4. LET c == [call EXCEPT !.rest = d] IN c \in Calls /\ c.fn = call.fn /\ c.rest = d /\ c.blocks = call.blocks
        BY <4>2, CallExcept
      <4>5. call' \in Calls /\ call'.fn = call.fn /\ call'.rest = d /\ call'.blocks = call.blocks
        BY <4>3, <4>4
      <4> QED BY <3>2, <4>1, <4>2, <4>5
    <3> QED BY <3>1, <3>2
  <2>7. Writes
    BY <1>1, <1>2, <1>6, <2>4, <2>5, <2>6 DEF Writes, q
  <2>8. TypeOK'
    BY <1>1, <1>4, <2>2, <2>4, <2>5, <2>6, TypeFrom, Zenon DEF TypeOK, Quiet
  <2> QED BY <2>7, <2>8
<1>7. CASE /\ Attempt /\ call' = call
           /\ ctx' = [ctx EXCEPT !.pos = q] \/ ctx' = [ctx EXCEPT !.pos = wb.pos]
  <2> HIDE DEF q
  <2>1. LET c == [ctx EXCEPT !.pos = q]
        IN  c \in Ctxs /\ c.pos = q /\ c.stored = ctx.stored /\ c.badBlocks = ctx.badBlocks
    BY <1>3, CtxExcept, Zenon
  <2>2. LET c == [ctx EXCEPT !.pos = wb.pos]
        IN  c \in Ctxs /\ c.pos = wb.pos /\ c.stored = ctx.stored /\ c.badBlocks = ctx.badBlocks
    BY <1>3, CtxExcept, Zenon
  <2>3. ctx' \in Ctxs /\ ctx'.pos >= wb.pos /\ ctx'.stored = ctx.stored /\ ctx'.badBlocks = ctx.badBlocks
    BY <1>3, <1>7, <2>1, <2>2, Zenon
  <2>4. wb' \in Wbs /\ wb'.ph \in {"erase", "giveup"} /\ wb'.data = wb.data /\ wb'.pos = wb.pos
    BY <1>7, AttemptType
  <2>5. Stays
    BY <1>1, <1>2, <1>5, <1>7, <2>3, <2>4 DEF Stays
  <2>6. TypeOK'
    BY <1>1, <1>2, <1>4, <1>7, <2>3, <2>4, TypeFrom, Zenon DEF TypeOK, Quiet, Calls
  <2> QED BY <2>5, <2>6
<1> QED BY <1>1, <1>6, <1>7

\* mtd_write_data moves n units, and has a block to write or is done.
Gathers ==
    /\ Quiet /\ flash' = flash /\ worn' = worn /\ wb.ph = "idle" /\ call.fn = "data"
    /\ ctx'.pos = ctx.pos /\ ctx'.badBlocks = ctx.badBlocks
    /\ \E n \in 0..Len(call.rest) : Moved(ctx.stored, call.rest, n, ctx'.stored, call'.rest)
    /\ \/ /\ wb'.ph = "test" /\ wb'.pos = ctx.pos /\ ret' = ret /\ call'.fn = "data" /\ call'.blocks = call.blocks
          /\ \/ Len(ctx'.stored) = EraseSize /\ wb'.data = ctx'.stored
             \/ ctx'.stored = <<>> /\ Len(call'.rest) >= EraseSize /\ \A j \in 1..EraseSize : wb'.data[j] = call'.rest[j]
       \/ /\ wb' = wb /\ ret' = 0 /\ call'.fn = "none" /\ call'.rest = <<>> /\ call'.blocks = 0
          /\ Len(ctx'.stored) < EraseSize

\* mtd_erase_blocks has a block to write,
Pads ==
    /\ Quiet /\ flash' = flash /\ worn' = worn /\ wb.ph = "idle" /\ call.fn = "erase" /\ ctx.stored # <<>>
    /\ ctx' = ctx /\ call' = call /\ ret' = ret
    /\ wb'.ph = "test" /\ wb'.pos = ctx.pos
    /\ \A j \in 1..EraseSize : wb'.data[j] = IF j <= Len(ctx.stored) THEN ctx.stored[j] ELSE Zero

\* or erases and is done.
Clears ==
    /\ Quiet /\ worn' = worn /\ wb.ph = "idle" /\ call.fn = "erase" /\ ctx.stored = <<>>
    /\ ctx' = ctx /\ wb' = wb /\ call'.fn = "none" /\ call'.rest = <<>> /\ call'.blocks = 0 /\ ret' = 0
    /\ \A b \in Blocks : b < ctx.pos => flash'[b] = flash[b]
    /\ call.blocks = 0 => flash' = flash

LEMMA StartBlockDoes ==
  ASSUME TypeOK, NEW data \in Seq(Unit), StartBlock(data)
  PROVE  wb' \in Wbs /\ wb'.ph = "test" /\ wb'.data = data /\ wb'.pos = ctx.pos
<1>1. wb' = [ph |-> "test", data |-> data, pos |-> ctx.pos, retry |-> 0]
  BY DEF StartBlock
<1>2. "test" \in Phases /\ ctx.pos \in 0..NBlocks /\ 0 \in 0..1
  BY Parts DEF Phases
<1> QED BY <1>1, <1>2 DEF Wbs

LEMMA WriteDataDoes ==
  ASSUME TypeOK, WriteData PROVE TypeOK' /\ Gathers
<1> DEFINE n == IF ctx.stored # <<>> \/ Len(call.rest) < EraseSize
                THEN Len(Take(call.rest, EraseSize - Len(ctx.stored))) ELSE 0
           stored == ctx.stored \o Take(call.rest, n)
           rest == Drop(call.rest, n)
<1>1. /\ call.fn = "data" /\ wb.ph = "idle" /\ Quiet /\ flash' = flash /\ worn' = worn /\ faults' = faults
      /\ ctx' = [ctx EXCEPT !.stored = stored]
      /\ \/ Len(stored) = EraseSize /\ StartBlock(stored) /\ call' = [call EXCEPT !.rest = rest] /\ ret' = ret
         \/ /\ stored = <<>> /\ Len(rest) >= EraseSize /\ StartBlock(Take(rest, EraseSize))
            /\ call' = [call EXCEPT !.rest = rest] /\ ret' = ret
         \/ Len(stored) < EraseSize /\ rest = <<>> /\ Return(0) /\ wb' = wb
  BY Zenon DEF WriteData, program, Quiet
<1>2. n \in 0..Len(call.rest) /\ Len(ctx.stored) + n <= EraseSize
  <2>1. EraseSize - Len(ctx.stored) \in Nat
    BY Parts, SizesAssumption
  <2> DEFINE m == Len(Take(call.rest, EraseSize - Len(ctx.stored)))
  <2>2. m \in 0..Len(call.rest) /\ m <= EraseSize - Len(ctx.stored)
    BY <2>1, Parts, TakeIs
  <2> HIDE DEF m
  <2>3. n = m \/ n = 0
    BY DEF m
  <2>4. Len(call.rest) \in Nat /\ Len(ctx.stored) \in Nat /\ EraseSize \in Nat
    BY Parts, SizesAssumption
  <2> HIDE DEF n
  <2> QED BY <2>1, <2>2, <2>3, <2>4
<1> HIDE DEF n
<1>3. /\ Moved(ctx.stored, call.rest, n, stored, rest)
      /\ stored \in Seq(Unit) /\ Len(stored) = Len(ctx.stored) + n /\ rest \in Seq(Unit)
  <2>1. ctx.stored \in Seq(Unit) /\ call.rest \in Seq(Unit)
    BY Parts
  <2>2. Moved(ctx.stored, call.rest, n, stored, rest)
    BY <1>2, <2>1, MovedIs
  <2> HIDE DEF stored, rest
  <2> QED BY <2>2 DEF Moved
<1> HIDE DEF stored, rest
<1>4. LET c == [ctx EXCEPT !.stored = stored]
      IN  c \in Ctxs /\ c.pos = ctx.pos /\ c.stored = stored /\ c.badBlocks = ctx.badBlocks
  BY <1>3, CtxExcept, Zenon
<1>5. /\ ctx' \in Ctxs /\ ctx'.pos = ctx.pos /\ ctx'.stored = stored /\ ctx'.badBlocks = ctx.badBlocks
      /\ Len(ctx'.stored) <= EraseSize
  BY <1>1, <1>2, <1>3, <1>4
<1>6. LET c == [call EXCEPT !.rest = rest] IN c \in Calls /\ c.fn = call.fn /\ c.rest = rest /\ c.blocks = call.blocks
  BY <1>3, CallExcept
<1>7. /\ call' \in Calls /\ wb' \in Wbs /\ ret' \in {-1, 0, 1} /\ call'.rest = rest
      /\ wb'.ph # "idle" => Len(wb'.data) = EraseSize
      /\ \/ /\ wb'.ph = "test" /\ wb'.pos = ctx.pos /\ ret' = ret /\ call'.fn = "data" /\ call'.blocks = call.blocks
            /\ \/ Len(stored) = EraseSize /\ wb'.data = stored
               \/ stored = <<>> /\ Len(rest) >= EraseSize /\ \A j \in 1..EraseSize : wb'.data[j] = rest[j]
         \/ /\ wb' = wb /\ ret' = 0 /\ call'.fn = "none" /\ call'.rest = <<>> /\ call'.blocks = 0
            /\ Len(stored) < EraseSize
  <2>1. CASE Len(stored) = EraseSize /\ StartBlock(stored) /\ call' = [call EXCEPT !.rest = rest] /\ ret' = ret
    <3>1. wb' \in Wbs /\ wb'.ph = "test" /\ wb'.data = stored /\ wb'.pos = ctx.pos
      BY <1>3, <2>1, StartBlockDoes
    <3>2. ret \in {-1, 0, 1}
      BY DEF TypeOK
    <3> QED BY <1>1, <1>6, <2>1, <3>1, <3>2
  <2>2. CASE /\ stored = <<>> /\ Len(rest) >= EraseSize /\ StartBlock(Take(rest, EraseSize))
             /\ call' = [call EXCEPT !.rest = rest] /\ ret' = ret
    <3> DEFINE d == Take(rest, EraseSize)
    <3>1. EraseSize \in Nat /\ Len(rest) \in Nat
      BY <1>3, SizesAssumption, LenOf
    <3>2. d \in Seq(Unit) /\ Len(d) = EraseSize /\ \A j \in 1..EraseSize : d[j] = rest[j]
      <4>1. rest \in Seq(Unit)
        BY <1>3
      <4>2. /\ d \in Seq(Unit) /\ Len(d) = IF EraseSize < Len(rest) THEN EraseSize ELSE Len(rest)
            /\ \A j \in 1..Len(d) : d[j] = rest[j]
        BY <3>1, <4>1, TakeIs
      <4> HIDE DEF d
      <4>3. Len(d) = EraseSize
        BY <2>2, <3>1, <4>2
      <4> QED BY <4>2, <4>3
    <3> HIDE DEF d
    <3>3. wb' \in Wbs /\ wb'.ph = "test" /\ wb'.data = d /\ wb'.pos = ctx.pos
      BY <2>2, <3>2, StartBlockDoes DEF d
    <3>4. ret \in {-1, 0, 1}
      BY DEF TypeOK
    <3> QED BY <1>1, <1>6, <2>2, <3>2, <3>3, <3>4
  <2>3. CASE Len(stored) < EraseSize /\ rest = <<>> /\ Return(0) /\ wb' = wb
    <3>1. ret' = 0 /\ call' = NoCall
      BY <2>3 DEF Return
    <3>2. wb \in Wbs
      BY DEF TypeOK, Wbs
    <3> QED BY <1>1, <2>3, <3>1, <3>2, FreshType
  <2> QED BY <1>1, <2>1, <2>2, <2>3
<1>8. Gathers
  BY <1>1, <1>2, <1>3, <1>5, <1>7 DEF Gathers
<1>9. TypeOK'
  BY <1>1, <1>5, <1>7, TypeFrom, Zenon DEF TypeOK, Quiet
<1> QED BY <1>8, <1>9

LEMMA PadBlockDoes ==
  ASSUME TypeOK, PadBlock PROVE TypeOK' /\ Pads
<1> DEFINE d == ctx.stored \o Filled(Zero, EraseSize - Len(ctx.stored))
<1>1. /\ call.fn = "erase" /\ wb.ph = "idle" /\ ctx.stored # <<>> /\ StartBlock(d) /\ Quiet
      /\ flash' = flash /\ worn' = worn /\ faults' = faults /\ ctx' = ctx /\ call' = call /\ ret' = ret
  BY DEF PadBlock, program, Quiet
<1>2. /\ d \in Seq(Unit) /\ Len(d) = EraseSize
      /\ \A j \in 1..EraseSize : d[j] = IF j <= Len(ctx.stored) THEN ctx.stored[j] ELSE Zero
  BY Parts, PaddedIs, Zenon
<1> HIDE DEF d
<1>3. wb' \in Wbs /\ wb'.ph = "test" /\ wb'.data = d /\ wb'.pos = ctx.pos
  BY <1>1, <1>2, StartBlockDoes
<1>4. Pads
  BY <1>1, <1>2, <1>3 DEF Pads
<1>5. TypeOK'
  BY <1>1, <1>2, <1>3, TypeFrom, SMTT(30) DEF TypeOK, Quiet, Ctxs, Calls
<1> QED BY <1>4, <1>5

\* Erasing only some of ToErase
LEMMA ErasedIs ==
  ASSUME TypeOK, NEW s \in SUBSET ToErase, flash' = Erased(s)
  PROVE  /\ flash' \in [Blocks -> [1..EraseSize -> Unit]]
         /\ \A b \in Blocks : b < ctx.pos => flash'[b] = flash[b]
         /\ call.blocks = 0 => flash' = flash
<1>1. \A b \in Blocks : b < ctx.pos => b \notin s
  BY Parts, SizesAssumption DEF ToErase, Blocks
<1>2. \A b \in Blocks : b \notin s => flash'[b] = flash[b]
  BY DEF Erased
<1>3. call.blocks = 0 => s = {}
  BY DEF ToErase
<1>4. flash' \in [Blocks -> [1..EraseSize -> Unit]] /\ flash \in [Blocks -> [1..EraseSize -> Unit]]
  BY ErasedType DEF TypeOK
<1> QED BY <1>1, <1>2, <1>3, <1>4

LEMMA EraseBlocksDoes ==
  ASSUME TypeOK, EraseBlocks PROVE TypeOK' /\ Clears
<1>1. /\ call.fn = "erase" /\ wb.ph = "idle" /\ ctx.stored = <<>> /\ Quiet
      /\ worn' = worn /\ ctx' = ctx /\ wb' = wb /\ Return(0)
      /\ (Fault \/ NoFault) /\ \E s \in SUBSET ToErase : flash' = Erased(s)
  BY DEF EraseBlocks, program, Quiet
<1>2. ret' = 0 /\ call' = NoCall
  BY <1>1 DEF Return
<1>3. /\ flash' \in [Blocks -> [1..EraseSize -> Unit]]
      /\ \A b \in Blocks : b < ctx.pos => flash'[b] = flash[b]
      /\ call.blocks = 0 => flash' = flash
  BY <1>1, ErasedIs
<1>4. Clears
  BY <1>1, <1>2, <1>3, FreshType DEF Clears
<1>5. faults' \in 0..MaxFaults /\ call' \in Calls
  BY <1>1, <1>2, FaultType, FreshType
<1>6. TypeOK'
  BY <1>1, <1>2, <1>3, <1>5, TypeFrom DEF TypeOK, Quiet, Ctxs, Wbs
<1> QED BY <1>4, <1>6

-----------------------------------------------------------------------------
(* What the steps of the clients do *)

Still ==
    /\ call.fn = "none" /\ pc # "end"
    /\ flash' = flash /\ bad' = bad /\ worn' = worn /\ client' = client /\ image' = image /\ wb' = wb

\* A client opens a context and makes its first call,
Begins ==
    /\ Still /\ ctx' = FreshCtx /\ ret' = 1 /\ success' = success
    /\ \/ /\ call'.fn = "data" /\ call'.blocks = 0 /\ fpos' = Len(call'.rest)
          /\ \A j \in 1..Len(call'.rest) :
                call'.rest[j] = IF pc' = "pass1" /\ j <= HeaderSize THEN Zero ELSE image[j]
          /\ \/ client \in {"partition", "bcb"} /\ pc = "begin" /\ pc' = "data" /\ fpos' = Len(image)
             \/ client = "raw" /\ pc = "begin" /\ pc' = "data"
             \/ client = "flash" /\ pc = "begin" /\ pc' = "pass1" /\ (fpos' >= HeaderSize \/ fpos' = Len(image))
             \/ client = "flash" /\ pc = "close1" /\ ret = 0 /\ pc' = "pass2" /\ fpos' <= EraseSize
       \/ /\ call'.fn = "erase" /\ call'.rest = <<>> /\ fpos' = fpos
          /\ client \in {"format", "raw"} /\ pc = "begin" /\ pc' = "erase"

\* has more data,
Continues ==
    /\ Still /\ ctx' = ctx /\ ret = 0 /\ ret' = 1 /\ success' = success /\ pc' = pc
    /\ call'.fn = "data" /\ call'.blocks = 0 /\ fpos < Len(image) /\ fpos' = fpos + Len(call'.rest)
    /\ \A j \in 1..Len(call'.rest) : call'.rest[j] = image[fpos + j]
    /\ (client = "raw" /\ pc = "data") \/ (client = "flash" /\ pc \in {"pass1", "pass2"})
    /\ pc = "pass2" => fpos' <= EraseSize

\* has no more,
Turns ==
    /\ Still /\ ctx' = ctx /\ ret' = 1 /\ fpos' = fpos
    /\ call'.fn = "erase" /\ call'.rest = <<>> /\ (client = "flash" => call'.blocks = 0)
    /\ \/ /\ success' = success /\ ret = 0
          /\ \/ client = "partition" /\ pc = "data" /\ pc' = "erase"
             \/ client = "bcb" /\ pc = "data" /\ pc' = "close"
             \/ client \in {"partition", "bcb", "format"} /\ pc = "erase" /\ pc' = "close"
             \/ client = "flash" /\ pc = "pass1" /\ fpos = Len(image) /\ pc' = "close1"
             \/ client = "flash" /\ pc = "pass2" /\ fpos = EraseSize /\ pc' = "close"
       \/ /\ success' = success /\ ret = -1
          /\ client \in {"partition", "bcb", "format"} /\ pc \in {"data", "erase"} /\ pc' = "undo"
       \/ /\ client = "raw" /\ pc = "data" /\ pc' = "erase"
          /\ (ret = 0 /\ (success' = success \/ success' = TRUE)) \/ (ret = -1 /\ success' = FALSE)
       \/ success' = success /\ client = "raw" /\ pc = "erase" /\ pc' = "close"

\* or returns.
Ends ==
    /\ Still /\ ctx' = ctx /\ call' = call /\ fpos' = fpos /\ pc' = "end"
    /\ \/ ret' = 1 /\ success' = FALSE
       \/ /\ ret' = ret
          /\ \/ client \in {"partition", "bcb", "format"} /\ pc = "undo" /\ success' = FALSE
             \/ client \in {"partition", "bcb", "format", "flash"} /\ pc = "close" /\ success' = (ret = 0)
             \/ client = "raw" /\ pc = "close" /\ success' = success
             \/ client = "flash" /\ pc = "begin" /\ success' = TRUE
             \/ client = "flash" /\ fpos = Len(image) /\ fpos < EraseSize /\ success' = FALSE
             \/ client = "flash" /\ ret = -1 /\ success' = FALSE

LEMMA ClientIdle == ASSUME Shape, call.fn = "none" PROVE wb.ph = "idle" /\ call.rest = <<>>
BY DEF Shape

LEMMA CallDoes ==
  /\ \A d \in Seq(Unit) : Data(d) => call' \in Calls /\ call'.fn = "data" /\ call'.rest = d /\ call'.blocks = 0
  /\ \A n \in {-1, 0} : Erase(n) => call' \in Calls /\ call'.fn = "erase" /\ call'.rest = <<>> /\ call'.blocks = n
<1>1. <<>> \in Seq(Unit)
  BY EmptyOf
<1>2. ASSUME NEW d \in Seq(Unit), Data(d)
      PROVE  call' \in Calls /\ call'.fn = "data" /\ call'.rest = d /\ call'.blocks = 0
  BY <1>2 DEF Data, Calls
<1>3. ASSUME NEW n \in {-1, 0}, Erase(n)
      PROVE  call' \in Calls /\ call'.fn = "erase" /\ call'.rest = <<>> /\ call'.blocks = n
  BY <1>1, <1>3 DEF Erase, Calls
<1> QED BY <1>2, <1>3

\* Types of what a client leaves alone
LEMMA ClientType ==
  ASSUME TypeOK, Shape, Still, pc' \in Steps, fpos' \in 0..Len(image), success' \in BOOLEAN, ret' \in {-1, 0, 1},
         ctx' = ctx \/ ctx' = FreshCtx, call' \in Calls, cuts' = cuts, Fault \/ NoFault
  PROVE  TypeOK'
<1>1. /\ wb' \in Wbs /\ wb'.ph = "idle" /\ flash' \in [Blocks -> [1..EraseSize -> Unit]] /\ worn' \in SUBSET Blocks
      /\ bad' = bad /\ client' = client /\ image' = image /\ cuts' \in 0..MaxCuts /\ faults' \in 0..MaxFaults
  BY ClientIdle, FaultType DEF TypeOK, Still, Wbs
<1>2. ctx' \in Ctxs /\ Len(ctx'.stored) <= EraseSize
  <2>1. ctx \in Ctxs /\ Len(ctx.stored) <= EraseSize
    BY DEF TypeOK, Ctxs
  <2>2. FreshCtx \in Ctxs /\ Len(FreshCtx.stored) <= EraseSize
    BY FreshType
  <2> QED BY <2>1, <2>2
<1> QED BY <1>1, <1>2, TypeFrom

LEMMA StillFrom ==
  ASSUME Untouched, call.fn = "none", pc # "end" PROVE Still /\ cuts' = cuts /\ NoFault
BY DEF Untouched, Still, NoFault

LEMMA PartitionBeginDoes ==
  ASSUME TypeOK, Shape, PartitionBegin PROVE TypeOK' /\ Begins
<1>1. /\ client \in {"partition", "bcb"} /\ pc = "begin" /\ call.fn = "none" /\ ctx' = FreshCtx /\ pc' = "data" /\ ret' = 1
      /\ Data(image) /\ fpos' = Len(image) /\ success' = success /\ Untouched
  BY DEF PartitionBegin, Back, Goto
<1>2. Still /\ cuts' = cuts /\ NoFault
  BY <1>1, StillFrom
<1>3. call' \in Calls /\ call'.fn = "data" /\ call'.rest = image /\ call'.blocks = 0
  BY <1>1, Parts, CallDoes
<1>4. Begins
  BY <1>1, <1>2, <1>3 DEF Begins
<1>5. pc' \in Steps /\ fpos' \in 0..Len(image) /\ success' \in BOOLEAN /\ ret' \in {-1, 0, 1}
  BY <1>1, Parts DEF Steps, TypeOK
<1> QED BY <1>1, <1>2, <1>3, <1>4, <1>5, ClientType

LEMMA FormatBeginDoes ==
  ASSUME TypeOK, Shape, FormatBegin PROVE TypeOK' /\ Begins
<1>1. /\ client = "format" /\ pc = "begin" /\ call.fn = "none" /\ ctx' = FreshCtx /\ pc' = "erase" /\ ret' = 1
      /\ Erase(-1) /\ fpos' = fpos /\ success' = success /\ Untouched
  BY DEF FormatBegin, Back, Goto
<1>2. Still /\ cuts' = cuts /\ NoFault
  BY <1>1, StillFrom
<1>3. call' \in Calls /\ call'.fn = "erase" /\ call'.rest = <<>>
  BY <1>1, CallDoes
<1>4. Begins
  BY <1>1, <1>2, <1>3 DEF Begins
<1>5. pc' \in Steps /\ fpos' \in 0..Len(image) /\ success' \in BOOLEAN /\ ret' \in {-1, 0, 1}
  BY <1>1 DEF Steps, TypeOK
<1> QED BY <1>1, <1>2, <1>3, <1>4, <1>5, ClientType

LEMMA PartitionNextDoes ==
  ASSUME TypeOK, Shape, PartitionNext \/ BcbNext PROVE TypeOK' /\ Turns
<1>1. /\ call.fn = "none" /\ ret' = 1 /\ (Erase(-1) \/ Erase(0))
      /\ fpos' = fpos /\ success' = success /\ ctx' = ctx /\ Untouched
      /\ \/ /\ ret = 0
            /\ \/ client = "partition" /\ pc = "data" /\ pc' = "erase"
               \/ client = "bcb" /\ pc = "data" /\ pc' = "close"
               \/ client \in {"partition", "bcb", "format"} /\ pc = "erase" /\ pc' = "close"
         \/ /\ ret = -1 /\ client \in {"partition", "bcb", "format"}
            /\ pc \in {"data", "erase"} /\ pc' = "undo"
  BY DEF PartitionNext, BcbNext, Back, Goto, Close
<1>2. Still /\ cuts' = cuts /\ NoFault
  BY <1>1, StillFrom
<1>3. call' \in Calls /\ call'.fn = "erase" /\ call'.rest = <<>>
  BY <1>1, CallDoes
<1>4. Turns
  BY <1>1, <1>2, <1>3 DEF Turns
<1>5. pc' \in Steps /\ fpos' \in 0..Len(image) /\ success' \in BOOLEAN /\ ret' \in {-1, 0, 1}
  BY <1>1 DEF Steps, TypeOK
<1> QED BY <1>1, <1>2, <1>3, <1>4, <1>5, ClientType

\* Clients return by End.
LEMMA EndDoes ==
  ASSUME TypeOK, Shape, Still, cuts' = cuts, Fault \/ NoFault, NEW ok \in BOOLEAN, End(ok)
  PROVE  TypeOK' /\ pc' = "end" /\ success' = ok /\ ret' = ret /\ ctx' = ctx /\ call' = call /\ fpos' = fpos
<1>1. pc' = "end" /\ success' = ok /\ ret' = ret /\ ctx' = ctx /\ call' = call /\ fpos' = fpos
  BY DEF End
<1>2. pc' \in Steps /\ fpos' \in 0..Len(image) /\ success' \in BOOLEAN /\ ret' \in {-1, 0, 1} /\ call' \in Calls
  BY <1>1, Zenon DEF Steps, TypeOK, Calls
<1> QED BY <1>1, <1>2, ClientType

LEMMA PartitionEndDoes ==
  ASSUME TypeOK, Shape, PartitionEnd PROVE TypeOK' /\ Ends
<1>1. /\ client \in {"partition", "bcb", "format"} /\ Untouched /\ call.fn = "none"
      /\ (pc = "undo" /\ End(FALSE)) \/ (pc = "close" /\ End(ret = 0))
  BY Zenon DEF PartitionEnd, Back
<1>2. Still /\ cuts' = cuts /\ NoFault
  BY <1>1, StillFrom, Zenon
<1>3. (ret = 0) \in BOOLEAN /\ FALSE \in BOOLEAN
  OBVIOUS
<1>4. /\ TypeOK' /\ pc' = "end" /\ ret' = ret /\ ctx' = ctx /\ call' = call /\ fpos' = fpos
      /\ (pc = "undo" /\ success' = FALSE) \/ (pc = "close" /\ success' = (ret = 0))
  BY <1>1, <1>2, <1>3, EndDoes, Zenon
<1> QED BY <1>1, <1>2, <1>4 DEF Ends

LEMMA ClientFailsDoes ==
  ASSUME TypeOK, Shape, ClientFails PROVE TypeOK' /\ Ends
<1>1. /\ Still /\ Fault /\ pc' = "end" /\ success' = FALSE /\ ret' = 1
      /\ fpos' = fpos /\ ctx' = ctx /\ call' = call /\ cuts' = cuts
  BY DEF ClientFails, Still
<1>2. pc' \in Steps /\ fpos' \in 0..Len(image) /\ success' \in BOOLEAN /\ ret' \in {-1, 0, 1} /\ call' \in Calls
  BY <1>1, Zenon DEF Steps, TypeOK, Calls
<1>3. TypeOK'
  BY <1>1, <1>2, ClientType
<1> QED BY <1>1, <1>3 DEF Ends

\* The next chunk of the file
LEMMA ChunkDoes ==
  ASSUME TypeOK, NEW n \in Nat, Data(Chunk(n)), fpos' = fpos + Len(Chunk(n))
  PROVE  /\ call' \in Calls /\ call'.fn = "data" /\ call'.blocks = 0 /\ fpos' \in 0..Len(image)
         /\ fpos' = fpos + Len(call'.rest) /\ Len(call'.rest) \in Nat /\ Len(call'.rest) <= n
         /\ \A j \in 1..Len(call'.rest) : call'.rest[j] = image[fpos + j]
<1> DEFINE c == Chunk(n)
<1>1. /\ c \in Seq(Unit) /\ Len(c) \in Nat /\ fpos + Len(c) \in 0..Len(image) /\ Len(c) <= n
      /\ \A j \in 1..Len(c) : c[j] = image[fpos + j]
  BY ChunkIs
<1>2. Data(c) /\ fpos' = fpos + Len(c)
  OBVIOUS
<1> HIDE DEF c
<1>3. call' \in Calls /\ call'.fn = "data" /\ call'.rest = c /\ call'.blocks = 0
  BY <1>1, <1>2, CallDoes
<1> QED BY <1>1, <1>2, <1>3

LEMMA RawNextDoes ==
  ASSUME TypeOK, Shape, Course, RawNext PROVE TypeOK' /\ (Begins \/ Continues \/ Turns \/ Ends)
<1>1. client = "raw" /\ Untouched /\ BufSize \in Nat
  BY SizesAssumption DEF RawNext
<1>2. CASE /\ Back("begin") /\ ctx' = FreshCtx /\ Goto("data") /\ Data(Chunk(BufSize))
           /\ fpos' = fpos + Len(Chunk(BufSize)) /\ success' = success
  <2>1. pc = "begin" /\ call.fn = "none" /\ pc' = "data" /\ ret' = 1 /\ fpos = 0
    BY <1>2 DEF Back, Goto, Course
  <2>2. Still /\ cuts' = cuts /\ NoFault
    BY <1>1, <2>1, StillFrom
  <2>3. /\ call' \in Calls /\ call'.fn = "data" /\ call'.blocks = 0 /\ fpos' \in 0..Len(image)
        /\ fpos' = fpos + Len(call'.rest) /\ Len(call'.rest) \in Nat
        /\ \A j \in 1..Len(call'.rest) : call'.rest[j] = image[fpos + j]
    BY <1>1, <1>2, ChunkDoes
  <2>4. fpos' = Len(call'.rest) /\ \A j \in 1..Len(call'.rest) : call'.rest[j] = image[j]
    BY <2>1, <2>3
  <2>5. Begins
    BY <1>1, <1>2, <2>1, <2>2, <2>3, <2>4 DEF Begins
  <2>6. pc' \in Steps /\ success' \in BOOLEAN /\ ret' \in {-1, 0, 1}
    BY <1>2, <2>1 DEF Steps, TypeOK
  <2> QED BY <1>2, <2>2, <2>3, <2>5, <2>6, ClientType
<1>3. CASE /\ Back("data") /\ ret = 0 /\ fpos < Len(image) /\ Goto("data") /\ Data(Chunk(BufSize))
           /\ fpos' = fpos + Len(Chunk(BufSize)) /\ success' = success /\ ctx' = ctx
  <2>1. pc = "data" /\ call.fn = "none" /\ pc' = "data" /\ ret' = 1
    BY <1>3 DEF Back, Goto
  <2>2. Still /\ cuts' = cuts /\ NoFault
    BY <1>1, <2>1, StillFrom
  <2>3. /\ call' \in Calls /\ call'.fn = "data" /\ call'.blocks = 0 /\ fpos' \in 0..Len(image)
        /\ fpos' = fpos + Len(call'.rest)
        /\ \A j \in 1..Len(call'.rest) : call'.rest[j] = image[fpos + j]
    BY <1>1, <1>3, ChunkDoes
  <2>4. Continues
    BY <1>1, <1>3, <2>1, <2>2, <2>3 DEF Continues
  <2>5. pc' \in Steps /\ success' \in BOOLEAN /\ ret' \in {-1, 0, 1}
    BY <1>3, <2>1 DEF Steps, TypeOK
  <2> QED BY <1>3, <2>2, <2>3, <2>4, <2>5, ClientType
<1>4. CASE /\ Back("data") /\ (ret = -1 \/ fpos = Len(image)) /\ success' = (ret = 0)
           /\ Goto("erase") /\ Erase(-1) /\ fpos' = fpos /\ ctx' = ctx
  <2>1. pc = "data" /\ call.fn = "none" /\ pc' = "erase" /\ ret' = 1
    BY <1>4 DEF Back, Goto
  <2>2. Still /\ cuts' = cuts /\ NoFault
    BY <1>1, <2>1, StillFrom
  <2>3. call' \in Calls /\ call'.fn = "erase" /\ call'.rest = <<>>
    BY <1>4, CallDoes
  <2>4. (ret = 0 /\ success' = TRUE) \/ (ret = -1 /\ success' = FALSE)
    <3>1. ret \in {-1, 0}
      BY <2>1, Zenon DEF Shape, TypeOK
    <3> QED BY <1>4, <3>1, Zenon
  <2>5. Turns
    BY <1>1, <1>4, <2>1, <2>2, <2>3, <2>4, Zenon DEF Turns
  <2>6. pc' \in Steps /\ fpos' \in 0..Len(image) /\ success' \in BOOLEAN /\ ret' \in {-1, 0, 1}
    BY <1>4, <2>1, <2>4 DEF Steps, TypeOK
  <2> QED BY <1>4, <2>2, <2>3, <2>5, <2>6, ClientType
<1>5. CASE Back("erase") /\ Goto("close") /\ Close /\ fpos' = fpos /\ success' = success /\ ctx' = ctx
  <2>1. pc = "erase" /\ call.fn = "none" /\ pc' = "close" /\ ret' = 1 /\ Erase(0)
    BY <1>5 DEF Back, Goto, Close
  <2>2. Still /\ cuts' = cuts /\ NoFault
    BY <1>1, <2>1, StillFrom
  <2>3. call' \in Calls /\ call'.fn = "erase" /\ call'.rest = <<>>
    BY <2>1, CallDoes
  <2>4. Turns
    BY <1>1, <1>5, <2>1, <2>2, <2>3 DEF Turns
  <2>5. pc' \in Steps /\ fpos' \in 0..Len(image) /\ success' \in BOOLEAN /\ ret' \in {-1, 0, 1}
    BY <1>5, <2>1 DEF Steps, TypeOK
  <2> QED BY <1>5, <2>2, <2>3, <2>4, <2>5, ClientType, Zenon
<1>6. CASE Back("close") /\ End(success)
  <2>1. pc = "close" /\ call.fn = "none"
    BY <1>6 DEF Back
  <2>2. Still /\ cuts' = cuts /\ NoFault /\ success \in BOOLEAN
    BY <1>1, <2>1, StillFrom DEF TypeOK
  <2>3. TypeOK' /\ pc' = "end" /\ success' = success /\ ret' = ret /\ ctx' = ctx /\ call' = call /\ fpos' = fpos
    BY <1>6, <2>2, EndDoes
  <2> QED BY <1>1, <2>1, <2>2, <2>3 DEF Ends
<1> QED BY <1>2, <1>3, <1>4, <1>5, <1>6 DEF RawNext

LEMMA RawReadFailsDoes ==
  ASSUME TypeOK, Shape, RawReadFails PROVE TypeOK' /\ (Begins \/ Turns)
<1>1. /\ client = "raw" /\ Fault /\ call.fn = "none" /\ pc' = "erase" /\ ret' = 1 /\ Erase(-1)
      /\ fpos' = fpos /\ success' = success /\ cuts' = cuts
      /\ (pc = "begin" /\ ctx' = FreshCtx) \/ (pc = "data" /\ ret = 0 /\ ctx' = ctx)
      /\ flash' = flash /\ bad' = bad /\ worn' = worn /\ client' = client /\ image' = image /\ wb' = wb
  BY DEF RawReadFails, Back, Goto
<1>2. Still
  BY <1>1 DEF Still
<1>3. call' \in Calls /\ call'.fn = "erase" /\ call'.rest = <<>>
  BY <1>1, CallDoes
<1>4. Begins \/ Turns
  BY <1>1, <1>2, <1>3 DEF Begins, Turns
<1>5. pc' \in Steps /\ fpos' \in 0..Len(image) /\ success' \in BOOLEAN /\ ret' \in {-1, 0, 1}
  BY <1>1 DEF Steps, TypeOK
<1> QED BY <1>1, <1>2, <1>3, <1>4, <1>5, ClientType, Zenon

LEMMA FlashCheckDoes ==
  ASSUME TypeOK, Shape, FlashCheck PROVE TypeOK' /\ (Begins \/ Ends)
<1>1. /\ client = "flash" /\ pc = "begin" /\ call.fn = "none" /\ (Fault \/ NoFault) /\ cuts' = cuts
      /\ flash' = flash /\ bad' = bad /\ worn' = worn /\ client' = client /\ image' = image /\ wb' = wb
      /\ \/ End(TRUE)
         \/ /\ ctx' = FreshCtx /\ pc' = "pass1" /\ ret' = 1 /\ Data(Filled(Zero, Len(Header)))
            /\ fpos' = Len(Header) /\ success' = success
  BY Zenon DEF FlashCheck, Back, Goto
<1>2. Still
  BY <1>1 DEF Still
<1>3. CASE End(TRUE)
  <2>1. TypeOK' /\ pc' = "end" /\ success' = TRUE /\ ret' = ret /\ ctx' = ctx /\ call' = call /\ fpos' = fpos
    BY <1>1, <1>2, <1>3, EndDoes, Zenon
  <2> QED BY <1>1, <1>2, <2>1 DEF Ends
<1>4. CASE /\ ctx' = FreshCtx /\ pc' = "pass1" /\ ret' = 1 /\ Data(Filled(Zero, Len(Header)))
           /\ fpos' = Len(Header) /\ success' = success
  <2> DEFINE n == Len(Header)
             f == Filled(Zero, n)
  <2>1. n \in 0..Len(image) /\ n <= HeaderSize /\ (n >= HeaderSize \/ n = Len(image)) /\ HeaderSize \in Nat
    BY HeaderIs, SizesAssumption
  <2>2. Data(f) /\ fpos' = n
    BY <1>4
  <2>3. n \in Nat /\ Zero \in Unit
    BY <2>1, Parts DEF Unit
  <2> HIDE DEF n
  <2>4. f \in Seq(Unit) /\ Len(f) = n /\ \A j \in 1..n : f[j] = Zero
    BY <2>3, FilledIs
  <2> HIDE DEF f
  <2>5. call' \in Calls /\ call'.fn = "data" /\ call'.rest = f /\ call'.blocks = 0
    BY <2>2, <2>4, CallDoes
  <2>6. \A j \in 1..Len(call'.rest) : j <= HeaderSize /\ call'.rest[j] = Zero
    BY <2>1, <2>3, <2>4, <2>5
  <2>7. Begins
    BY <1>1, <1>2, <1>4, <2>1, <2>2, <2>4, <2>5, <2>6 DEF Begins
  <2>8. pc' \in Steps /\ fpos' \in 0..Len(image) /\ success' \in BOOLEAN /\ ret' \in {-1, 0, 1}
    BY <1>4, <2>1, <2>2 DEF Steps, TypeOK
  <2> QED BY <1>1, <1>2, <1>4, <2>5, <2>7, <2>8, ClientType
<1> QED BY <1>1, <1>3, <1>4, Zenon

LEMMA FlashPass1Does ==
  ASSUME TypeOK, Shape, FlashPass1 PROVE TypeOK' /\ (Begins \/ Continues \/ Turns)
<1>1. client = "flash" /\ success' = success /\ Untouched /\ HeaderSize \in Nat /\ HeaderSize <= EraseSize /\ EraseSize \in Nat
  BY SizesAssumption DEF FlashPass1
<1>2. CASE /\ Back("pass1") /\ ret = 0 /\ fpos < Len(image) /\ Goto("pass1") /\ Data(Chunk(HeaderSize))
           /\ fpos' = fpos + Len(Chunk(HeaderSize)) /\ ctx' = ctx
  <2>1. pc = "pass1" /\ call.fn = "none" /\ pc' = "pass1" /\ ret' = 1
    BY <1>2 DEF Back, Goto
  <2>2. Still /\ cuts' = cuts /\ NoFault
    BY <1>1, <2>1, StillFrom
  <2>3. /\ call' \in Calls /\ call'.fn = "data" /\ call'.blocks = 0 /\ fpos' \in 0..Len(image)
        /\ fpos' = fpos + Len(call'.rest)
        /\ \A j \in 1..Len(call'.rest) : call'.rest[j] = image[fpos + j]
    BY <1>1, <1>2, ChunkDoes
  <2>4. Continues
    BY <1>1, <1>2, <2>1, <2>2, <2>3 DEF Continues
  <2>5. pc' \in Steps /\ success' \in BOOLEAN /\ ret' \in {-1, 0, 1}
    BY <1>1, <2>1 DEF Steps, TypeOK
  <2> QED BY <1>2, <2>2, <2>3, <2>4, <2>5, ClientType
<1>3. CASE Back("pass1") /\ ret = 0 /\ fpos = Len(image) /\ Goto("close1") /\ Close /\ fpos' = fpos /\ ctx' = ctx
  <2>1. pc = "pass1" /\ call.fn = "none" /\ pc' = "close1" /\ ret' = 1 /\ Erase(0)
    BY <1>3 DEF Back, Goto, Close
  <2>2. Still /\ cuts' = cuts /\ NoFault
    BY <1>1, <2>1, StillFrom
  <2>3. call' \in Calls /\ call'.fn = "erase" /\ call'.rest = <<>> /\ call'.blocks = 0
    BY <2>1, CallDoes
  <2>4. Turns
    BY <1>1, <1>3, <2>1, <2>2, <2>3, SMTT(30) DEF Turns
  <2>5. pc' \in Steps /\ fpos' \in 0..Len(image) /\ success' \in BOOLEAN /\ ret' \in {-1, 0, 1}
    BY <1>1, <1>3, <2>1 DEF Steps, TypeOK
  <2> QED BY <1>3, <2>2, <2>3, <2>4, <2>5, ClientType
<1>4. CASE /\ Back("close1") /\ ret = 0 /\ ctx' = FreshCtx /\ Goto("pass2") /\ Data(Header) /\ fpos' = Len(Header)
  <2>1. pc = "close1" /\ call.fn = "none" /\ pc' = "pass2" /\ ret' = 1
    BY <1>4 DEF Back, Goto
  <2>2. Still /\ cuts' = cuts /\ NoFault
    BY <1>1, <2>1, StillFrom
  <2>3. /\ Header \in Seq(Unit) /\ Len(Header) \in 0..Len(image) /\ Len(Header) <= HeaderSize
        /\ \A j \in 1..Len(Header) : Header[j] = image[j]
    BY HeaderIs
  <2>4. call' \in Calls /\ call'.fn = "data" /\ call'.rest = Header /\ call'.blocks = 0
    BY <1>4, <2>3, CallDoes
  <2>5. fpos' \in 0..Len(image) /\ fpos' <= EraseSize
    BY <1>1, <1>4, <2>3
  <2>6. Begins
    BY <1>1, <1>4, <2>1, <2>2, <2>3, <2>4, <2>5 DEF Begins
  <2>7. pc' \in Steps /\ success' \in BOOLEAN /\ ret' \in {-1, 0, 1}
    BY <1>1, <2>1 DEF Steps, TypeOK
  <2> QED BY <1>4, <2>2, <2>4, <2>5, <2>6, <2>7, ClientType
<1> QED BY <1>2, <1>3, <1>4 DEF FlashPass1

LEMMA FlashPass2Does ==
  ASSUME TypeOK, Shape, Course, FlashPass2 PROVE TypeOK' /\ (Continues \/ Turns \/ Ends)
<1> DEFINE left == EraseSize - fpos
           n == IF left < HeaderSize THEN left ELSE HeaderSize
<1>1. /\ client = "flash" /\ Untouched /\ pc = "pass2" /\ call.fn = "none" /\ ret = 0
      /\ fpos \in Nat /\ fpos <= EraseSize /\ EraseSize \in Nat /\ HeaderSize \in Nat
  BY SizesAssumption, Parts DEF FlashPass2, Back, Course
<1>2. Still /\ cuts' = cuts /\ NoFault
  BY <1>1, StillFrom
<1>3. n \in Nat /\ n <= EraseSize - fpos
  BY <1>1
<1>4. \/ fpos < Len(image) /\ Goto("pass2") /\ Data(Chunk(n)) /\ fpos' = fpos + Len(Chunk(n)) /\ success' = success /\ ctx' = ctx
      \/ left > 0 /\ fpos = Len(image) /\ End(FALSE)
      \/ left = 0 /\ Goto("close") /\ Close /\ fpos' = fpos /\ success' = success /\ ctx' = ctx
  BY Zenon DEF FlashPass2
<1>5. CASE fpos < Len(image) /\ Goto("pass2") /\ Data(Chunk(n)) /\ fpos' = fpos + Len(Chunk(n)) /\ success' = success /\ ctx' = ctx
  <2> HIDE DEF n
  <2>1. /\ call' \in Calls /\ call'.fn = "data" /\ call'.blocks = 0 /\ fpos' \in 0..Len(image)
        /\ fpos' = fpos + Len(call'.rest) /\ Len(call'.rest) \in Nat /\ Len(call'.rest) <= n
        /\ \A j \in 1..Len(call'.rest) : call'.rest[j] = image[fpos + j]
    BY <1>3, <1>5, ChunkDoes
  <2>2. fpos' <= EraseSize
    BY <1>1, <1>3, <2>1
  <2>3. Continues
    BY <1>1, <1>2, <1>5, <2>1, <2>2 DEF Continues, Goto
  <2>4. pc' \in Steps /\ success' \in BOOLEAN /\ ret' \in {-1, 0, 1}
    BY <1>5 DEF Steps, TypeOK, Goto
  <2> QED BY <1>2, <1>5, <2>1, <2>3, <2>4, ClientType, SMTT(30)
<1>6. CASE left > 0 /\ fpos = Len(image) /\ End(FALSE)
  <2>1. TypeOK' /\ pc' = "end" /\ success' = FALSE /\ ret' = ret /\ ctx' = ctx /\ call' = call /\ fpos' = fpos
    BY <1>2, <1>6, EndDoes, Zenon
  <2>2. fpos < EraseSize
    BY <1>1, <1>6
  <2> QED BY <1>1, <1>2, <1>6, <2>1, <2>2 DEF Ends
<1>7. CASE left = 0 /\ Goto("close") /\ Close /\ fpos' = fpos /\ success' = success /\ ctx' = ctx
  <2>1. fpos = EraseSize /\ pc' = "close" /\ ret' = 1 /\ Erase(0)
    BY <1>1, <1>7 DEF Goto, Close
  <2>2. call' \in Calls /\ call'.fn = "erase" /\ call'.rest = <<>> /\ call'.blocks = 0
    BY <2>1, CallDoes
  <2>3. Turns
    BY <1>1, <1>2, <1>7, <2>1, <2>2 DEF Turns
  <2>4. pc' \in Steps /\ fpos' \in 0..Len(image) /\ success' \in BOOLEAN /\ ret' \in {-1, 0, 1}
    BY <1>7, <2>1 DEF Steps, TypeOK
  <2> QED BY <1>2, <1>7, <2>2, <2>3, <2>4, ClientType
<1> QED BY <1>4, <1>5, <1>6, <1>7, Zenon

LEMMA FlashEndDoes ==
  ASSUME TypeOK, Shape, FlashEnd PROVE TypeOK' /\ Ends
<1>1. /\ client = "flash" /\ Untouched /\ call.fn = "none" /\ pc # "end"
      /\ (ret = -1 /\ End(FALSE)) \/ (pc = "close" /\ End(ret = 0))
  BY Zenon DEF FlashEnd, Back
<1>2. Still /\ cuts' = cuts /\ NoFault
  BY <1>1, StillFrom
<1>3. (ret = 0) \in BOOLEAN /\ FALSE \in BOOLEAN
  OBVIOUS
<1>4. /\ TypeOK' /\ pc' = "end" /\ ret' = ret /\ ctx' = ctx /\ call' = call /\ fpos' = fpos
      /\ (ret = -1 /\ success' = FALSE) \/ (pc = "close" /\ success' = (ret = 0))
  BY <1>1, <1>2, <1>3, EndDoes, Zenon
<1> QED BY <1>1, <1>2, <1>4 DEF Ends

-----------------------------------------------------------------------------
(* The invariant *)

\* The number of blocks before p that are not skipped, and the place up to which this
\* context has gone
Rank(skip, p) == Cardinality({c \in Blocks \ skip : c < p})
Place == IF wb.ph = "idle" THEN ctx.pos ELSE wb.pos
Done == EraseSize * Rank(Skip, Place)

\* Unit k of what is given to mtd_write_data in this context, with its padding, and
\* block r of it
Given(k) ==
    IF k > Len(image) THEN Zero
    ELSE IF pc \in {"pass1", "close1"} /\ k <= HeaderSize THEN Zero
    ELSE image[k]
GivenBlock(r) == [j \in 1..EraseSize |-> Given(EraseSize * r + j)]

\* The blocks behind what write_block still touches, and the one of them that took
\* block r
Behind(b) == b < ctx.pos /\ (wb.ph # "idle" => b < wb.pos)
Took(r) == \E b \in Blocks : Behind(b) /\ IsNth(Skip, r, b) /\ flash[b] = GivenBlock(r)

\* The calls of this context have not failed, and what they return matters.
Flowing ==
    /\ ret # -1
    /\ \/ pc \in {"data", "pass1", "close1", "pass2"}
       \/ pc \in {"erase", "close"} /\ client # "raw"

\* Where every unit is that was given: in the blocks behind, in ctx->buffer, or
\* still in the caller's data
Pending ==
    /\ call.fn = "none" => Len(ctx.stored) < EraseSize
    /\ ret = 0 /\ pc \in {"erase", "close", "close1"} => ctx.stored = <<>>
    /\ client = "format" \/ (client = "flash" /\ pc = "close") => ctx.stored = <<>>
Amounts ==
    /\ Done + Len(ctx.stored) + Len(call.rest) >= fpos
    /\ (ctx.stored # <<>> \/ call.rest # <<>> \/ pc \in {"data", "pass1", "pass2"})
       => Done + Len(ctx.stored) + Len(call.rest) = fpos
Contents ==
    /\ \A j \in 1..Len(ctx.stored) : ctx.stored[j] = Given(Done + j)
    /\ \A j \in 1..Len(call.rest) : call.rest[j] = Given(Done + Len(ctx.stored) + j)
    /\ wb.ph # "idle" => \A j \in 1..EraseSize : wb.data[j] = Given(Done + j)
Ahead == \A c \in Skip : c < Place
Taken == \A r \in 0..(Rank(Skip, Place) - 1) : Took(r)

Flow == Pending /\ Amounts /\ Contents /\ Ahead /\ Taken

RawFlow ==
    client = "raw" /\ pc \in {"erase", "close", "end"} /\ success =>
        \A r \in 0..Len(image) : EraseSize * r + EraseSize <= fpos => Took(r)

Cause == worn # {} \/ Len(image) > EraseSize * Cardinality(Blocks \ bad)

Causes ==
    /\ ret = -1 /\ (client = "raw" => pc = "data") => Cause
    /\ pc = "undo" => Cause
    /\ ~success /\ pc # "end" => client = "raw" /\ Cause

Rest == \A r \in 1..Len(image) : EraseSize * r < Len(image) => Holds(bad, r)
Spoiled == \E b \in Blocks : IsNth(bad, 0, b) /\ flash[b][1] \notin Nat \ {0}

\* worn = {}: as long as no block has been given up
HeaderInv ==
    client = "flash" /\ worn = {} /\ Flowing =>
        /\ \A c \in bad : c < Place => c \in Skip
        /\ pc \in {"pass1", "close1"} /\ Rank(Skip, Place) # 0 => Spoiled
        /\ pc \in {"pass2", "close"} => Rest

Inv ==
    /\ TypeOK /\ Shape /\ Course /\ (Flowing => Flow) /\ RawFlow
    /\ Causes /\ SuccessMeansWritten /\ FailsOnlyForCause
    /\ HeaderInv /\ HeaderLast

-----------------------------------------------------------------------------
(* Blocks and their numbers *)

\* What is used of the numbers of blocks.  MtdUtils_proofs shows it from the
\* theorems on finite sets, which would slow every proof here.
Counting ==
    \A S \in SUBSET Blocks :
        /\ Cardinality(S) \in Nat
        /\ Cardinality(S) = 0 <=> S = {}
        /\ \A b \in Blocks \ S : Cardinality(S \cup {b}) = Cardinality(S) + 1
        /\ \A T \in SUBSET S : Cardinality(T) <= Cardinality(S)

LEMMA RankType == ASSUME Counting, NEW skip, NEW p PROVE Rank(skip, p) \in Nat
<1>1. {c \in Blocks \ skip : c < p} \in SUBSET Blocks
  OBVIOUS
<1> QED BY <1>1 DEF Rank, Counting

\* Only the blocks before p count.
LEMMA RankSame ==
  ASSUME NEW s, NEW t, NEW p, \A c \in Blocks : c < p => (c \in s <=> c \in t)
  PROVE  Rank(s, p) = Rank(t, p)
<1>1. {c \in Blocks \ s : c < p} = {c \in Blocks \ t : c < p}
  OBVIOUS
<1> QED BY <1>1 DEF Rank

\* A block more
LEMMA RankNext ==
  ASSUME Counting, NEW skip, NEW p \in Blocks, p \notin skip
  PROVE  Rank(skip, p + 1) = Rank(skip, p) + 1
<1> DEFINE S == {c \in Blocks \ skip : c < p}
<1>1. {c \in Blocks \ skip : c < p + 1} = S \cup {p}
  BY SizesAssumption DEF Blocks
<1>2. p \in Blocks \ S /\ S \in SUBSET Blocks
  BY SizesAssumption DEF Blocks
<1> HIDE DEF S
<1>3. Cardinality(S \cup {p}) = Cardinality(S) + 1
  BY <1>2 DEF Counting
<1> QED BY <1>1, <1>3 DEF Rank, S

\* A block that is skipped
LEMMA RankSkipped ==
  ASSUME NEW skip, NEW p \in Blocks
  PROVE  Rank(skip \cup {p}, p + 1) = Rank(skip, p)
<1>1. {c \in Blocks \ (skip \cup {p}) : c < p + 1} = {c \in Blocks \ skip : c < p}
  BY SizesAssumption DEF Blocks
<1> QED BY <1>1 DEF Rank

LEMMA RankZero == ASSUME Counting, NEW skip PROVE Rank(skip, 0) = 0
<1>1. {c \in Blocks \ skip : c < 0} = {}
  BY SizesAssumption DEF Blocks
<1>2. {} \in SUBSET Blocks
  OBVIOUS
<1> QED BY <1>1, <1>2 DEF Rank, Counting

\* No block before one that has number 0
LEMMA RankIsZero ==
  ASSUME Counting, NEW skip, NEW p, Rank(skip, p) = 0, NEW c \in Blocks \ skip
  PROVE  ~(c < p)
<1> DEFINE S == {x \in Blocks \ skip : x < p}
<1>1. S \in SUBSET Blocks /\ Cardinality(S) = 0
  BY DEF Rank
<1>2. S = {}
  <2> HIDE DEF S
  <2> QED BY <1>1 DEF Counting
<1> QED BY <1>2

\* All the blocks: there are no fewer if fewer are skipped.
LEMMA RankAll ==
  ASSUME Counting, NEW skip, NEW t, skip \subseteq t
  PROVE  Cardinality(Blocks \ t) \in Nat /\ Cardinality(Blocks \ t) <= Rank(skip, NBlocks)
<1>1. {c \in Blocks \ skip : c < NBlocks} = Blocks \ skip
  BY SizesAssumption DEF Blocks
<1>2. Blocks \ t \in SUBSET (Blocks \ skip) /\ Blocks \ skip \in SUBSET Blocks /\ Blocks \ t \in SUBSET Blocks
  OBVIOUS
<1>3. Cardinality(Blocks \ t) \in Nat /\ Cardinality(Blocks \ t) <= Cardinality(Blocks \ skip)
  BY <1>2 DEF Counting
<1> QED BY <1>1, <1>3 DEF Rank

LEMMA NthRank ==
  ASSUME NEW skip, NEW r, NEW b
  PROVE  IsNth(skip, r, b) <=> b \in Blocks \ skip /\ Rank(skip, b) = r
BY DEF IsNth, Rank

-----------------------------------------------------------------------------
(* What stays as it is *)

LEMMA GivenSame ==
  ASSUME image' = image, (pc \in {"pass1", "close1"})' <=> (pc \in {"pass1", "close1"})
  PROVE  (\A k : Given(k)' = Given(k)) /\ (\A r : GivenBlock(r)' = GivenBlock(r))
<1>1. \A k : Given(k)' = Given(k)
  BY DEF Given
<1> QED BY <1>1 DEF GivenBlock

LEMMA QuietGiven ==
  ASSUME Quiet PROVE (\A k : Given(k)' = Given(k)) /\ (\A r : GivenBlock(r)' = GivenBlock(r))
<1>1. image' = image /\ pc' = pc
  BY DEF Quiet
<1> QED BY <1>1, GivenSame

\* The steps leave alone the blocks behind.
BehindKept == \A b \in Blocks : Behind(b) => Behind(b)' /\ flash'[b] = flash[b] /\ (b \in Skip' <=> b \in Skip)

LEMMA TookKept ==
  ASSUME TypeOK, BehindKept, NEW r, GivenBlock(r)' = GivenBlock(r), Took(r)
  PROVE  Took(r)'
<1>1. PICK b \in Blocks : Behind(b) /\ IsNth(Skip, r, b) /\ flash[b] = GivenBlock(r)
  BY DEF Took
<1>2. \A c \in Blocks : c < b => Behind(c)
  <2>1. b \in Int /\ ctx.pos \in Int /\ wb.pos \in Int /\ \A c \in Blocks : c \in Int
    BY Parts, SizesAssumption DEF Blocks
  <2>2. b < ctx.pos /\ (wb.ph # "idle" => b < wb.pos)
    BY <1>1 DEF Behind
  <2> QED BY <2>1, <2>2 DEF Behind
<1>3. \A c \in Blocks : c < b => (c \in Skip' <=> c \in Skip)
  BY <1>2 DEF BehindKept
<1>4. Rank(Skip', b) = Rank(Skip, b)
  BY <1>3, RankSame
<1>5. Behind(b)' /\ flash'[b] = flash[b] /\ (b \in Skip' <=> b \in Skip)
  BY <1>1 DEF BehindKept
<1>6. b \in Blocks \ Skip /\ Rank(Skip, b) = r
  BY <1>1, NthRank
<1>7. IsNth(Skip', r, b)
  BY <1>4, <1>5, <1>6, NthRank
<1>8. Behind(b)' /\ IsNth(Skip', r, b) /\ flash'[b] = GivenBlock(r)'
  BY <1>1, <1>5, <1>7
<1> QED BY <1>8 DEF Took

LEMMA TakenKept ==
  ASSUME TypeOK, BehindKept, \A r : GivenBlock(r)' = GivenBlock(r), Taken,
         Rank(Skip', Place') = Rank(Skip, Place)
  PROVE  Taken'
BY TookKept DEF Taken

\* RawFlow depends on the blocks behind only.
LEMMA RawFlowKept ==
  ASSUME TypeOK, BehindKept, Quiet, RawFlow PROVE RawFlow'
<1>1. \A r : GivenBlock(r)' = GivenBlock(r)
  BY QuietGiven
<1>2. \A r : Took(r) => Took(r)'
  BY <1>1, TookKept
<1> QED BY <1>2 DEF RawFlow, Quiet

\* ImageBlock and what is in the flash
LEMMA HoldsKept ==
  ASSUME image' = image, NEW skip, NEW r, \A b \in Blocks : IsNth(skip, r, b) => flash'[b] = flash[b], Holds(skip, r)
  PROVE  Holds(skip, r)'
<1>1. ImageBlock(r)' = ImageBlock(r)
  BY DEF ImageBlock
<1> QED BY <1>1 DEF Holds, IsNth

LEMMA HeaderLastKept ==
  ASSUME image' = image, client' = client, bad' = bad, flash' = flash, worn \subseteq worn', HeaderLast
  PROVE  HeaderLast'
<1>1. HeaderSame(bad)' <=> HeaderSame(bad)
  BY DEF HeaderSame, IsNth
<1>2. ASSUME NEW r, Holds(bad, r) PROVE Holds(bad, r)'
  BY <1>2, HoldsKept DEF Holds
<1> QED BY <1>1, <1>2 DEF HeaderLast

LEMMA CourseKept == ASSUME Quiet, Course PROVE Course'
BY DEF Quiet, Course

LEMMA CausesKept ==
  ASSUME Quiet, worn \subseteq worn', ret' = ret \/ ret' # -1, Causes
  PROVE  Causes'
BY DEF Quiet, Causes, Cause

\* While the library runs, the client has not returned.
LEMMA NotEnded ==
  ASSUME TypeOK', Quiet, Shape, call.fn # "none"
  PROVE  SuccessMeansWritten' /\ FailsOnlyForCause'
<1>1. pc' # "end"
  BY DEF Quiet, Shape
<1> QED BY <1>1 DEF SuccessMeansWritten, FailsOnlyForCause

LEMMA Positions == ASSUME TypeOK PROVE /\ \A b \in Blocks : b \in Int
                                      /\ ctx.pos \in Int /\ wb.pos \in Int /\ Place \in Int
BY Parts, SizesAssumption DEF Blocks, Place

-----------------------------------------------------------------------------
(* write_block at a block *)

LEMMA StaysShape ==
  ASSUME TypeOK, Shape, Stays PROVE Shape'
<1>1. wb.pos < NBlocks /\ wb.pos \notin bad /\ wb.ph # "idle"
  BY SizesAssumption DEF Stays, Blocks
<1>2. Skip' = Skip
  BY DEF Stays, Skip
<1>3. /\ bad' = bad /\ client' = client /\ pc' = pc /\ call' = call /\ ret' = ret /\ worn' = worn
      /\ ctx'.stored = ctx.stored /\ wb'.pos = wb.pos /\ wb'.ph # "idle"
  BY DEF Stays, Quiet
<1> QED BY <1>1, <1>2, <1>3 DEF Shape

LEMMA StaysBehind ==
  ASSUME TypeOK, TypeOK', Stays PROVE BehindKept /\ Skip' = Skip /\ Place' = Place /\ Done' = Done
<1>1. Skip' = Skip
  BY DEF Stays, Skip
<1>2. Place' = Place
  BY DEF Stays, Place
<1>3. Done' = Done
  BY <1>1, <1>2 DEF Done
<1>4. ASSUME NEW b \in Blocks, Behind(b) PROVE Behind(b)' /\ flash'[b] = flash[b]
  <2>1. b < wb.pos /\ b < ctx.pos
    BY <1>4 DEF Behind, Stays
  <2>2. b \in Int /\ wb.pos \in Int /\ ctx'.pos \in Int
    <3>1. ctx'.pos \in 0..NBlocks
      BY DEF TypeOK
    <3> QED BY <3>1, Positions, SizesAssumption
  <2>3. b < ctx'.pos
    BY <2>1, <2>2 DEF Stays
  <2>4. b # wb.pos
    BY <2>1, <2>2
  <2> QED BY <2>1, <2>3, <2>4 DEF Behind, Stays, Touched
<1> QED BY <1>1, <1>2, <1>3, <1>4 DEF BehindKept

LEMMA StaysFlow ==
  ASSUME TypeOK, TypeOK', Flowing => Flow, Stays PROVE (Flowing => Flow)'
<1>1. BehindKept /\ Skip' = Skip /\ Place' = Place /\ Done' = Done
  BY StaysBehind
<1>2. /\ client' = client /\ image' = image /\ pc' = pc /\ fpos' = fpos /\ call' = call /\ ret' = ret
      /\ ctx'.stored = ctx.stored /\ wb'.data = wb.data /\ wb.ph # "idle" /\ Quiet
  BY DEF Stays, Quiet
<1>3. Flowing' <=> Flowing
  BY <1>2 DEF Flowing
<1> SUFFICES ASSUME Flow PROVE Flow'
  BY <1>3
<1>4. (\A k : Given(k)' = Given(k)) /\ (\A r : GivenBlock(r)' = GivenBlock(r))
  BY <1>2, QuietGiven
<1>5. Pending'
  BY <1>2 DEF Flow, Pending
<1>6. Amounts'
  BY <1>1, <1>2 DEF Flow, Amounts
<1>7. Contents'
  BY <1>1, <1>2, <1>4 DEF Flow, Contents
<1>8. Ahead'
  BY <1>1 DEF Flow, Ahead
<1>9. Taken'
  BY <1>1, <1>4, TakenKept DEF Flow
<1> QED BY <1>5, <1>6, <1>7, <1>8, <1>9 DEF Flow

-----------------------------------------------------------------------------
(* write_block leaves a block out *)

LEMMA PassesShape ==
  ASSUME TypeOK, Shape, Passes PROVE Shape'
<1>1. /\ bad' = bad /\ client' = client /\ pc' = pc /\ call' = call /\ ret' = ret
      /\ worn' = worn \cup ({wb.pos} \ bad) /\ Skip' = Skip \cup {wb.pos}
      /\ ctx'.stored = ctx.stored /\ wb'.ph = "test" /\ wb.ph # "idle"
  BY DEF Passes, Quiet
<1>2. \A c \in Skip' : c \in bad' \/ c \in worn'
  BY <1>1 DEF Shape
<1> QED BY <1>1, <1>2, SMTT(30) DEF Shape

LEMMA PassesBehind ==
  ASSUME TypeOK, TypeOK', Passes
  PROVE  BehindKept /\ Place' = Place + 1 /\ Rank(Skip', Place') = Rank(Skip, Place) /\ Done' = Done
<1>1. Skip' = Skip \cup {wb.pos} /\ wb.pos \in Blocks
  BY DEF Passes
<1>2. Place' = wb.pos + 1 /\ Place = wb.pos
  BY DEF Passes, Place
<1>3. Rank(Skip', Place') = Rank(Skip, Place)
  BY <1>1, <1>2, RankSkipped
<1>4. Done' = Done
  BY <1>3 DEF Done
<1>5. ASSUME NEW b \in Blocks, Behind(b) PROVE Behind(b)' /\ flash'[b] = flash[b] /\ (b \in Skip' <=> b \in Skip)
  <2>1. b < wb.pos /\ b < ctx.pos
    BY <1>5 DEF Behind, Passes
  <2>2. b < wb.pos + 1 /\ b # wb.pos
    BY <2>1, Positions
  <2> QED BY <1>1, <2>1, <2>2 DEF Behind, Passes, Touched
<1> QED BY <1>2, <1>3, <1>4, <1>5 DEF BehindKept

LEMMA PassesFlow ==
  ASSUME TypeOK, TypeOK', Flowing => Flow, Passes PROVE (Flowing => Flow)'
<1>1. BehindKept /\ Place' = Place + 1 /\ Rank(Skip', Place') = Rank(Skip, Place) /\ Done' = Done
  BY PassesBehind
<1>2. /\ client' = client /\ image' = image /\ pc' = pc /\ fpos' = fpos /\ call' = call /\ ret' = ret
      /\ ctx'.stored = ctx.stored /\ wb'.data = wb.data /\ wb.ph # "idle" /\ Quiet
  BY SMTT(30) DEF Passes, Quiet
<1>3. Flowing' <=> Flowing
  BY <1>2 DEF Flowing
<1> SUFFICES ASSUME Flow PROVE Flow'
  BY <1>3
<1>4. (\A k : Given(k)' = Given(k)) /\ (\A r : GivenBlock(r)' = GivenBlock(r))
  BY <1>2, QuietGiven
<1>5. Pending'
  BY <1>2 DEF Flow, Pending
<1>6. Amounts'
  BY <1>1, <1>2 DEF Flow, Amounts
<1>7. Contents'
  BY <1>1, <1>2, <1>4 DEF Flow, Contents
<1>8. Ahead'
  <2>1. \A c \in Skip : c < Place /\ c \in Blocks
    BY Parts, RangeOf DEF Flow, Ahead, Skip
  <2>2. Skip' = Skip \cup {wb.pos} /\ Place = wb.pos /\ wb.pos \in Int
    BY Positions DEF Passes, Place
  <2> QED BY <1>1, <2>1, <2>2, Positions DEF Ahead
<1>9. Taken'
  BY <1>1, <1>4, TakenKept DEF Flow
<1> QED BY <1>5, <1>6, <1>7, <1>8, <1>9 DEF Flow

-----------------------------------------------------------------------------
(* write_block returns *)

\* Where the block came from
LEMMA WritesFrom ==
  ASSUME TypeOK, Shape, wb.ph # "idle"
  PROVE  /\ call.fn # "none" /\ ret = 1
         /\ \/ ctx.stored = <<>> /\ call.fn = "data" /\ Len(call.rest) >= EraseSize
            \/ ctx.stored # <<>> /\ call.fn = "data" /\ Len(ctx.stored) = EraseSize
            \/ ctx.stored # <<>> /\ call.fn = "erase" /\ call.rest = <<>> /\ pc \notin {"data", "pass1", "pass2"}
<1>1. call.fn # "none" /\ ret = 1
  BY DEF Shape
<1>2. CASE call.fn = "erase"
  BY <1>1, <1>2 DEF Shape
<1>3. CASE call.fn = "data"
  <2>1. Len(ctx.stored) = EraseSize \/ (ctx.stored = <<>> /\ Len(call.rest) >= EraseSize)
    BY <1>3 DEF Shape
  <2>2. Len(ctx.stored) = EraseSize => ctx.stored # <<>>
    BY FreshType, SizesAssumption
  <2> QED BY <1>1, <1>3, <2>1, <2>2
<1> QED BY <1>1, <1>2, <1>3, Parts

LEMMA WritesShape ==
  ASSUME TypeOK, Shape, Writes PROVE Shape'
<1>1. /\ bad' = bad /\ client' = client /\ pc' = pc /\ call'.fn = call.fn /\ call'.blocks = call.blocks
      /\ ret' = ret /\ worn' = worn /\ wb'.ph = "idle" /\ wb.ph # "idle"
      /\ ctx.stored # <<>> => call' = call
  BY DEF Writes, Quiet
<1>2. Skip' = Skip
  BY DEF Writes, Skip
<1>3. call.fn # "data" => call'.rest = <<>>
  BY <1>1, WritesFrom DEF Shape
<1> QED BY <1>1, <1>2, <1>3, SMTT(30) DEF Shape

LEMMA WritesBehind ==
  ASSUME TypeOK, TypeOK', Writes PROVE BehindKept /\ Skip' = Skip /\ Place' = Place + 1 /\ Place = wb.pos
<1>1. Skip' = Skip
  BY SMTT(30) DEF Writes, Skip
<1>2. Place' = Place + 1 /\ Place = wb.pos
  BY SMTT(30) DEF Writes, Place
<1>3. ASSUME NEW b \in Blocks, Behind(b) PROVE Behind(b)' /\ flash'[b] = flash[b]
  <2>1. b < wb.pos
    BY <1>3 DEF Behind, Writes
  <2>2. b < wb.pos + 1
    BY <2>1, Positions
  <2> QED BY <2>2 DEF Behind, Writes
<1> QED BY <1>1, <1>2, <1>3, SMTT(30) DEF BehindKept

LEMMA WritesRank ==
  ASSUME Counting, TypeOK, TypeOK', Ahead, Writes
  PROVE  /\ Rank(Skip, Place) \in Nat /\ Rank(Skip', Place') = Rank(Skip, Place) + 1 /\ wb.pos \notin Skip
         /\ Done \in Nat /\ Done' = Done + EraseSize
<1>1. Skip' = Skip /\ Place' = Place + 1 /\ Place = wb.pos /\ wb.pos \in Blocks
  BY WritesBehind DEF Writes
<1>2. wb.pos \notin Skip
  BY <1>1, Positions DEF Ahead
<1>3. Rank(Skip, Place) \in Nat
  BY RankType
<1>4. Rank(Skip, Place + 1) = Rank(Skip, Place) + 1
  BY <1>1, <1>2, RankNext
<1> DEFINE N == Rank(Skip, Place)
<1>5. Done = EraseSize * N /\ Done' = EraseSize * (N + 1)
  BY <1>1, <1>4 DEF Done
<1> HIDE DEF N
<1>6. Done \in Nat /\ Done' = Done + EraseSize
  BY <1>3, <1>5, Times, SMTT(30) DEF N
<1> QED BY <1>1, <1>2, <1>3, <1>4, <1>6, SMTT(30)

\* The block that has taken the data
LEMMA WritesTook ==
  ASSUME Counting, TypeOK, TypeOK', Flow, Writes, NEW n, n = Rank(Skip, Place) PROVE Took(n)'
<1>1. PICK b : b = wb.pos
  OBVIOUS
<1>2. /\ Quiet /\ b \in Blocks /\ flash' = flash /\ flash[b] = wb.data
      /\ wb'.ph = "idle" /\ ctx'.pos = b + 1 /\ wb.ph # "idle"
  BY <1>1 DEF Writes
<1>3. Skip' = Skip /\ Place = b /\ b \notin Skip
  BY <1>1, WritesBehind, WritesRank, SMTT(30) DEF Flow
<1>4. IsNth(Skip', n, b)
  BY <1>2, <1>3, NthRank, SMTT(30)
<1>5. Behind(b)'
  BY <1>2, Positions DEF Behind
<1>6. wb.data = GivenBlock(n)
  <2>1. wb.data \in [1..EraseSize -> Unit]
    BY <1>2, Parts, DataLength, BlockOfSeq, SMTT(30)
  <2>2. \A j \in 1..EraseSize : wb.data[j] = Given(EraseSize * n + j)
    BY <1>2 DEF Flow, Contents, Done
  <2> QED BY <2>1, <2>2, Zenon DEF GivenBlock
<1>7. GivenBlock(n)' = GivenBlock(n)
  BY <1>2, QuietGiven
<1>8. Behind(b)' /\ IsNth(Skip', n, b) /\ flash'[b] = GivenBlock(n)'
  BY <1>2, <1>4, <1>5, <1>6, <1>7
<1> QED BY <1>2, <1>8 DEF Took

LEMMA WritesFlow ==
  ASSUME Counting, TypeOK, TypeOK', Shape, Flowing => Flow, Writes PROVE (Flowing => Flow)'
<1>1. BehindKept /\ Skip' = Skip /\ Place' = Place + 1
  BY WritesBehind, SMTT(30)
<1>2. /\ client' = client /\ image' = image /\ pc' = pc /\ fpos' = fpos /\ call'.fn = call.fn /\ ret' = ret
      /\ ctx'.stored = <<>> /\ wb'.ph = "idle" /\ wb.ph # "idle" /\ Quiet
      /\ ctx.stored # <<>> => call' = call
      /\ ctx.stored = <<>> => /\ Len(call'.rest) = Len(call.rest) - EraseSize
                              /\ \A j \in 1..Len(call'.rest) : call'.rest[j] = call.rest[EraseSize + j]
  BY DEF Writes, Quiet
<1>3. Flowing' <=> Flowing
  BY <1>2 DEF Flowing
<1> SUFFICES ASSUME Flow PROVE Flow'
  BY <1>3
<1>4. (\A k : Given(k)' = Given(k)) /\ (\A r : GivenBlock(r)' = GivenBlock(r))
  BY <1>2, QuietGiven
<1>5. /\ Rank(Skip, Place) \in Nat /\ Rank(Skip', Place') = Rank(Skip, Place) + 1
      /\ Done \in Nat /\ Done' = Done + EraseSize
  BY WritesRank DEF Flow
<1>6. /\ \/ ctx.stored = <<>> /\ Len(call.rest) >= EraseSize
         \/ ctx.stored # <<>> /\ call.fn = "data" /\ Len(ctx.stored) = EraseSize
         \/ ctx.stored # <<>> /\ call.rest = <<>> /\ pc \notin {"data", "pass1", "pass2"}
      /\ call.fn # "none" /\ ret = 1
  BY <1>2, WritesFrom
<1>7. /\ EraseSize \in Nat \ {0} /\ Len(ctx.stored) \in Nat /\ Len(call.rest) \in Nat /\ fpos \in Nat
      /\ Len(<<>>) = 0 /\ Len(ctx.stored) <= EraseSize
  BY Parts, SizesAssumption, FreshType
<1>8. Pending'
  BY <1>2, <1>6, <1>7 DEF Pending
<1>9. Done + Len(ctx.stored) + Len(call.rest) = fpos
  BY <1>6, <1>7 DEF Flow, Amounts
<1>10. Amounts'
  <2>1. ctx.stored = <<>> /\ Len(call.rest) >= EraseSize => Len(call'.rest) = Len(call.rest) - EraseSize
    BY <1>2
  <2>2. ctx'.stored = <<>> /\ Len(ctx'.stored) = 0 /\ pc' = pc /\ fpos' = fpos /\ (ctx.stored # <<>> => call' = call)
    BY <1>2, <1>7
  <2> DEFINE a == Len(ctx.stored)
             r == Len(call.rest)
             rr == Len(call'.rest)
             sum == Done' + Len(ctx'.stored) + Len(call'.rest)
  <2>3. EraseSize \in Nat /\ a \in Nat /\ r \in Nat /\ fpos \in Nat /\ Done + a + r = fpos /\ a <= EraseSize
    BY <1>7, <1>9
  <2>4. sum = Done + EraseSize + 0 + rr
    BY <1>5, <2>2
  <2>5. CASE ctx.stored = <<>> /\ Len(call.rest) >= EraseSize
    <3>1. a = 0 /\ rr = r - EraseSize
      BY <1>7, <2>1, <2>5
    <3>2. sum = fpos
      <4> HIDE DEF a, r, rr, sum
      <4> QED BY <1>5, <2>3, <2>4, <3>1, SMTT(30)
    <3> QED BY <1>7, <2>2, <3>2 DEF Amounts
  <2>6. CASE ctx.stored # <<>> /\ Len(ctx.stored) = EraseSize
    <3>1. a = EraseSize /\ rr = r
      BY <2>2, <2>6
    <3>2. sum = fpos
      <4> HIDE DEF a, r, rr, sum
      <4> QED BY <1>5, <2>3, <2>4, <3>1
    <3> QED BY <1>7, <2>2, <3>2 DEF Amounts
  <2>7. CASE ctx.stored # <<>> /\ call.rest = <<>> /\ pc \notin {"data", "pass1", "pass2"}
    <3>1. r = 0 /\ rr = 0
      BY <1>7, <2>2, <2>7
    <3>2. sum >= fpos
      <4> HIDE DEF a, r, rr, sum
      <4> QED BY <1>5, <2>3, <2>4, <3>1, SMTT(30)
    <3>3. call'.rest = <<>>
      BY <2>2, <2>7
    <3> QED BY <2>2, <2>7, <3>2, <3>3 DEF Amounts
  <2> QED BY <1>6, <2>5, <2>6, <2>7
<1>11. ASSUME NEW j \in 1..Len(call'.rest) PROVE call'.rest[j] = Given(Done' + Len(ctx'.stored) + j)
  <2>1. \A i \in 1..Len(call.rest) : call.rest[i] = Given(Done + Len(ctx.stored) + i)
    BY DEF Flow, Contents
  <2>2. CASE ctx.stored = <<>> /\ Len(call.rest) >= EraseSize
    <3>1. EraseSize + j \in 1..Len(call.rest) /\ call'.rest[j] = call.rest[EraseSize + j]
      BY <1>2, <1>7, <2>2, SMTT(30)
    <3>2. Done' + Len(ctx'.stored) + j = Done + Len(ctx.stored) + (EraseSize + j)
      BY <1>2, <1>5, <1>7, <2>2, SMTT(30)
    <3> QED BY <2>1, <3>1, <3>2
  <2>3. CASE ctx.stored # <<>> /\ call.fn = "data" /\ Len(ctx.stored) = EraseSize
    <3>1. j \in 1..Len(call.rest) /\ call'.rest[j] = call.rest[j]
      BY <1>2, <2>3
    <3>2. Done' + Len(ctx'.stored) + j = Done + Len(ctx.stored) + j
      BY <1>2, <1>5, <1>7, <2>3, SMTT(30)
    <3> QED BY <2>1, <3>1, <3>2
  <2>4. CASE ctx.stored # <<>> /\ call.rest = <<>>
    BY <1>2, <1>7, <2>4, SMTT(30)
  <2> QED BY <1>6, <2>2, <2>3, <2>4, SMTT(30)
<1>12. Contents'
  BY <1>2, <1>4, <1>7, <1>11, SMTT(30) DEF Contents
<1>13. Ahead'
  <2>1. \A c \in Skip : c < Place /\ c \in Blocks
    BY Parts, RangeOf DEF Flow, Ahead, Skip
  <2> QED BY <1>1, <2>1, Positions DEF Ahead
<1>14. Taken'
  <2> SUFFICES ASSUME NEW r \in 0..(Rank(Skip', Place') - 1) PROVE Took(r)'
    BY DEF Taken
  <2>1. CASE r \in 0..(Rank(Skip, Place) - 1)
    BY <1>1, <1>4, <2>1, TookKept DEF Flow, Taken
  <2>2. CASE r = Rank(Skip, Place)
    BY <2>2, WritesTook, SMTT(30)
  <2> QED BY <1>5, <2>1, <2>2
<1> QED BY <1>8, <1>10, <1>12, <1>13, <1>14 DEF Flow

LEMMA FailsShape ==
  ASSUME TypeOK, Shape, Fails PROVE Shape'
<1>1. /\ bad' = bad /\ client' = client /\ pc' = pc /\ call'.fn = "none" /\ call'.blocks = 0 /\ call'.rest = <<>>
      /\ worn' = worn /\ wb'.ph = "idle" /\ ret' = -1
  BY DEF Fails, Quiet
<1>2. Skip' = Skip
  BY DEF Fails, Skip
<1> QED BY <1>1, <1>2 DEF Shape

LEMMA FailsBehind == ASSUME Fails PROVE BehindKept
<1>1. Skip' = Skip
  BY DEF Fails, Skip
<1> QED BY <1>1 DEF Fails, BehindKept, Behind

LEMMA FailsFlow == ASSUME Fails PROVE (Flowing => Flow)'
BY DEF Fails, Flowing

\* "Ran out of space": either the client no longer minds, or the image is too long for
\* the blocks that are left.
LEMMA FailsCauses ==
  ASSUME Counting, TypeOK, Shape, Course, Flowing => Flow, Causes, Fails PROVE Causes'
<1>1. /\ Quiet /\ worn' = worn /\ bad' = bad /\ image' = image /\ client' = client /\ pc' = pc /\ success' = success
      /\ wb.ph # "idle" /\ wb.pos = NBlocks
  BY DEF Fails, Quiet
<1>2. Cause' <=> Cause
  BY <1>1 DEF Cause
<1>3. /\ call.fn # "none" /\ ret = 1
      /\ ctx.stored # <<>> \/ call.rest # <<>>
      /\ Len(ctx.stored) + Len(call.rest) > 0
  <2>1. call.fn # "none" /\ ret = 1 /\ (ctx.stored # <<>> \/ Len(call.rest) >= EraseSize)
    BY <1>1, WritesFrom
  <2>2. Len(call.rest) >= EraseSize => call.rest # <<>>
    BY FreshType, SizesAssumption
  <2>3. (ctx.stored # <<>> => Len(ctx.stored) > 0) /\ (call.rest # <<>> => Len(call.rest) > 0)
    BY Parts, EmptyOf, SMTT(30)
  <2>4. Len(ctx.stored) \in Nat /\ Len(call.rest) \in Nat
    BY Parts
  <2>5. ctx.stored # <<>> \/ call.rest # <<>>
    BY <2>1, <2>2
  <2>6. Len(ctx.stored) + Len(call.rest) > 0
    <3> DEFINE a == Len(ctx.stored)
               b == Len(call.rest)
    <3>1. a \in Nat /\ b \in Nat /\ (a > 0 \/ b > 0)
      BY <2>3, <2>4, <2>5
    <3> HIDE DEF a, b
    <3>2. a + b > 0
      BY <3>1
    <3> QED BY <3>2, Zenon DEF a, b
  <2> QED BY <2>1, <2>5, <2>6, Zenon
<1>4. ASSUME Flowing, worn = {} PROVE Len(image) > EraseSize * Cardinality(Blocks \ bad)
  <2> DEFINE N == Rank(Skip, NBlocks)
             M == Cardinality(Blocks \ bad)
  <2>1. Place = NBlocks
    BY <1>1 DEF Place
  <2>2. EraseSize * N + Len(ctx.stored) + Len(call.rest) = fpos
    BY <1>3, <1>4, <2>1 DEF Flow, Amounts, Done
  <2>3. Skip \subseteq bad
    BY <1>4 DEF Shape
  <2>4. M <= N /\ M \in Nat /\ N \in Nat
    BY <2>3, RankAll, RankType
  <2> HIDE DEF N, M
  <2>5. EraseSize * M <= EraseSize * N /\ EraseSize * M \in Nat /\ EraseSize * N \in Nat
    BY <2>4, Times
  <2>6. EraseSize * M < Len(image)
    BY <1>3, <2>2, <2>5, Parts
  <2> QED BY <2>6, Parts, <2>5 DEF M
<1>5. ASSUME client = "raw" => pc = "data" PROVE Cause
  <2>1. CASE Flowing
    BY <1>4, <2>1 DEF Cause
  <2>2. CASE ~Flowing
    <3>1. pc = "undo"
      BY <1>3, <1>5, <2>2, Parts, SMTT(30) DEF Shape, Flowing
    <3> QED BY <3>1, SMTT(30) DEF Causes
  <2> QED BY <2>1, <2>2
<1> QED BY <1>1, <1>2, <1>5 DEF Causes

-----------------------------------------------------------------------------
(* mtd_write_data *)

LEMMA GathersBehind ==
  ASSUME Gathers PROVE BehindKept /\ Skip' = Skip /\ Place' = Place /\ Done' = Done
<1>1. Skip' = Skip
  BY DEF Gathers, Skip
<1>2. Place' = Place
  BY DEF Gathers, Place
<1>3. Done' = Done
  BY <1>1, <1>2, SMTT(30) DEF Done
<1>4. ASSUME NEW b \in Blocks, Behind(b) PROVE Behind(b)' /\ flash'[b] = flash[b]
  BY <1>4, SMTT(30) DEF Gathers, Behind
<1> QED BY <1>1, <1>2, <1>3, <1>4, SMTT(30) DEF BehindKept

LEMMA GathersShape ==
  ASSUME TypeOK, Shape, Gathers PROVE Shape'
<1>1. Skip' = Skip
  BY GathersBehind
<1>2. /\ bad' = bad /\ client' = client /\ pc' = pc /\ worn' = worn /\ wb.ph = "idle" /\ call.fn = "data"
      /\ \/ /\ wb'.ph = "test" /\ ret' = ret /\ call'.fn = "data" /\ call'.blocks = call.blocks
            /\ Len(ctx'.stored) = EraseSize \/ (ctx'.stored = <<>> /\ Len(call'.rest) >= EraseSize)
         \/ wb' = wb /\ ret' = 0 /\ call'.fn = "none" /\ call'.rest = <<>> /\ call'.blocks = 0
  BY Zenon DEF Gathers, Quiet
<1> QED BY <1>1, <1>2 DEF Shape

\* s and then t are what was given after the first d units.
Follow(s, t, d) ==
    /\ \A j \in 1..Len(s) : s[j] = Given(d + j)
    /\ \A j \in 1..Len(t) : t[j] = Given(d + Len(s) + j)

\* Moving units leaves their places in the image.
LEMMA MovedGiven ==
  ASSUME NEW s \in Seq(Unit), NEW t \in Seq(Unit), NEW n \in 0..Len(t), NEW s2, NEW t2, Moved(s, t, n, s2, t2),
         NEW d \in Nat, Follow(s, t, d)
  PROVE  Len(s2) + Len(t2) = Len(s) + Len(t) /\ Follow(s2, t2, d)
<1>1. Len(s) \in Nat /\ Len(t) \in Nat /\ n \in Nat /\ n <= Len(t)
  BY LenOf
<1>2. Len(s2) = Len(s) + n /\ Len(t2) = Len(t) - n
  BY DEF Moved
<1>3. Len(s2) + Len(t2) = Len(s) + Len(t)
  BY <1>1, <1>2
<1>4. ASSUME NEW j \in 1..Len(s2) PROVE s2[j] = Given(d + j)
  <2>1. s2[j] = IF j <= Len(s) THEN s[j] ELSE t[j - Len(s)]
    BY <1>2, SMTT(30) DEF Moved
  <2>2. CASE j <= Len(s)
    <3>1. j \in 1..Len(s)
      BY <1>1, <1>2, <2>2, SMTT(30)
    <3> QED BY <2>1, <2>2, <3>1 DEF Follow
  <2>3. CASE ~(j <= Len(s))
    <3>1. j - Len(s) \in 1..Len(t) /\ d + Len(s) + (j - Len(s)) = d + j
      BY <1>1, <1>2, <2>3, SMTT(30)
    <3>2. t[j - Len(s)] = Given(d + Len(s) + (j - Len(s)))
      BY <3>1, SMTT(30) DEF Follow
    <3> QED BY <2>1, <2>3, <3>1, <3>2, SMTT(30)
  <2> QED BY <2>2, <2>3
<1>5. ASSUME NEW j \in 1..Len(t2) PROVE t2[j] = Given(d + Len(s2) + j)
  <2>1. t2[j] = t[n + j]
    BY <1>2 DEF Moved
  <2>2. n + j \in 1..Len(t) /\ d + Len(s) + (n + j) = d + Len(s2) + j
    BY <1>1, <1>2, SMTT(30)
  <2>3. t[n + j] = Given(d + Len(s) + (n + j))
    BY <2>2 DEF Follow
  <2> QED BY <2>1, <2>2, <2>3, SMTT(30)
<1> QED BY <1>3, <1>4, <1>5, Zenon DEF Follow

LEMMA GathersFlow ==
  ASSUME Counting, TypeOK, TypeOK', Shape, Course, Flowing => Flow, Gathers PROVE (Flowing => Flow)'
<1>1. BehindKept /\ Skip' = Skip /\ Place' = Place /\ Done' = Done
  BY GathersBehind, SMTT(30)
<1>2. /\ client' = client /\ image' = image /\ pc' = pc /\ fpos' = fpos /\ Quiet
      /\ pc \in {"data", "pass1", "pass2"} /\ ret = 1 /\ client # "format"
      /\ \E n \in 0..Len(call.rest) : Moved(ctx.stored, call.rest, n, ctx'.stored, call'.rest)
  BY DEF Gathers, Quiet, Shape, Course
<1>3. Flowing
  BY <1>2 DEF Flowing
<1> SUFFICES ASSUME Flow PROVE Flow'
  BY <1>3
<1>4. (\A k : Given(k)' = Given(k)) /\ (\A r : GivenBlock(r)' = GivenBlock(r))
  BY <1>2, QuietGiven
<1> DEFINE s == ctx.stored
           t == call.rest
           s2 == ctx'.stored
           t2 == call'.rest
<1>5. /\ Done \in Nat /\ s \in Seq(Unit) /\ t \in Seq(Unit)
      /\ Len(s) \in Nat /\ Len(t) \in Nat /\ Len(s2) \in Nat /\ Len(t2) \in Nat
  <2>1. Done \in Nat
    BY Times, RankType, SMTT(30) DEF Done
  <2>2. s2 \in Seq(Unit) /\ t2 \in Seq(Unit)
    BY DEF TypeOK
  <2> QED BY <2>1, <2>2, Parts, LenOf
<1>6. Follow(s, t, Done)
  BY DEF Flow, Contents, Follow
<1>7. /\ Len(s2) + Len(t2) = Len(s) + Len(t)
      /\ \A j \in 1..Len(s2) : s2[j] = Given(Done + j)
      /\ \A j \in 1..Len(t2) : t2[j] = Given(Done + Len(s2) + j)
  <2>1. PICK n \in 0..Len(t) : Moved(s, t, n, s2, t2)
    BY <1>2
  <2> HIDE DEF s, t, s2, t2
  <2>2. Len(s2) + Len(t2) = Len(s) + Len(t) /\ Follow(s2, t2, Done)
    BY <1>5, <1>6, <2>1, MovedGiven, SMTT(30)
  <2> QED BY <2>2 DEF Follow
<1>8. Pending'
  <2>1. call'.fn = "none" => Len(ctx'.stored) < EraseSize
    BY DEF Gathers
  <2> QED BY <1>2, <2>1, SMTT(30) DEF Pending
<1>9. Amounts'
  <2>1. Done + Len(s) + Len(t) = fpos
    BY <1>2 DEF Flow, Amounts
  <2>2. Done' + Len(s2) + Len(t2) = fpos'
    <3> HIDE DEF s, t, s2, t2
    <3>1. Len(s2) + Len(t2) = Len(s) + Len(t)
      BY <1>7
    <3>2. Done + Len(s2) + Len(t2) = fpos
      BY <1>5, <2>1, <3>1
    <3>3. Done' = Done /\ fpos' = fpos
      BY <1>1, <1>2
    <3> QED BY <3>2, <3>3, Zenon
  <2>3. fpos' \in Nat
    BY <1>2, Parts, SMTT(30)
  <2> QED BY <2>2, <2>3, SMTT(30) DEF Amounts
<1>10. ASSUME wb'.ph # "idle", NEW j \in 1..EraseSize PROVE wb'.data[j] = Given(Done + j)
  <2>1. \/ Len(s2) = EraseSize /\ wb'.data = s2
        \/ s2 = <<>> /\ Len(t2) >= EraseSize /\ wb'.data[j] = t2[j]
    BY <1>10 DEF Gathers
  <2>2. CASE Len(s2) = EraseSize /\ wb'.data = s2
    BY <1>7, <2>2
  <2>3. CASE s2 = <<>> /\ Len(t2) >= EraseSize /\ wb'.data[j] = t2[j]
    <3>1. Len(s2) = 0 /\ j \in 1..Len(t2)
      BY <1>5, <2>3, SizesAssumption, FreshType
    <3>2. Done + Len(s2) + j = Done + j
      <4> HIDE DEF s2
      <4> QED BY <1>5, <3>1, SMTT(30)
    <3> QED BY <1>7, <2>3, <3>1, <3>2, SMTT(30)
  <2> QED BY <2>1, <2>2, <2>3, SMTT(30)
<1>11. Contents'
  BY <1>1, <1>4, <1>7, <1>10 DEF Contents
<1>12. Ahead'
  BY <1>1 DEF Flow, Ahead
<1>13. Taken'
  BY <1>1, <1>4, TakenKept, SMTT(30) DEF Flow
<1> QED BY <1>8, <1>9, <1>11, <1>12, <1>13, SMTT(30) DEF Flow

-----------------------------------------------------------------------------
(* mtd_erase_blocks *)

LEMMA PadsBehind ==
  ASSUME Pads PROVE BehindKept /\ Skip' = Skip /\ Place' = Place /\ Done' = Done
<1>1. Skip' = Skip
  BY DEF Pads, Skip
<1>2. Place' = Place
  BY DEF Pads, Place
<1>3. Done' = Done
  BY <1>1, <1>2 DEF Done
<1>4. ASSUME NEW b \in Blocks, Behind(b) PROVE Behind(b)' /\ flash'[b] = flash[b]
  BY <1>4, SMTT(30) DEF Pads, Behind
<1> QED BY <1>1, <1>2, <1>3, <1>4 DEF BehindKept

LEMMA PadsShape ==
  ASSUME TypeOK, Shape, Pads PROVE Shape'
<1>1. Skip' = Skip
  BY PadsBehind
<1>2. /\ bad' = bad /\ client' = client /\ pc' = pc /\ worn' = worn /\ wb'.ph = "test" /\ call.fn = "erase"
      /\ call' = call /\ ctx' = ctx /\ ctx.stored # <<>> /\ ret' = ret
  BY DEF Pads, Quiet
<1> QED BY <1>1, <1>2, SMTT(30) DEF Shape

\* The padding is what follows the end of the image.
LEMMA PadsFlow ==
  ASSUME Counting, TypeOK, TypeOK', Shape, Course, Flowing => Flow, Pads PROVE (Flowing => Flow)'
<1>1. BehindKept /\ Skip' = Skip /\ Place' = Place /\ Done' = Done
  BY PadsBehind
<1>2. /\ client' = client /\ image' = image /\ pc' = pc /\ fpos' = fpos /\ Quiet
      /\ ctx' = ctx /\ call' = call /\ ret' = ret /\ call.fn = "erase" /\ ctx.stored # <<>>
  BY DEF Pads, Quiet
<1>3. Flowing' <=> Flowing
  BY <1>2 DEF Flowing
<1> SUFFICES ASSUME Flow, Flowing PROVE Flow'
  BY <1>3
<1>4. (\A k : Given(k)' = Given(k)) /\ (\A r : GivenBlock(r)' = GivenBlock(r))
  BY <1>2, QuietGiven, SMTT(30)
<1>5. Pending'
  BY <1>2 DEF Flow, Pending
<1>6. Amounts'
  BY <1>1, <1>2, SMTT(30) DEF Flow, Amounts
<1>7. fpos = Len(image)
  <2>1. client \in {"partition", "bcb", "format", "raw", "flash"}
    BY SizesAssumption DEF TypeOK
  <2> QED BY <1>2, <2>1, SMTT(30) DEF Flow, Pending, Flowing, Shape, Course
<1>8. ASSUME NEW j \in 1..EraseSize PROVE wb'.data[j] = Given(Done + j)
  <2>1. wb'.data[j] = IF j <= Len(ctx.stored) THEN ctx.stored[j] ELSE Zero
    BY DEF Pads
  <2>2. CASE j <= Len(ctx.stored)
    <3>1. j \in 1..Len(ctx.stored)
      BY <2>2, Parts, SizesAssumption
    <3> QED BY <2>1, <2>2, <3>1, SMTT(30) DEF Flow, Contents
  <2>3. CASE ~(j <= Len(ctx.stored))
    <3>1. call.rest = <<>>
      BY <1>2 DEF Shape
    <3> DEFINE a == Len(ctx.stored)
               l == Len(image)
    <3>2. Done + a + 0 = l /\ Done \in Nat /\ a \in Nat /\ l \in Nat /\ ~(j <= a) /\ j \in Int
      <4>1. Done + a + Len(call.rest) = l
        BY <1>2, <1>7 DEF Flow, Amounts
      <4>2. Len(call.rest) = 0
        BY <3>1, FreshType
      <4>3. Done \in Nat
        BY Times, RankType DEF Done
      <4> QED BY <2>3, <4>1, <4>2, <4>3, Parts, SMTT(30)
    <3>3. Done + j > l
      <4> HIDE DEF a, l
      <4> QED BY <3>2
    <3>4. Given(Done + j) = Zero
      BY <3>3, SMTT(30) DEF Given
    <3> QED BY <2>1, <2>3, <3>4, SMTT(30)
  <2> QED BY <2>2, <2>3, SMTT(30)
<1>9. Contents'
  BY <1>1, <1>2, <1>4, <1>8 DEF Flow, Contents
<1>10. Ahead'
  BY <1>1 DEF Flow, Ahead
<1>11. Taken'
  BY <1>1, <1>4, TakenKept, SMTT(30) DEF Flow
<1> QED BY <1>5, <1>6, <1>9, <1>10, <1>11, SMTT(30) DEF Flow

LEMMA ClearsBehind ==
  ASSUME Clears PROVE BehindKept /\ Skip' = Skip /\ Place' = Place /\ Done' = Done
<1>1. Skip' = Skip
  BY DEF Clears, Skip
<1>2. Place' = Place
  BY DEF Clears, Place
<1>3. Done' = Done
  BY <1>1, <1>2 DEF Done
<1>4. ASSUME NEW b \in Blocks, Behind(b) PROVE Behind(b)' /\ flash'[b] = flash[b]
  BY <1>4, SMTT(30) DEF Clears, Behind
<1> QED BY <1>1, <1>2, <1>3, <1>4 DEF BehindKept

LEMMA ClearsShape ==
  ASSUME TypeOK, Shape, Clears PROVE Shape'
<1>1. Skip' = Skip
  BY ClearsBehind
<1>2. /\ bad' = bad /\ client' = client /\ pc' = pc /\ worn' = worn /\ wb' = wb /\ wb.ph = "idle"
      /\ call'.fn = "none" /\ call'.rest = <<>> /\ call'.blocks = 0 /\ ret' = 0
  BY DEF Clears, Quiet
<1> QED BY <1>1, <1>2, SMTT(30) DEF Shape

LEMMA ClearsFlow ==
  ASSUME TypeOK, TypeOK', Shape, Flowing => Flow, Clears PROVE (Flowing => Flow)'
<1>1. BehindKept /\ Skip' = Skip /\ Place' = Place /\ Done' = Done
  BY ClearsBehind, SMTT(30)
<1>2. /\ client' = client /\ image' = image /\ pc' = pc /\ fpos' = fpos /\ Quiet
      /\ ctx' = ctx /\ wb' = wb /\ ctx.stored = <<>> /\ call'.rest = <<>> /\ wb.ph = "idle"
      /\ call.rest = <<>> /\ ret = 1 /\ pc \notin {"data", "pass1", "pass2"}
  BY DEF Clears, Quiet, Shape
<1>3. Flowing' => Flowing
  BY <1>2 DEF Flowing
<1> SUFFICES ASSUME Flow PROVE Flow'
  BY <1>3
<1>4. (\A k : Given(k)' = Given(k)) /\ (\A r : GivenBlock(r)' = GivenBlock(r))
  BY <1>2, QuietGiven
<1>5. Pending'
  BY <1>2, FreshType, SizesAssumption, SMTT(30) DEF Pending
<1>6. Amounts'
  BY <1>1, <1>2, SMTT(30) DEF Flow, Amounts
<1>7. Contents'
  BY <1>1, <1>2, <1>4 DEF Flow, Contents
<1>8. Ahead'
  BY <1>1 DEF Flow, Ahead
<1>9. Taken'
  BY <1>1, <1>4, TakenKept DEF Flow
<1> QED BY <1>5, <1>6, <1>7, <1>8, <1>9 DEF Flow

-----------------------------------------------------------------------------
(* flash_image *)

LEMMA NthUnique ==
  ASSUME Counting, NEW skip, NEW b, NEW c, IsNth(skip, 0, b), IsNth(skip, 0, c) PROVE b = c
<1>1. b \in Blocks \ skip /\ Rank(skip, b) = 0 /\ c \in Blocks \ skip /\ Rank(skip, c) = 0
  BY NthRank
<1>2. ~(b < c) /\ ~(c < b)
  BY <1>1, RankIsZero
<1> QED BY <1>1, <1>2, SizesAssumption DEF Blocks

\* No header begins with a unit of padding, or one that is erased.
LEMMA SpoiledHeader ==
  ASSUME Counting, TypeOK', Spoiled' PROVE HeaderLast'
<1> SUFFICES ASSUME HeaderSame(bad)' PROVE FALSE
  BY DEF HeaderLast
<1>1. PICK b \in Blocks : IsNth(bad', 0, b) /\ flash'[b][1] \notin Nat \ {0}
  BY DEF Spoiled, IsNth
<1>2. PICK c \in Blocks : IsNth(bad', 0, c) /\ \A j \in 1..HeaderSize : flash'[c][j] = image'[j]
  BY Zenon DEF HeaderSame, IsNth
<1>3. b = c
  BY <1>1, <1>2, NthUnique, SMTT(30)
<1>4. 1 \in 1..HeaderSize /\ 1 \in 1..Len(image') /\ image' \in Images
  BY SizesAssumption, Parts, SMTT(30) DEF TypeOK
<1>5. image'[1] \in Nat \ {0}
  BY <1>4, Units
<1> QED BY <1>1, <1>2, <1>3, <1>4, <1>5

LEMMA RestHeader == ASSUME Rest' PROVE HeaderLast'
BY SMTT(30) DEF Rest, HeaderLast

LEMMA FlashFlows ==
  ASSUME TypeOK, Shape, Course, client = "flash", call.fn # "none"
  PROVE  Flowing /\ pc \in {"pass1", "close1", "pass2", "close"}
BY Parts DEF Shape, Course, Flowing

\* As long as no block is given up, what is skipped is what is bad.
LEMMA SkipIsBad ==
  ASSUME TypeOK, Shape, worn = {}, \A c \in bad : c < Place => c \in Skip, NEW b \in Blocks \cup {Place}, b <= Place
  PROVE  Rank(Skip, b) = Rank(bad, b)
<1>1. \A c \in Skip : c \in bad
  BY DEF Shape
<1>2. \A c \in Blocks : c < b => (c \in Skip <=> c \in bad)
  BY <1>1, Positions
<1> QED BY <1>2, RankSame

LEMMA SameHeader ==
  ASSUME bad' = bad, image' = image, flash' = flash PROVE (Spoiled => Spoiled') /\ (Rest => Rest')
<1>1. Spoiled => Spoiled'
  BY Zenon DEF Spoiled, IsNth
<1>2. ASSUME NEW r, Holds(bad, r) PROVE Holds(bad, r)'
  BY <1>2, HoldsKept DEF Holds
<1> QED BY <1>1, <1>2 DEF Rest

\* The first block begins with padding in the first pass.
LEMMA FirstUnit ==
  ASSUME TypeOK, Flow, wb.ph # "idle", pc \in {"pass1", "close1"}, Rank(Skip, Place) = 0
  PROVE  wb.data[1] = Zero
<1>1. 1 \in 1..EraseSize /\ 1 <= HeaderSize
  BY SizesAssumption
<1>2. Done = 0
  BY Times DEF Done
<1>3. wb.data[1] = Given(Done + 1)
  BY <1>1 DEF Flow, Contents
<1>4. Done + 1 = 1
  BY <1>2
<1>5. Given(1) = Zero
  BY <1>1 DEF Given
<1> QED BY <1>3, <1>4, <1>5

\* In the second pass only the first block is written.
LEMMA OneBlock ==
  ASSUME Counting, TypeOK, Shape, Course, Flow, client = "flash", wb.ph # "idle", pc \in {"pass2", "close"}
  PROVE  Rank(Skip, Place) = 0
<1>1. pc = "pass2" /\ fpos <= EraseSize /\ call.fn = "data" /\ (ctx.stored # <<>> \/ Len(call.rest) >= EraseSize)
  <2>1. pc = "close" => ctx.stored = <<>>
    BY DEF Flow, Pending
  <2> QED BY <2>1, WritesFrom, SMTT(30) DEF Shape, Course
<1> DEFINE N == Rank(Skip, Place)
           a == Len(ctx.stored)
           b == Len(call.rest)
<1>2. EraseSize * N + a + b = fpos
  BY <1>1 DEF Flow, Amounts, Done
<1>3. a \in Nat /\ b \in Nat /\ (a > 0 \/ b > 0) /\ N \in Nat /\ fpos \in Nat /\ EraseSize \in Nat
  <2>1. a \in Nat /\ b \in Nat /\ N \in Nat /\ fpos \in Nat /\ EraseSize \in Nat \ {0}
    BY Parts, RankType, SizesAssumption
  <2>2. ctx.stored # <<>> => a > 0
    BY Parts, EmptyOf
  <2>3. b >= EraseSize => b > 0
    <3> HIDE DEF b
    <3> QED BY <2>1
  <2> QED BY <1>1, <2>1, <2>2, <2>3, SMTT(30)
<1> HIDE DEF N, a, b
<1>4. EraseSize * N \in Nat /\ (0 < N => EraseSize * 0 + EraseSize <= EraseSize * N) /\ EraseSize * 0 = 0
  BY <1>3, Times
<1>5. EraseSize * N < EraseSize
  BY <1>1, <1>2, <1>3, <1>4, SMTT(30)
<1>6. ~(0 < N)
  BY <1>3, <1>4, <1>5
<1> QED BY <1>3, <1>6, SMTT(30) DEF N

\* What touching a block does to the header and to the rest of the image
LEMMA TouchHeader ==
  ASSUME Counting, TypeOK, Shape, Course, Flow, HeaderInv, client = "flash", worn = {}, wb.ph # "idle", wb.pos \in Blocks \ bad,
         Touched, flash' # flash, bad' = bad, image' = image
  PROVE  IF pc \in {"pass1", "close1"} THEN Spoiled' ELSE Rest'
<1>1. Flowing /\ pc \in {"pass1", "close1", "pass2", "close"}
  BY FlashFlows DEF Shape
<1>2. /\ \A c \in bad : c < Place => c \in Skip
      /\ pc \in {"pass1", "close1"} /\ Rank(Skip, Place) # 0 => Spoiled
      /\ pc \in {"pass2", "close"} => Rest
  BY <1>1 DEF HeaderInv
<1>3. PICK p : p = wb.pos
  OBVIOUS
<1>4. p \in Blocks \ bad /\ Place = p /\ flash'[p][1] \in {wb.data[1], Blank} /\ \A b \in Blocks \ {p} : flash'[b] = flash[b]
  BY <1>3 DEF Place, Touched
<1>5. Rank(Skip, p) = Rank(bad, p)
  BY <1>2, <1>4, Positions, SkipIsBad, SMTT(30)
<1>6. CASE pc \in {"pass1", "close1"} /\ Rank(Skip, Place) = 0
  <2>1. IsNth(bad, 0, p)
    BY <1>4, <1>5, <1>6, NthRank, Zenon
  <2>2. flash'[p][1] \notin Nat \ {0}
    BY <1>4, <1>6, FirstUnit, SMTT(30) DEF Zero, Blank
  <2>3. p \in Blocks /\ IsNth(bad', 0, p) /\ flash'[p][1] \notin Nat \ {0}
    BY <1>4, <2>1, <2>2, SMTT(30)
  <2> QED BY <1>6, <2>3 DEF Spoiled
<1>7. CASE pc \in {"pass1", "close1"} /\ Rank(Skip, Place) # 0
  <2>1. PICK b \in Blocks : IsNth(bad, 0, b) /\ flash[b][1] \notin Nat \ {0}
    BY <1>2, <1>7, SMTT(30) DEF Spoiled
  <2>2. b # p
    BY <1>4, <1>5, <1>7, <2>1, NthRank, SMTT(30)
  <2>3. IsNth(bad', 0, b) /\ flash'[b][1] \notin Nat \ {0}
    BY <1>4, <2>1, <2>2, SMTT(30)
  <2> QED BY <1>7, <2>3, SMTT(30) DEF Spoiled
<1>8. CASE pc \in {"pass2", "close"}
  <2>1. Rank(bad, p) = 0
    BY <1>4, <1>5, <1>8, OneBlock, SMTT(30)
  <2>2. ASSUME NEW r \in 1..Len(image), Holds(bad, r) PROVE Holds(bad, r)'
    <3>1. \A b \in Blocks : IsNth(bad, r, b) => flash'[b] = flash[b]
      BY <1>4, <2>1, NthRank, Parts
    <3> QED BY <2>2, <3>1, HoldsKept, SMTT(30) DEF Holds
  <2>3. Rest'
    BY <1>2, <1>8, <2>2 DEF Rest
  <2> QED BY <1>8, <2>3, SMTT(30)
<1> QED BY <1>1, <1>6, <1>7, <1>8, SMTT(30)

\* The flash and the place stay as they are.
LEMMA SteadyHeader ==
  ASSUME Quiet, worn' = worn, flash' = flash, Skip' = Skip, Place' = Place, client = "flash" => Flowing,
         HeaderInv, HeaderLast
  PROVE  HeaderInv' /\ HeaderLast'
<1>1. client' = client /\ bad' = bad /\ image' = image /\ pc' = pc
  BY DEF Quiet
<1>2. (Spoiled => Spoiled') /\ (Rest => Rest')
  BY <1>1, SameHeader
<1>3. HeaderInv'
  BY <1>1, <1>2 DEF HeaderInv
<1> QED BY <1>1, <1>3, HeaderLastKept

LEMMA StaysHeader ==
  ASSUME Counting, TypeOK, TypeOK', Shape, Course, Flowing => Flow, HeaderInv, HeaderLast, Stays
  PROVE  HeaderInv' /\ HeaderLast'
<1>1. /\ Quiet /\ Touched /\ wb.ph # "idle" /\ wb.pos \in Blocks \ bad /\ worn' = worn
      /\ client' = client /\ bad' = bad /\ image' = image /\ pc' = pc
  BY DEF Stays, Quiet
<1>2. Skip' = Skip /\ Place' = Place
  BY StaysBehind, SMTT(30)
<1>3. client = "flash" => Flowing /\ pc \in {"pass1", "close1", "pass2", "close"}
  BY <1>1, FlashFlows DEF Shape
<1>4. CASE flash' = flash
  BY <1>1, <1>2, <1>3, <1>4, SteadyHeader
<1>5. CASE client = "flash" /\ worn = {} /\ flash' # flash
  <2>1. IF pc \in {"pass1", "close1"} THEN Spoiled' ELSE Rest'
    BY <1>1, <1>3, <1>5, TouchHeader
  <2>2. HeaderLast'
    BY <2>1, SpoiledHeader, RestHeader
  <2>3. HeaderInv'
    BY <1>1, <1>2, <1>3, <1>5, <2>1, SMTT(30) DEF HeaderInv
  <2> QED BY <2>2, <2>3
<1>6. CASE ~(client = "flash" /\ worn = {})
  BY <1>1, <1>6 DEF HeaderInv, HeaderLast
<1> QED BY <1>4, <1>5, <1>6, SMTT(30)

LEMMA PassesHeader ==
  ASSUME TypeOK, TypeOK', Shape, Course, HeaderInv, HeaderLast, Passes
  PROVE  HeaderInv' /\ HeaderLast'
<1>1. /\ worn' = worn \cup ({wb.pos} \ bad) /\ wb.ph # "idle" /\ wb.pos \in Blocks
      /\ client' = client /\ bad' = bad /\ image' = image /\ pc' = pc
      /\ (wb.pos \in bad => flash' = flash) /\ Skip' = Skip \cup {wb.pos} /\ Place = wb.pos
  BY DEF Passes, Quiet, Place
<1>2. Place' = Place + 1 /\ Rank(Skip', Place') = Rank(Skip, Place)
  BY PassesBehind
<1> SUFFICES ASSUME client = "flash", worn' = {} PROVE HeaderInv' /\ HeaderLast'
  BY <1>1 DEF HeaderInv, HeaderLast
<1>3. worn = {} /\ wb.pos \in bad /\ flash' = flash
  BY <1>1, SMTT(30)
<1>4. Flowing
  BY <1>1, FlashFlows DEF Shape
<1>5. (Spoiled => Spoiled') /\ (Rest => Rest')
  BY <1>1, <1>3, SameHeader, SMTT(30)
<1>6. \A c \in bad : c < Place + 1 => c \in Skip \cup {wb.pos}
  <2>1. \A c \in bad : c \in Blocks
    BY DEF TypeOK
  <2>2. \A c \in bad : c < Place + 1 => c < Place \/ c = Place
    BY <2>1, Positions
  <2> QED BY <1>1, <1>3, <1>4, <2>2, SMTT(30) DEF HeaderInv
<1>7. HeaderInv'
  BY <1>1, <1>2, <1>3, <1>4, <1>5, <1>6, SMTT(30) DEF HeaderInv
<1>8. HeaderLast'
  BY <1>1, <1>3, HeaderLastKept, SMTT(30)
<1> QED BY <1>7, <1>8, SMTT(30)

LEMMA WritesHeader ==
  ASSUME TypeOK, TypeOK', Shape, Course, Flowing => Flow, HeaderInv, HeaderLast, Writes
  PROVE  HeaderInv' /\ HeaderLast'
<1>1. /\ worn' = worn /\ wb.ph # "idle" /\ wb.pos \in Blocks \ bad /\ flash' = flash /\ flash[wb.pos] = wb.data
      /\ client' = client /\ bad' = bad /\ image' = image /\ pc' = pc
  BY DEF Writes, Quiet
<1>2. Skip' = Skip /\ Place' = Place + 1 /\ Place = wb.pos
  BY WritesBehind
<1>3. HeaderLast'
  BY <1>1, HeaderLastKept, SMTT(30)
<1> SUFFICES ASSUME client = "flash", worn = {} PROVE HeaderInv'
  BY <1>1, <1>3, SMTT(30) DEF HeaderInv
<1>4. Flowing /\ Flow
  BY <1>1, FlashFlows, SMTT(30) DEF Shape
<1>5. (Spoiled => Spoiled') /\ (Rest => Rest')
  BY <1>1, SameHeader, SMTT(30)
<1>6. \A c \in bad : c < Place + 1 => c \in Skip
  <2>1. \A c \in bad : c \in Blocks
    BY DEF TypeOK
  <2>2. \A c \in bad : c < Place + 1 => c < Place \/ c = Place
    BY <2>1, Positions
  <2> QED BY <1>1, <1>2, <1>4, <2>2, SMTT(30) DEF HeaderInv
<1>7. ASSUME pc \in {"pass1", "close1"} PROVE Spoiled
  <2>1. CASE Rank(Skip, Place) # 0
    BY <1>4, <1>7, <2>1, SMTT(30) DEF HeaderInv
  <2>2. CASE Rank(Skip, Place) = 0
    <3>1. Rank(bad, wb.pos) = 0
      BY <1>1, <1>2, <1>4, <2>2, Positions, SkipIsBad, SMTT(30) DEF HeaderInv
    <3>2. IsNth(bad, 0, wb.pos)
      BY <1>1, <3>1, NthRank, SMTT(30)
    <3>3. flash[wb.pos][1] \notin Nat \ {0}
      BY <1>1, <1>4, <1>7, <2>2, FirstUnit, SMTT(30) DEF Zero
    <3> QED BY <1>1, <3>2, <3>3, SMTT(30) DEF Spoiled
  <2> QED BY <2>1, <2>2
<1> QED BY <1>1, <1>2, <1>4, <1>5, <1>6, <1>7, SMTT(30) DEF HeaderInv

\* Every step of the library keeps the invariant.
LEMMA LibraryStep ==
  ASSUME Counting, Inv, WriteBlock \/ WriteData \/ PadBlock \/ EraseBlocks PROVE Inv'
<1> USE DEF Inv
<1>1. CASE TypeOK' /\ Stays
  <2>1. BehindKept /\ Quiet /\ worn' = worn /\ ret' = ret /\ call.fn # "none"
    BY <1>1, StaysBehind, Zenon DEF Stays, Shape
  <2> QED BY <1>1, <2>1, StaysShape, CourseKept, StaysFlow, RawFlowKept, CausesKept, NotEnded, StaysHeader, SMTT(30)
<1>2. CASE TypeOK' /\ Passes
  <2>1. BehindKept /\ Quiet /\ worn \subseteq worn' /\ ret' = ret /\ call.fn # "none"
    BY <1>2, PassesBehind, SMTT(30) DEF Passes, Shape
  <2> QED BY <1>2, <2>1, PassesShape, CourseKept, PassesFlow, RawFlowKept, CausesKept, NotEnded, PassesHeader, SMTT(30)
<1>3. CASE TypeOK' /\ Writes
  <2>1. BehindKept /\ Quiet /\ worn' = worn /\ ret' = ret /\ call.fn # "none"
    BY <1>3, WritesBehind, SMTT(30) DEF Writes, Shape
  <2> QED BY <1>3, <2>1, WritesShape, CourseKept, WritesFlow, RawFlowKept, CausesKept, NotEnded, WritesHeader, SMTT(30)
<1>4. CASE TypeOK' /\ Fails
  <2>1. BehindKept /\ Quiet /\ call.fn # "none" /\ ret' = -1 /\ worn' = worn /\ flash' = flash
    BY <1>4, FailsBehind, SMTT(30) DEF Fails, Shape
  <2>2. HeaderInv' /\ HeaderLast'
    BY <2>1, HeaderLastKept, SMTT(30) DEF HeaderInv, Flowing, Quiet
  <2> QED BY <1>4, <2>1, <2>2, FailsShape, CourseKept, FailsFlow, RawFlowKept, FailsCauses, NotEnded, SMTT(30)
<1>5. CASE TypeOK' /\ Gathers
  <2>1. /\ BehindKept /\ Quiet /\ worn' = worn /\ (ret' = ret \/ ret' = 0) /\ call.fn # "none"
        /\ flash' = flash /\ Skip' = Skip /\ Place' = Place
    BY <1>5, GathersBehind, Zenon DEF Gathers
  <2>2. HeaderInv' /\ HeaderLast'
    BY <2>1, FlashFlows, SteadyHeader, SMTT(30)
  <2> QED BY <1>5, <2>1, <2>2, GathersShape, CourseKept, GathersFlow, RawFlowKept, CausesKept, NotEnded, SMTT(30)
<1>6. CASE TypeOK' /\ Pads
  <2>1. /\ BehindKept /\ Quiet /\ worn' = worn /\ ret' = ret /\ call.fn # "none"
        /\ flash' = flash /\ Skip' = Skip /\ Place' = Place
    BY <1>6, PadsBehind DEF Pads
  <2>2. HeaderInv' /\ HeaderLast'
    BY <2>1, FlashFlows, SteadyHeader, SMTT(30)
  <2> QED BY <1>6, <2>1, <2>2, PadsShape, CourseKept, PadsFlow, RawFlowKept, CausesKept, NotEnded, SMTT(30)
<1>7. CASE TypeOK' /\ Clears
  <2>1. /\ BehindKept /\ Quiet /\ worn' = worn /\ ret' = 0 /\ call.fn # "none"
        /\ (client = "flash" => flash' = flash) /\ Skip' = Skip /\ Place' = Place
    BY <1>7, ClearsBehind DEF Clears, Shape
  <2>2. HeaderInv' /\ HeaderLast'
    <3>1. CASE client = "flash"
      BY <2>1, <3>1, FlashFlows, SteadyHeader, SMTT(30)
    <3>2. CASE client # "flash"
      BY <2>1, <3>2 DEF HeaderInv, HeaderLast, Quiet
    <3> QED BY <3>1, <3>2
  <2> QED BY <1>7, <2>1, <2>2, ClearsShape, CourseKept, ClearsFlow, RawFlowKept, CausesKept, NotEnded, SMTT(30)
<1> QED BY <1>1, <1>2, <1>3, <1>4, <1>5, <1>6, <1>7, WriteBlockFullDoes, SkipBadBlockDoes, GoodBlockDoes,
           EraseBlockDoes, ProgramBlockDoes, VerifyBlockDoes, GiveUpDoes, WriteDataDoes, PadBlockDoes, EraseBlocksDoes, SMTT(30)
        DEF WriteBlock

=============================================================================
