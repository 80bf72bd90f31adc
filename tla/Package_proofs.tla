--------------------------- MODULE Package_proofs ---------------------------
(***************************************************************************)
(* Proofs about Package, for every set of files, names and directories and   *)
(* every number of entries that the field for it can hold.                   *)
(***************************************************************************)
EXTENDS Package, FiniteSetTheorems, TLAPS

Early == {"verify", "open", "closed", "refused"}
Placing == {"search", "insert"}
Placed == {"hash", "ready", "extract", "extracted", "failed"}

\* How far the arrays are filled at each place.
Shape ==
    /\ pc \in Early => dir = <<>> /\ entries = <<>>
    /\ pc = "entry" => Len(entries) = Len(dir)
    /\ pc \in Placing => Len(entries) = Len(dir) - 1 /\ high <= Len(entries)
    /\ pc = "search" => low <= high + 1
    /\ pc \in Placed => Len(entries) = num /\ Len(dir) = num
    /\ pc \in Placed => i <= num + 1
    /\ pc \notin {"extract", "extracted", "failed", "closed"} => extracted = {}

\* Where the EOCD is.
Located ==
    /\ pc \in (Places \ {"verify", "refused", "closed"}) => EocdOk(file)
    /\ Parsing => IsEocd(file, eocd)

\* What the binary search knows of the place of the new record.
Between ==
    /\ pc = "search" =>
          /\ \A k \in 1..(low - 1) : Before(NameOf(k), New)
          /\ \A k \in (high + 1)..Len(entries) : Before(New, NameOf(k))
    /\ pc = "insert" =>
          /\ \A k \in 1..high : ~Before(New, NameOf(k))
          /\ \A k \in (high + 1)..Len(entries) : ~Before(NameOf(k), New)

\* What the walk has done: the matches are an interval that ends before i.
Walked ==
    /\ pc = "extract" =>
          /\ extracted = {k \in 1..(i - 1) : Under(NameOf(k), zipDir)}
          /\ seenMatch <=> extracted # {}
    /\ ExtractsAll

USE DEF Places, Early, Placing, Placed

-----------------------------------------------------------------------------
(* The EOCD. *)
\* In a file that verify_file accepts, the only place where parseZipArchive can stop
\* its search is the record the verifier has found.
LEMMA VerifiedEocd ==
    ASSUME NEW f, IsFile(f), EocdOk(f), NEW p \in f.sigs, IsEocd(f, p)
    PROVE  p = f.len - (f.comment + EOCD_HEADER_SIZE)
<1> DEFINE e == f.len - (f.comment + EOCD_HEADER_SIZE)
<1>1. e \in f.sigs /\ e \in Nat /\ p \in Nat /\ f.len \in Nat /\ f.comment \in Nat
  BY DEF IsFile, EocdOk, EOCD_HEADER_SIZE
<1>2. e <= p
  BY <1>1 DEF IsEocd, EOCD_HEADER_SIZE, ENDHDR
<1>3. \A k \in 4..((f.comment + EOCD_HEADER_SIZE) - 4) : e + k \notin f.sigs
  BY DEF EocdOk
<1>4. p + 4 <= f.len
  BY DEF IsFile
<1>5. ASSUME e < p PROVE FALSE
  <2>1. e + 4 <= p
    BY <1>1, <1>5 DEF IsFile
  <2>2. p - e \in 4..((f.comment + EOCD_HEADER_SIZE) - 4) /\ p = e + (p - e)
    BY <1>1, <1>4, <2>1 DEF EOCD_HEADER_SIZE
  <2> QED BY <1>3, <2>2
<1> QED BY <1>1, <1>2, <1>5

-----------------------------------------------------------------------------
(* Types, and how far the arrays are filled. *)
LEMMA TypeInit == Init => Ranges /\ Shape
<1> SUFFICES ASSUME Init PROVE Ranges /\ Shape
  OBVIOUS
<1>1. (CHOOSE d \in ZipDir : TRUE) \in ZipDir
  BY BoundsAssumption
<1> QED BY <1>1, BoundsAssumption DEF Init, Ranges, Shape

\* The middle of the interval that is searched lies in it.
LEMMA MidBounds ==
    ASSUME Ranges, Shape, pc = "search", low <= high,
           NEW mid, mid = low + ((high - low) \div 2)
    PROVE  /\ mid \in Nat /\ low <= mid /\ mid <= high /\ mid <= Len(entries)
           /\ mid \in 1..Len(entries)
BY BoundsAssumption DEF Ranges, Shape

LEMMA TypeNext == Ranges /\ Shape /\ [Next]_vars => Ranges' /\ Shape'
<1> SUFFICES ASSUME Ranges, Shape, [Next]_vars PROVE Ranges' /\ Shape'
  OBVIOUS
<1> USE BoundsAssumption
<1>1. CASE VerifyFile
  BY <1>1 DEF VerifyFile, Ranges, Shape, archive, search, walk
<1>2. CASE OpenFails \/ BadEntry \/ CloseArchive
  <2>1. Close("refused") \/ Close("closed")
    BY <1>2 DEF OpenFails, BadEntry, CloseArchive
  <2>2. /\ pc' \in {"refused", "closed"} /\ dir' = <<>> /\ entries' = <<>>
        /\ num' = num /\ file' = file /\ eocd' = eocd /\ low' = low /\ high' = high
        /\ i' = i /\ zipDir' = zipDir /\ extracted' = extracted
    BY <2>1 DEF Close, search, walk
  <2>3. pc' = "refused" => pc \in {"open", "entry"}
    BY <1>2 DEF OpenFails, BadEntry, CloseArchive, Close
  <2> QED BY <2>2, <2>3 DEF Ranges, Shape
<1>3. CASE FindEocd
  <2>1. eocd' \in Nat
    BY <1>3, PackagesAssumption DEF FindEocd, Ranges, IsFile
  <2> QED BY <1>3, <2>1 DEF FindEocd, Ranges, Shape, search, walk
<1>4. CASE ReadEntry
  <2>1. PICK n \in Name : dir' = Append(dir, n)
    BY <1>4 DEF ReadEntry
  <2>2. dir' \in Seq(Name) /\ Len(dir') = Len(dir) + 1 /\ Len(dir) \in Nat
    BY <2>1 DEF Ranges
  <2>3. entries' \in Seq(1..Len(dir'))
    BY <1>4, <2>2 DEF ReadEntry, Ranges
  <2> QED BY <1>4, <2>2, <2>3 DEF ReadEntry, Ranges, Shape, walk
<1>5. CASE Search
  <2>1. CASE low > high
    <3>1. pc = "search" /\ pc' = "insert" /\ UNCHANGED <<file, archive, search, i, walk>>
      BY <1>5, <2>1 DEF Search, Ranges, search
    <3> QED BY <2>1, <3>1 DEF Ranges, Shape, archive, search, walk
  <2>2. CASE low <= high
    <3> DEFINE mid == low + ((high - low) \div 2)
    <3>1. Compare(mid)
      BY <1>5, <2>2 DEF Search, Ranges
    <3>2. mid \in Nat /\ low <= mid /\ mid <= high /\ mid <= Len(entries)
      BY <1>5, <2>2, MidBounds DEF Search
    <3> HIDE DEF mid
    <3>3. /\ \/ low' = mid + 1 /\ high' = high /\ pc' = pc
             \/ high' = mid - 1 /\ low' = low /\ pc' = pc
             \/ high' = mid /\ pc' = "insert" /\ low' = low
          /\ pc = "search"
          /\ UNCHANGED <<file, eocd, num, dir, entries, i, zipDir, extracted>>
      BY <1>5, <3>1 DEF Search, Compare, archive, walk
    <3>4. /\ low \in Nat /\ high \in Nat /\ 1 <= low /\ high <= MaxEntries
          /\ low <= MaxEntries + 1
      BY DEF Ranges
    <3>5. low' \in 1..(MaxEntries + 1) /\ high' \in 0..MaxEntries /\ high' <= high
      BY <3>2, <3>3, <3>4
    <3>8. pc' # "insert" => low' <= high' + 1
      BY <3>2, <3>3, <3>4
    <3>6. Ranges'
      BY <3>3, <3>5 DEF Ranges
    <3>7. Shape'
      <4>1. Len(entries) = Len(dir) - 1 /\ high <= Len(entries)
        BY <3>3 DEF Shape
      <4>0. Len(entries) \in Nat
        BY DEF Ranges
      <4>2. high' <= Len(entries)
        BY <3>4, <3>5, <4>0, <4>1
      <4>3. extracted = {}
        BY <3>3 DEF Shape
      <4> QED BY <3>3, <3>8, <4>1, <4>2, <4>3 DEF Shape
    <3> QED BY <3>6, <3>7
  <2> QED BY <2>1, <2>2 DEF Ranges
<1>6. CASE Insert
  <2>1. Len(dir) \in Nat /\ Len(entries) = Len(dir) - 1 /\ Len(entries) \in Nat
    BY <1>6 DEF Insert, Ranges, Shape
  <2>2. entries' \in Seq(1..Len(dir)) /\ Len(entries') = Len(dir)
    <3> DEFINE at(k) == IF k < high + 1 THEN entries[k]
                        ELSE IF k = high + 1 THEN Len(dir) ELSE entries[k - 1]
    <3>1. entries' = [k \in 1..Len(dir) |-> at(k)]
      BY <1>6, <2>1 DEF Insert
    <3>4. entries \in Seq(1..Len(dir)) /\ high \in Nat
      BY DEF Ranges
    <3>3. high \in Nat /\ Len(dir) >= 1 /\ \A k \in 1..Len(entries) : entries[k] \in 1..Len(dir)
      BY <2>1, <3>4
    <3>2. \A k \in 1..Len(dir) : at(k) \in 1..Len(dir)
      <4> SUFFICES ASSUME NEW k \in 1..Len(dir) PROVE at(k) \in 1..Len(dir)
        OBVIOUS
      <4>0. high <= Len(entries)
        BY <1>6 DEF Insert, Shape
      <4>1. CASE k < high + 1
        BY <2>1, <3>3, <4>0, <4>1
      <4>2. CASE k = high + 1
        BY <2>1, <3>3, <4>2
      <4>3. CASE k > high + 1
        <5>1. k - 1 \in 1..Len(entries) /\ ~(k < high + 1) /\ k # high + 1
          BY <2>1, <3>3, <4>3
        <5> QED BY <5>1, <3>3
      <4> QED BY <3>3, <4>1, <4>2, <4>3
    <3> HIDE DEF at
    <3> QED BY <2>1, <3>1, <3>2
  <2> QED BY <1>6, <2>2 DEF Insert, Ranges, Shape, search, walk
<1>7. CASE StartHash
  BY <1>7 DEF StartHash, Ranges, Shape, archive, search, walk
<1>12. CASE Opened
  BY <1>12 DEF Opened, Ranges, Shape, archive, search, walk
<1>8. CASE HashEntry
  BY <1>8 DEF HashEntry, Ranges, Shape, search, walk
<1>9. CASE ExtractRecursive
  BY <1>9 DEF ExtractRecursive, Ranges, Shape, archive, search
<1>13. CASE ExtractEnds
  BY <1>13 DEF ExtractEnds, Ranges, Shape, archive, search, walk
<1>14. CASE ExtractFails
  BY <1>14 DEF ExtractFails, Ranges, Shape, archive, search
<1>10. CASE ExtractEntry
  <2>1. /\ pc = "extract" /\ pc' \in {"extract", "extracted"} /\ i <= num
        /\ i' \in {i, i + 1} /\ extracted' \in {extracted, extracted \cup {i}}
        /\ UNCHANGED <<file, eocd, num, dir, entries, low, high, zipDir>>
    BY <1>10 DEF ExtractEntry, Mismatch, archive, search
  <2> QED BY <2>1 DEF Ranges, Shape
<1>11. CASE UNCHANGED vars
  BY <1>11 DEF vars, Ranges, Shape, archive, search, walk
<1> QED BY <1>1, <1>2, <1>3, <1>4, <1>5, <1>6, <1>7, <1>8, <1>9, <1>10, <1>11, <1>12, <1>13,
       <1>14 DEF Next

LEMMA TypesHold == Spec => [](Ranges /\ Shape)
<1>1. Ranges /\ Shape /\ [Next]_vars => (Ranges /\ Shape)'
  BY TypeNext
<1> QED BY TypeInit, <1>1, PTL DEF Spec

\* Package is type correct.
THEOREM TypeCorrect == Spec => []TypeOK
<1>1. Init => seenMatch \in BOOLEAN
  BY Zenon DEF Init
<1>2. seenMatch \in BOOLEAN /\ [Next]_vars => (seenMatch \in BOOLEAN)'
  <2> SUFFICES ASSUME seenMatch \in BOOLEAN, [Next]_vars PROVE seenMatch' \in BOOLEAN
    OBVIOUS
  <2>1. seenMatch' = seenMatch \/ seenMatch' = TRUE \/ seenMatch' = FALSE
    BY DEF Next, vars, walk, VerifyFile, OpenFails, FindEocd, BadEntry, ReadEntry, Search,
           Insert, StartHash, HashEntry, Opened, ExtractRecursive, ExtractEntry,
           ExtractFails, ExtractEnds, CloseArchive, Close
  <2> QED BY <2>1, Zenon
<1>3. (Ranges /\ Shape) /\ seenMatch \in BOOLEAN => TypeOK
  BY DEF TypeOK
<1> QED BY <1>1, <1>2, <1>3, TypesHold, PTL DEF Spec

-----------------------------------------------------------------------------
LEMMA LocatedNext == Located /\ [Next]_vars => Located'
<1> SUFFICES ASSUME Located, [Next]_vars PROVE Located'
  OBVIOUS
<1>1. CASE VerifyFile
  BY <1>1 DEF VerifyFile, Located, Parsing
<1>2. CASE OpenFails \/ BadEntry \/ CloseArchive
  BY <1>2 DEF OpenFails, BadEntry, CloseArchive, Close, Located, Parsing
<1>3. CASE FindEocd
  BY <1>3 DEF FindEocd, Located, Parsing
<1>4. CASE ReadEntry \/ Search \/ Insert
  BY <1>4 DEF ReadEntry, Search, Compare, Insert, archive, Located, Parsing
<1>5. CASE StartHash \/ HashEntry \/ Opened
  BY <1>5 DEF StartHash, HashEntry, Opened, archive, Located, Parsing
<1>6. CASE ExtractRecursive \/ ExtractEntry \/ ExtractFails \/ ExtractEnds
  BY <1>6 DEF ExtractRecursive, ExtractEntry, Mismatch, ExtractFails, ExtractEnds, archive,
              Located, Parsing
<1>7. CASE UNCHANGED vars
  BY <1>7 DEF vars, archive, Located, Parsing
<1> QED BY <1>1, <1>2, <1>3, <1>4, <1>5, <1>6, <1>7 DEF Next

\* In a verified package minzip parses the directory that the signature covers, for
\* files of every length with markers anywhere.
THEOREM VerifiedParsed == Spec => []ParsedIsVerified
<1>1. Init => Located
  BY DEF Init, Located, Parsing
<1>2. Ranges /\ Located => ParsedIsVerified
  <2> SUFFICES ASSUME Ranges, Located, Parsing
               PROVE /\ eocd = file.len - (file.comment + EOCD_HEADER_SIZE)
                     /\ eocd + 20 <= SignedLen(file)
    BY DEF ParsedIsVerified
  <2>1. IsFile(file) /\ EocdOk(file) /\ IsEocd(file, eocd) /\ eocd \in file.sigs
    BY PackagesAssumption DEF Ranges, Located, Parsing, IsEocd
  <2>2. eocd = file.len - (file.comment + EOCD_HEADER_SIZE)
    BY <2>1, VerifiedEocd
  <2> QED BY <2>1, <2>2 DEF SignedLen, EOCD_HEADER_SIZE, IsFile
<1>3. (Ranges /\ Shape) /\ Located => ParsedIsVerified
  BY <1>2
<1> QED BY <1>1, <1>3, LocatedNext, TypesHold, PTL DEF Spec

-----------------------------------------------------------------------------
(* The binary search.  Where the walk over the entries is does not matter here. *)
InOrder == \A j, k \in 1..Len(entries) : j < k => ~Before(NameOf(k), NameOf(j))

\* pEntries has a place for every record read, but for the one that is being placed.
Complete ==
    Parsing => {entries[k] : k \in 1..Len(entries)} =
       1..(Len(dir) - (IF pc \in {"search", "insert"} THEN 1 ELSE 0))

LEMMA OrderFacts ==
    ASSUME NEW a \in Name, NEW b \in Name, NEW c \in Name
    PROVE  /\ ~Before(b, a) /\ ~Before(c, b) => ~Before(c, a)
           /\ ~Before(b, a) /\ Before(b, c) => Before(a, c)
           /\ Before(a, b) /\ ~Before(c, b) => Before(a, c)
           /\ ~Before(a, a)
BY OrderAssumption

LEMMA NamesAre ==
    ASSUME Ranges
    PROVE  /\ Len(entries) \in Nat /\ Len(dir) \in Nat
           /\ \A k \in 1..Len(entries) : entries[k] \in 1..Len(dir) /\ NameOf(k) \in Name
           /\ Len(dir) > 0 => New \in Name
<1>1. entries \in Seq(1..Len(dir)) /\ dir \in Seq(Name)
  BY DEF Ranges
<1>2. \A k \in 1..Len(entries) : entries[k] \in 1..Len(dir)
  BY <1>1
<1> QED BY <1>1, <1>2 DEF NameOf, New

\* A step that changes neither array.
LEMMA OrderKept ==
    ASSUME InOrder, entries' = entries, dir' = dir
    PROVE  InOrder'
BY DEF InOrder, NameOf

LEMMA SearchKeeps ==
    ASSUME Ranges, Shape, InOrder, Between, Search
    PROVE  Between'
<1>0. pc = "search" /\ entries' = entries /\ dir' = dir
  BY DEF Search, archive
<1>1. /\ Len(entries) \in Nat /\ low \in Nat /\ high \in Nat /\ high <= Len(entries)
      /\ New \in Name /\ \A k \in 1..Len(entries) : NameOf(k) \in Name
  <2>1. Len(dir) > 0
    BY <1>0, NamesAre DEF Shape
  <2> QED BY <1>0, <2>1, NamesAre DEF Ranges, Shape
<1>2. New' = New /\ \A k : NameOf(k)' = NameOf(k)
  BY <1>0 DEF New, NameOf
<1>3. /\ \A k \in 1..(low - 1) : Before(NameOf(k), New)
      /\ \A k \in (high + 1)..Len(entries) : Before(New, NameOf(k))
  BY <1>0 DEF Between
<1>4. CASE low > high
  <2>1. low = high + 1 /\ low' = low /\ high' = high /\ pc' = "insert"
    BY <1>0, <1>1, <1>4 DEF Search, Shape, search
  <2>2. \A k \in 1..high : ~Before(New, NameOf(k))
    BY <1>1, <1>3, <2>1, OrderAssumption
  <2>3. \A k \in (high + 1)..Len(entries) : ~Before(NameOf(k), New)
    BY <1>1, <1>3, OrderAssumption
  <2> QED BY <1>0, <1>2, <2>1, <2>2, <2>3 DEF Between
<1>5. CASE low <= high
  <2> DEFINE mid == low + ((high - low) \div 2)
  <2>1. Compare(mid)
    BY <1>5, <1>1 DEF Search
  <2>2. mid \in Nat /\ low <= mid /\ mid <= high /\ mid \in 1..Len(entries)
    BY <1>0, <1>5, MidBounds
  <2> HIDE DEF mid
  <2>3. /\ \A k \in 1..(mid - 1) : ~Before(NameOf(mid), NameOf(k))
        /\ \A k \in (mid + 1)..Len(entries) : ~Before(NameOf(k), NameOf(mid))
    BY <1>1, <2>2 DEF InOrder
  <2>4. CASE Before(NameOf(mid), New)
    <3>1. ~Before(New, NameOf(mid))
      BY <1>1, <2>2, <2>4, OrderAssumption
    <3>2. low' = mid + 1 /\ high' = high /\ pc' = "search"
      BY <1>0, <2>1, <2>4, <3>1 DEF Compare
    <3>3. \A k \in 1..mid : Before(NameOf(k), New)
      <4> SUFFICES ASSUME NEW k \in 1..mid PROVE Before(NameOf(k), New)
        OBVIOUS
      <4>1. CASE k = mid
        BY <4>1, <2>4
      <4>2. CASE k # mid
        <5>1. k \in 1..(mid - 1) /\ k \in 1..Len(entries)
          BY <1>1, <2>2, <4>2
        <5> QED BY <1>1, <2>2, <2>3, <2>4, <5>1, OrderFacts
      <4> QED BY <4>1, <4>2
    <3>4. (low' - 1) = mid
      BY <2>2, <3>2
    <3> QED BY <1>0, <1>2, <1>3, <3>2, <3>3, <3>4 DEF Between
  <2>5. CASE Before(New, NameOf(mid))
    <3>1. ~Before(NameOf(mid), New)
      BY <1>1, <2>2, <2>5, OrderAssumption
    <3>2. high' = mid - 1 /\ low' = low /\ pc' = "search"
      BY <1>0, <2>1, <2>5, <3>1 DEF Compare
    <3>3. \A k \in mid..Len(entries) : Before(New, NameOf(k))
      <4> SUFFICES ASSUME NEW k \in mid..Len(entries) PROVE Before(New, NameOf(k))
        OBVIOUS
      <4>1. CASE k = mid
        BY <4>1, <2>5
      <4>2. CASE k # mid
        <5>1. k \in (mid + 1)..Len(entries) /\ k \in 1..Len(entries)
          BY <1>1, <2>2, <4>2
        <5> QED BY <1>1, <2>2, <2>3, <2>5, <5>1, OrderFacts
      <4> QED BY <4>1, <4>2
    <3>4. high' + 1 = mid
      BY <2>2, <3>2
    <3> QED BY <1>0, <1>2, <1>3, <3>2, <3>3, <3>4 DEF Between
  <2>6. CASE ~Before(NameOf(mid), New) /\ ~Before(New, NameOf(mid))
    <3>1. New = NameOf(mid)
      BY <1>1, <2>2, <2>6, OrderAssumption
    <3>2. high' = mid /\ low' = low /\ pc' = "insert"
      BY <1>0, <2>1, <2>6 DEF Compare
    <3>3. \A k \in 1..mid : ~Before(New, NameOf(k))
      <4> SUFFICES ASSUME NEW k \in 1..mid PROVE ~Before(New, NameOf(k))
        OBVIOUS
      <4>1. CASE k = mid
        BY <4>1, <2>6
      <4>2. CASE k # mid
        BY <2>2, <2>3, <3>1, <4>2
      <4> QED BY <4>1, <4>2
    <3> QED BY <1>0, <1>2, <2>3, <3>1, <3>2, <3>3 DEF Between
  <2> QED BY <2>4, <2>5, <2>6
<1> QED BY <1>1, <1>4, <1>5

\* The array after Insert.
LEMMA Inserted ==
    ASSUME Ranges, Shape, Insert
    PROVE  /\ high \in Nat /\ high <= Len(entries) /\ Len(entries) \in Nat
           /\ Len(dir) = Len(entries) + 1 /\ Len(entries') = Len(dir) /\ dir' = dir
           /\ \A k \in 1..high : entries'[k] = entries[k]
           /\ entries'[high + 1] = Len(dir)
           /\ \A k \in (high + 1)..Len(entries) : entries'[k + 1] = entries[k]
<1>1. high \in Nat /\ Len(entries) \in Nat /\ Len(dir) \in Nat
  BY DEF Ranges
<1>2. high <= Len(entries) /\ Len(dir) = Len(entries) + 1
  BY <1>1 DEF Insert, Shape
<1> DEFINE at(k) == IF k < high + 1 THEN entries[k]
                    ELSE IF k = high + 1 THEN Len(dir) ELSE entries[k - 1]
<1>3. entries' = [k \in 1..(Len(entries) + 1) |-> at(k)] /\ dir' = dir
  BY DEF Insert
<1>4. Len(entries') = Len(entries) + 1
  BY <1>1, <1>2, <1>3, TypeNext DEF Next, Ranges, Shape, Insert
<1>5. \A k \in 1..high : entries'[k] = entries[k]
  BY <1>1, <1>2, <1>3
<1>6. entries'[high + 1] = Len(dir)
  BY <1>1, <1>2, <1>3
<1>7. \A k \in (high + 1)..Len(entries) : entries'[k + 1] = entries[k]
  BY <1>1, <1>2, <1>3
<1> QED BY <1>1, <1>2, <1>3, <1>4, <1>5, <1>6, <1>7

\* Where an entry of the new array comes from.
LEMMA InsertedFrom ==
    ASSUME Ranges, Shape, Insert, NEW k \in 1..Len(entries')
    PROVE  \/ k <= high /\ k \in 1..Len(entries) /\ entries'[k] = entries[k]
           \/ k = high + 1 /\ entries'[k] = Len(dir)
           \/ k > high + 1 /\ k - 1 \in 1..Len(entries) /\ entries'[k] = entries[k - 1]
<1>1. CASE k <= high
  BY <1>1, Inserted
<1>2. CASE k = high + 1
  BY <1>2, Inserted
<1>3. CASE k > high + 1
  <2>1. k - 1 \in (high + 1)..Len(entries) /\ k = (k - 1) + 1 /\ k - 1 \in 1..Len(entries)
    BY <1>3, Inserted
  <2> QED BY <1>3, <2>1, Inserted
<1> QED BY <1>1, <1>2, <1>3, Inserted

LEMMA InsertKeepsOrder ==
    ASSUME Ranges, Shape, InOrder, Between, Insert
    PROVE  InOrder'
<1>1. /\ \A k \in 1..high : ~Before(New, NameOf(k))
      /\ \A k \in (high + 1)..Len(entries) : ~Before(NameOf(k), New)
  BY DEF Insert, Between
<1> SUFFICES ASSUME NEW j \in 1..Len(entries'), NEW k \in 1..Len(entries'), j < k
             PROVE  ~Before(dir[entries'[k]], dir[entries'[j]])
  BY Inserted DEF InOrder, NameOf
<1>2. high \in Nat /\ high <= Len(entries) /\ Len(entries) \in Nat /\ Len(dir) = Len(entries) + 1
  BY Inserted
<1>3. CASE k <= high
  BY <1>2, <1>3, InsertedFrom DEF InOrder, NameOf
<1>4. CASE k = high + 1
  <2>1. entries'[k] = Len(dir) /\ j \in 1..high /\ entries'[j] = entries[j]
    BY <1>2, <1>4, InsertedFrom
  <2> QED BY <1>1, <2>1 DEF New, NameOf
<1>5. CASE k > high + 1 /\ j = high + 1
  <2>1. /\ entries'[j] = Len(dir) /\ k - 1 \in (high + 1)..Len(entries)
        /\ entries'[k] = entries[k - 1]
    BY <1>2, <1>5, InsertedFrom
  <2> QED BY <1>1, <2>1, SMTT(30) DEF New, NameOf
<1>6. CASE k > high + 1 /\ j <= high
  <2>1. /\ k - 1 \in 1..Len(entries) /\ entries'[k] = entries[k - 1]
        /\ j \in 1..Len(entries) /\ entries'[j] = entries[j] /\ j < k - 1
    BY <1>2, <1>6, InsertedFrom
  <2> QED BY <2>1 DEF InOrder, NameOf
<1>7. CASE k > high + 1 /\ j > high + 1
  <2>1. /\ k - 1 \in 1..Len(entries) /\ entries'[k] = entries[k - 1]
        /\ j - 1 \in 1..Len(entries) /\ entries'[j] = entries[j - 1] /\ j - 1 < k - 1
    BY <1>2, <1>7, InsertedFrom
  <2> QED BY <2>1 DEF InOrder, NameOf
<1> QED BY <1>2, <1>3, <1>4, <1>5, <1>6, <1>7

LEMMA InsertKeepsAll ==
    ASSUME Ranges, Shape, Complete, Insert
    PROVE  Complete'
<1>1. /\ Len(entries) \in Nat /\ Len(dir) = Len(entries) + 1 /\ Len(entries') = Len(dir)
      /\ dir' = dir /\ pc' = "entry" /\ high \in Nat /\ high <= Len(entries)
  BY Inserted DEF Insert
<1>2. {entries[k] : k \in 1..Len(entries)} = 1..(Len(dir) - 1)
  BY DEF Complete, Insert, Parsing
<1>3. ASSUME NEW k \in 1..Len(entries') PROVE entries'[k] \in 1..Len(dir)
  <2>1. \A m \in 1..Len(entries) : entries[m] \in 1..(Len(dir) - 1)
    BY <1>2
  <2> QED BY <1>1, <2>1, InsertedFrom
<1>4. ASSUME NEW r \in 1..Len(dir) PROVE \E k \in 1..Len(entries') : entries'[k] = r
  <2>1. CASE r = Len(dir)
    BY <1>1, <2>1, Inserted
  <2>2. CASE r # Len(dir)
    <3>1. r \in 1..(Len(dir) - 1)
      BY <1>1, <2>2
    <3>2. PICK m \in 1..Len(entries) : entries[m] = r
      BY <1>2, <3>1
    <3>3. CASE m <= high
      <4>1. m \in 1..Len(entries') /\ m \in 1..high
        BY <1>1, <3>3
      <4> QED BY <3>2, <4>1, Inserted
    <3>4. CASE m > high
      <4>1. m + 1 \in 1..Len(entries') /\ m \in (high + 1)..Len(entries)
        BY <1>1, <3>4
      <4> QED BY <3>2, <4>1, Inserted, SMTT(30)
    <3> QED BY <1>1, <3>3, <3>4
  <2> QED BY <2>1, <2>2
<1>5. {entries'[k] : k \in 1..Len(entries')} = 1..Len(dir)
  BY <1>3, <1>4
<1> QED BY <1>1, <1>5 DEF Complete

Sorting == InOrder /\ Complete /\ Between

LEMMA SortingNext ==
    ASSUME Ranges, Shape, Sorting, [Next]_vars
    PROVE  Sorting'
<1> USE DEF Sorting
<1>1. CASE /\ entries' = entries /\ dir' = dir
           /\ pc \in {"verify", "open", "entry"} \cup Placed
           /\ pc' \in {"verify", "open", "entry", "refused"} \cup Placed
           /\ Parsing' => Parsing \/ pc = "open"
  <2>1. InOrder' /\ Between'
    BY <1>1, OrderKept DEF Between
  <2>2. CASE Parsing
    <3>1. pc \notin {"search", "insert"} /\ pc' \notin {"search", "insert"}
      BY <1>1
    <3>2. {entries[k] : k \in 1..Len(entries)} = 1..(Len(dir) - 0)
      BY <2>2, <3>1 DEF Complete
    <3>3. Complete'
      BY <1>1, <3>1, <3>2 DEF Complete
    <3> QED BY <2>1, <3>3
  <2>3. CASE pc = "open"
    <3>1. Len(dir) = 0 /\ Len(entries) = 0
      BY <2>3 DEF Shape
    <3>2. {entries[k] : k \in 1..Len(entries)} = 1..Len(dir)
      BY <3>1
    <3> QED BY <1>1, <2>1, <3>2 DEF Complete
  <2>4. CASE ~Parsing'
    BY <2>1, <2>4 DEF Complete
  <2> QED BY <1>1, <2>1, <2>2, <2>3, <2>4 DEF Complete
<1>2. CASE OpenFails \/ BadEntry \/ CloseArchive
  <2>1. entries' = <<>> /\ pc' \in {"refused", "closed"}
    BY <1>2 DEF OpenFails, BadEntry, CloseArchive, Close
  <2>2. Len(entries') = 0
    BY <2>1
  <2> QED BY <2>1, <2>2 DEF InOrder, Complete, Between, Parsing
<1>3. CASE ReadEntry
  <2>1. /\ pc = "entry" /\ pc' = "search" /\ entries' = entries
        /\ low' = 1 /\ high' = Len(dir) /\ Len(entries) = Len(dir)
    BY <1>3 DEF ReadEntry, Shape
  <2>2. PICK n \in Name : dir' = Append(dir, n)
    BY <1>3 DEF ReadEntry
  <2>3. /\ dir \in Seq(Name) /\ Len(dir) \in Nat /\ Len(dir') = Len(dir) + 1
        /\ \A r \in 1..Len(dir) : dir'[r] = dir[r]
    BY <2>2 DEF Ranges
  <2>4. InOrder'
    <3>1. \A k \in 1..Len(entries) : NameOf(k)' = NameOf(k)
      BY <2>1, <2>3, NamesAre DEF NameOf
    <3> QED BY <2>1, <3>1 DEF InOrder
  <2>5. Between'
    BY <2>1, <2>3 DEF Between
  <2>6. {entries[k] : k \in 1..Len(entries)} = 1..Len(dir)
    BY <2>1, <2>3 DEF Complete, Parsing
  <2>7. Complete'
    BY <2>1, <2>3, <2>6 DEF Complete
  <2> QED BY <2>4, <2>5, <2>7
<1>4. CASE Search
  <2>1. /\ pc = "search" /\ pc' \in {"search", "insert"} /\ entries' = entries /\ dir' = dir
    BY <1>4 DEF Search, Compare, archive
  <2> QED BY <1>4, <2>1, SearchKeeps, OrderKept DEF Complete, Parsing
<1>5. CASE Insert
  <2>1. pc' = "entry"
    BY <1>5 DEF Insert
  <2> QED BY <1>5, <2>1, InsertKeepsOrder, InsertKeepsAll DEF Between
<1>6. CASE VerifyFile \/ FindEocd
  BY <1>1, <1>6 DEF VerifyFile, FindEocd, archive, Parsing
<1>7. CASE StartHash \/ HashEntry \/ Opened
  BY <1>1, <1>7 DEF StartHash, HashEntry, Opened, archive, Parsing
<1>8. CASE ExtractRecursive \/ ExtractEntry \/ ExtractFails \/ ExtractEnds
  BY <1>1, <1>8 DEF ExtractRecursive, ExtractEntry, Mismatch, ExtractFails, ExtractEnds,
                    archive, Parsing
<1>9. CASE UNCHANGED vars
  <2>1. UNCHANGED <<entries, dir, pc, low, high>>
    BY <1>9 DEF vars, archive, search
  <2> QED BY <2>1 DEF InOrder, Complete, Between, NameOf, New, Parsing
<1> QED BY <1>2, <1>3, <1>4, <1>5, <1>6, <1>7, <1>8, <1>9 DEF Next

LEMMA SortingHolds == Spec => [](Ranges /\ Shape /\ Sorting)
<1>1. Init => Sorting
  BY DEF Init, Sorting, InOrder, Complete, Between, Parsing
<1>2. (Ranges /\ Shape) /\ Sorting /\ [Next]_vars => Sorting'
  BY SortingNext
<1> QED BY <1>1, <1>2, TypesHold, PTL DEF Spec

\* Whatever the order of the central directory and however many records have the same
\* name, pEntries is a sorted permutation of the records.
THEOREM SearchSorts == Spec => []EntriesSorted
<1>1. Ranges /\ Shape /\ Sorting => EntriesSorted
  BY SMTT(30) DEF Shape, Sorting, InOrder, Complete, EntriesSorted
<1> QED BY <1>1, SortingHolds, PTL

-----------------------------------------------------------------------------
(* The walk of mzExtractRecursive. *)
LEMMA WalkedNext ==
    ASSUME Ranges, Shape, Sorting, Walked, [Next]_vars
    PROVE  Walked'
<1>1. CASE pc' \notin {"extract", "extracted"}
  BY <1>1 DEF Walked, ExtractsAll
<1>2. CASE UNCHANGED vars
  <2>1. UNCHANGED <<pc, num, dir, entries, i, zipDir, seenMatch, extracted>>
    BY <1>2 DEF vars, archive, walk
  <2> QED BY <2>1 DEF Walked, ExtractsAll, NameOf
<1>3. CASE ExtractRecursive
  <2>1. pc' = "extract" /\ seenMatch' = FALSE /\ extracted' = {} /\ i' = 1
    BY <1>3 DEF ExtractRecursive
  <2> QED BY <2>1 DEF Walked, ExtractsAll
<1>4. CASE ExtractEntry \/ ExtractEnds
  <2>1. /\ pc = "extract" /\ UNCHANGED <<num, dir, entries, zipDir>>
        /\ extracted = {k \in 1..(i - 1) : Under(NameOf(k), zipDir)}
        /\ seenMatch <=> extracted # {}
    BY <1>4 DEF ExtractEntry, ExtractEnds, archive, walk, Walked
  <2>2. /\ i \in Nat /\ i >= 1 /\ num \in Nat /\ i <= num + 1 /\ Len(entries) = num
        /\ zipDir \in ZipDir
    BY <2>1, BoundsAssumption DEF Ranges, Shape
  <2>3. \A k : NameOf(k)' = NameOf(k)
    BY <2>1 DEF NameOf
  <2>4. CASE ExtractEnds
    <3>1. i = num + 1 /\ pc' = "extracted" /\ extracted' = extracted
      BY <2>2, <2>4 DEF ExtractEnds, walk
    <3>2. extracted = {k \in 1..num : Under(NameOf(k), zipDir)}
      BY <2>1, <2>2, <3>1
    <3> QED BY <2>1, <2>3, <3>1, <3>2 DEF Walked, ExtractsAll
  <2>5. CASE ExtractEntry /\ Under(NameOf(i), zipDir)
    <3>1. pc' = pc /\ i' = i + 1 /\ seenMatch' = TRUE /\ extracted' = extracted \cup {i}
      BY <2>5 DEF ExtractEntry
    <3>2. extracted' = {k \in 1..i : Under(NameOf(k), zipDir)}
      BY <2>1, <2>2, <2>5, <3>1
    <3>3. i' - 1 = i /\ extracted' # {}
      BY <2>2, <3>1
    <3> QED BY <2>1, <2>3, <3>1, <3>2, <3>3 DEF Walked, ExtractsAll
  <2>6. CASE ExtractEntry /\ ~Under(NameOf(i), zipDir) /\ ~seenMatch
    <3>1. pc' = pc /\ i' = i + 1 /\ seenMatch' = seenMatch /\ extracted' = extracted
      BY <2>6 DEF ExtractEntry, Mismatch
    <3>2. extracted' = {k \in 1..(i' - 1) : Under(NameOf(k), zipDir)}
      BY <2>1, <2>2, <2>6, <3>1
    <3> QED BY <2>1, <2>3, <3>1, <3>2 DEF Walked, ExtractsAll
  <2>7. CASE ExtractEntry /\ ~Under(NameOf(i), zipDir) /\ seenMatch
    <3>1. i <= num /\ pc' = "extracted" /\ extracted' = extracted
      BY <2>7, Zenon DEF ExtractEntry, Mismatch
    <3>2. PICK j \in 1..(i - 1) : Under(NameOf(j), zipDir)
      BY <2>1, <2>7
    <3>3. ASSUME NEW k \in 1..num, Under(NameOf(k), zipDir) PROVE k < i
      <4>1. /\ NameOf(i) \in Name /\ NameOf(j) \in Name /\ NameOf(k) \in Name
            /\ i \in 1..Len(entries) /\ j \in 1..Len(entries) /\ k \in 1..Len(entries)
            /\ j < i
        BY <2>2, <3>1, NamesAre
      <4>2. ~Before(NameOf(i), NameOf(j))
        BY <4>1 DEF Sorting, InOrder
      <4>3. Before(NameOf(j), NameOf(i))
        BY <2>7, <3>2, <4>1, <4>2, OrderAssumption
      <4>4. CASE i < k
        <5>1. Before(NameOf(i), NameOf(k))
          BY <2>7, <3>3, <4>1, <4>4, OrderAssumption DEF Sorting, InOrder
        <5> QED BY <2>2, <2>7, <3>2, <3>3, <4>1, <4>3, <5>1, OrderAssumption
      <4>5. k # i
        BY <2>7, <3>3
      <4> QED BY <2>2, <4>4, <4>5
    <3>4. extracted = {k \in 1..num : Under(NameOf(k), zipDir)}
      BY <2>1, <2>2, <3>1, <3>3
    <3> QED BY <2>1, <2>3, <3>1, <3>4 DEF Walked, ExtractsAll
  <2> QED BY <1>4, <2>4, <2>5, <2>6, <2>7
<1> QED BY <1>1, <1>2, <1>3, <1>4 DEF Next, VerifyFile, OpenFails, FindEocd, BadEntry,
       ReadEntry, Search, Compare, Insert, StartHash, HashEntry, Opened, ExtractFails, CloseArchive,
       Close

\* "Since the entries are sorted, we can give up on the first mismatch": the walk
\* extracts every entry under the directory, for every package.
THEOREM WalkExtractsAll == Spec => []ExtractsAll
<1>1. Init => Walked
  BY DEF Init, Walked, ExtractsAll
<1>2. (Ranges /\ Shape /\ Sorting) /\ Walked /\ [Next]_vars => Walked'
  BY WalkedNext
<1>3. Walked => ExtractsAll
  BY DEF Walked
<1> QED BY <1>1, <1>2, <1>3, SortingHolds, PTL DEF Spec

-----------------------------------------------------------------------------
(* The hash table. *)
HashSize == roundUpPower2(mzHashSize(num))

\* Slot d of the probe for n in a table of P slots, and whether it ends there
Around(P, h, d) == (h + d) % P
At(P, n, d) == Around(P, computeHash(n), d)
Stops(t, n, s) == t[s] = 0 \/ NameOf(t[s]) = n
Reached(t, P, n, s) ==
    \E d \in 0..(P - 1) :
        s = At(P, n, d) /\ Stops(t, n, s) /\ \A c \in 0..(d - 1) : ~Stops(t, n, At(P, n, c))

\* As far as the entries are in the table: there is a slot to spare, what is in the
\* table is found, and for every entry its name is there, with an index no larger.
Hashed ==
    /\ pc \in {"entry", "search", "insert"} => table = mzHashTableCreate(HashSize)
    /\ Parsing => num \in 1..MaxEntries
    /\ pc \in {"hash", "ready"} =>
          /\ table \in [0..(HashSize - 1) -> 0..(i - 1)]
          /\ NumEntries(table) \in 0..(i - 1)
          /\ \A s \in 0..(HashSize - 1) : table[s] # 0 => Reached(table, HashSize, NameOf(table[s]), s)
          /\ \A k \in 1..(i - 1) : \E s \in 0..(HashSize - 1) :
                table[s] \in 1..k /\ NameOf(table[s]) = NameOf(k)
    /\ pc = "ready" => i = num + 1

\* Of the entries of one name, the first is the first record of that name.
Firsts ==
    /\ \A j, k \in 1..Len(entries) : entries[j] = entries[k] => j = k
    /\ \A k, m \in 1..Len(entries) : NameOf(m) = NameOf(k) =>
          entries[k] <= entries[m] \/ \E j \in 1..(k - 1) : NameOf(j) = NameOf(k)
    /\ pc = "insert" =>
          \/ high >= 1 /\ NameOf(high) = New
          \/ \A k \in 1..Len(entries) : NameOf(k) # New

\* A set of natural numbers has a least element.
LEMMA Least ==
    ASSUME NEW T \in SUBSET Nat, T # {}
    PROVE  \E x \in T : \A y \in T : x <= y
<1> DEFINE R == OpToRel(<, Nat)
<1>1. IsWellFoundedOn(R, Nat)
  BY NatLessThanWellFounded, Zenon
<1>2. \A y, x \in Nat : y < x => <<y, x>> \in R
  BY DEF OpToRel
<1> HIDE DEF R
<1>3. PICK x \in T : \A y \in T : ~(<<y, x>> \in R)
  BY <1>1, WFMin, Zenon
<1>4. ASSUME NEW y \in T PROVE x <= y
  <2>1. x \in Nat /\ y \in Nat /\ ~(y < x)
    BY <1>2, <1>3, Zenon
  <2> QED BY <2>1
<1> QED BY <1>4

\* From any slot the probe comes to every slot.
LEMMA Ring ==
    ASSUME NEW P \in Nat \ {0}, NEW h \in Nat, NEW z \in 0..(P - 1)
    PROVE  \E d \in 0..(P - 1) : Around(P, h, d) = z
<1> DEFINE q == h \div P
           r == h % P
<1>1. q \in Int /\ r \in 0..(P - 1) /\ h = P * q + r
  OBVIOUS
<1> HIDE DEF q, r
<1>2. \A k \in Int : (P * k + z) % P = z
  OBVIOUS
<1>3. CASE r <= z
  <2>1. h + (z - r) = P * q + z /\ z - r \in 0..(P - 1)
    BY <1>1, <1>3
  <2>2. (h + (z - r)) % P = z
    BY <1>1, <1>2, <2>1
  <2> QED BY <2>1, <2>2 DEF Around
<1>4. CASE z < r
  <2>1. P * (q + 1) = P * q + P
    BY <1>1
  <2>2. h + (z - r + P) = P * (q + 1) + z /\ z - r + P \in 0..(P - 1)
    BY <1>1, <1>4, <2>1
  <2>3. (h + (z - r + P)) % P = z
    BY <1>1, <1>2, <2>2
  <2> QED BY <2>2, <2>3 DEF Around
<1> QED BY <1>1, <1>3, <1>4

\* The table is made for its entries: it never has to be resized.
LEMMA Roomy ==
    ASSUME NEW n \in 1..MaxEntries
    PROVE  LET P == roundUpPower2(mzHashSize(n))
           IN P \in Nat \ {0} /\ n * LOAD_DENOM < P * LOAD_NUMER
<1> DEFINE v == mzHashSize(n)
<1>1. v \in Nat /\ 1 <= v /\ v <= 104857 /\ n * 8 < v * 5
  BY BoundsAssumption DEF mzHashSize, LOAD_DENOM, LOAD_NUMER
<1> HIDE DEF v
<1>2. \E p \in {1, 2, 4, 8, 16, 32, 64, 128, 256, 512, 1024, 2048, 4096, 8192, 16384, 32768,
                65536, 131072} : v <= p /\ p < 2 * v
  BY <1>1
<1>3. {1, 2, 4, 8, 16, 32, 64, 128, 256, 512, 1024, 2048, 4096, 8192, 16384, 32768,
       65536, 131072} \subseteq {2 ^ k : k \in 0..30}
  <2>1. /\ 2^0 = 1 /\ 2^1 = 2 /\ 2^2 = 4 /\ 2^3 = 8 /\ 2^4 = 16 /\ 2^5 = 32 /\ 2^6 = 64
        /\ 2^7 = 128 /\ 2^8 = 256 /\ 2^9 = 512 /\ 2^10 = 1024 /\ 2^11 = 2048 /\ 2^12 = 4096
        /\ 2^13 = 8192 /\ 2^14 = 16384 /\ 2^15 = 32768 /\ 2^16 = 65536 /\ 2^17 = 131072
    OBVIOUS
  <2> QED BY <2>1
<1>4. \A k \in 0..30 : 2 ^ k \in Nat
  <2> SUFFICES ASSUME NEW k \in 0..30 PROVE 2 ^ k \in Nat
    BY Zenon
  <2>1. /\ 2^0 \in Nat /\ 2^1 \in Nat /\ 2^2 \in Nat /\ 2^3 \in Nat /\ 2^4 \in Nat
        /\ 2^5 \in Nat /\ 2^6 \in Nat /\ 2^7 \in Nat /\ 2^8 \in Nat /\ 2^9 \in Nat
        /\ 2^10 \in Nat /\ 2^11 \in Nat /\ 2^12 \in Nat /\ 2^13 \in Nat /\ 2^14 \in Nat
        /\ 2^15 \in Nat /\ 2^16 \in Nat /\ 2^17 \in Nat /\ 2^18 \in Nat /\ 2^19 \in Nat
        /\ 2^20 \in Nat /\ 2^21 \in Nat /\ 2^22 \in Nat /\ 2^23 \in Nat /\ 2^24 \in Nat
        /\ 2^25 \in Nat /\ 2^26 \in Nat /\ 2^27 \in Nat /\ 2^28 \in Nat /\ 2^29 \in Nat
        /\ 2^30 \in Nat
    OBVIOUS
  <2>2. \/ k \in {0, 1, 2, 3, 4, 5, 6, 7, 8, 9, 10, 11, 12, 13, 14, 15}
        \/ k \in {16, 17, 18, 19, 20, 21, 22, 23, 24, 25, 26, 27, 28, 29, 30}
    OBVIOUS
  <2> QED BY <2>1, <2>2, Zenon
<1>5. /\ roundUpPower2(v) \in {2 ^ k : k \in 0..30}
      /\ v <= roundUpPower2(v) /\ roundUpPower2(v) < 2 * v
  BY <1>2, <1>3 DEF roundUpPower2
<1>6. roundUpPower2(v) \in Nat
  BY <1>4, <1>5
<1> HIDE DEF v
<1>7. roundUpPower2(v) \in Nat \ {0} /\ n * 8 < roundUpPower2(v) * 5
  BY <1>1, <1>5, <1>6, BoundsAssumption
<1> QED BY <1>7 DEF v, LOAD_DENOM, LOAD_NUMER

LEMMA SizeIs ==
    ASSUME NEW P \in Nat \ {0}, NEW t, DOMAIN t = 0..(P - 1)
    PROVE  Size(t) = P
BY FS_Interval DEF Size

LEMMA ProbedIs ==
    ASSUME NEW P \in Nat \ {0}, NEW t, DOMAIN t = 0..(P - 1), NEW n, NEW s
    PROVE  s \in Probed(t, n) <=> Reached(t, P, n, s)
<1>1. Size(t) = P
  BY SizeIs
<1> QED BY <1>1 DEF Probed, Reached, At, Around, Stops

\* A probe stops at one slot only.
LEMMA OnlyOne ==
    ASSUME NEW P \in Nat \ {0}, NEW t, NEW n, NEW s, Reached(t, P, n, s), NEW u, Reached(t, P, n, u)
    PROVE  s = u
<1>1. PICK d \in 0..(P - 1) : s = At(P, n, d) /\ Stops(t, n, s) /\ \A c \in 0..(d - 1) : ~Stops(t, n, At(P, n, c))
  BY DEF Reached
<1>2. PICK e \in 0..(P - 1) : u = At(P, n, e) /\ Stops(t, n, u) /\ \A c \in 0..(e - 1) : ~Stops(t, n, At(P, n, c))
  BY DEF Reached
<1>3. ~(d \in 0..(e - 1)) /\ ~(e \in 0..(d - 1))
  BY <1>1, <1>2
<1>4. d = e
  BY <1>3
<1> QED BY <1>1, <1>2, <1>4

\* If a slot is free, the probe stops.
LEMMA Halts ==
    ASSUME NEW P \in Nat \ {0}, NEW t, NEW n \in Name, NEW z \in 0..(P - 1), t[z] = 0
    PROVE  \E s \in 0..(P - 1) : Reached(t, P, n, s)
<1> DEFINE T == {d \in 0..(P - 1) : Stops(t, n, At(P, n, d))}
<1>0. computeHash(n) \in Nat
  BY BoundsAssumption
<1>1. \E d \in 0..(P - 1) : At(P, n, d) = z
  BY <1>0, Ring DEF At
<1>2. T \in SUBSET Nat /\ T # {}
  BY <1>1 DEF Stops
<1>3. PICK d \in T : \A e \in T : d <= e
  BY <1>2, Least, Zenon
<1>4. \A c \in 0..(d - 1) : ~Stops(t, n, At(P, n, c))
  BY <1>3
<1>5. At(P, n, d) \in 0..(P - 1)
  BY <1>0 DEF At, Around
<1> QED BY <1>3, <1>4, <1>5 DEF Reached

\* What is in the table stays where it is found when a free slot is filled.
LEMMA Filled ==
    ASSUME NEW P \in Nat \ {0}, NEW t, DOMAIN t = 0..(P - 1), NEW s \in 0..(P - 1), t[s] = 0,
           NEW k \in Nat \ {0}, Reached(t, P, NameOf(k), s),
           NEW new, new = [t EXCEPT ![s] = k]
    PROVE  /\ Reached(new, P, NameOf(k), s)
           /\ \A u \in 0..(P - 1) : t[u] # 0 /\ Reached(t, P, NameOf(t[u]), u) =>
                 Reached(new, P, NameOf(t[u]), u)
<1>1. new[s] = k /\ \A u \in 0..(P - 1) : u # s => new[u] = t[u]
  OBVIOUS
<1>2. ASSUME NEW n, NEW u, ~Stops(t, n, u), u \in 0..(P - 1) PROVE ~Stops(new, n, u)
  BY <1>1, <1>2 DEF Stops
<1>3. ASSUME NEW n, NEW c, ~Stops(t, n, At(P, n, c)) PROVE ~Stops(new, n, At(P, n, c))
  <2>1. CASE At(P, n, c) = s
    BY <1>3, <2>1 DEF Stops
  <2>2. CASE At(P, n, c) # s
    <3>1. new[At(P, n, c)] = t[At(P, n, c)]
      BY <2>2
    <3> QED BY <1>3, <3>1 DEF Stops
  <2> QED BY <2>1, <2>2
<1>4. Reached(new, P, NameOf(k), s)
  BY <1>1, <1>3 DEF Reached, Stops
<1>5. ASSUME NEW u \in 0..(P - 1), t[u] # 0, Reached(t, P, NameOf(t[u]), u)
      PROVE  Reached(new, P, NameOf(t[u]), u)
  <2>1. new[u] = t[u]
    BY <1>1, <1>5
  <2> DEFINE n == NameOf(t[u])
  <2>2. PICK d \in 0..(P - 1) : /\ u = At(P, n, d) /\ Stops(t, n, u)
                               /\ \A c \in 0..(d - 1) : ~Stops(t, n, At(P, n, c))
    BY <1>5, Zenon DEF Reached
  <2> HIDE DEF n
  <2>3. \A c \in 0..(d - 1) : ~Stops(new, n, At(P, n, c))
    BY <1>3, <2>2, Zenon
  <2>4. Stops(new, n, u)
    BY <2>1, <2>2, Zenon DEF Stops
  <2>5. Reached(new, P, n, u)
    BY <2>2, <2>3, <2>4, Zenon DEF Reached
  <2> QED BY <2>5, Zenon DEF n
<1> QED BY <1>4, <1>5, Zenon

LEMMA Unresized ==
    ASSUME NEW P \in Nat \ {0}, NEW t, t = [u \in 0..(P - 1) |-> t[u]],
           NEW s \in 0..(P - 1), t[s] = 0, NEW k \in Nat \ {0},
           NEW m \in Nat, NumEntries(t) \in 0..m, (m + 1) * LOAD_DENOM < P * LOAD_NUMER
    PROVE  /\ Added(t, s, k) = [t EXCEPT ![s] = k]
           /\ NumEntries([t EXCEPT ![s] = k]) \in 0..(m + 1)
<1> DEFINE new == [t EXCEPT ![s] = k]
           D == {u \in DOMAIN t : t[u] # 0}
<1>1. DOMAIN t = 0..(P - 1) /\ DOMAIN new = 0..(P - 1)
  OBVIOUS
<1>2. {u \in DOMAIN new : new[u] # 0} = D \cup {s}
  BY <1>1
<1>3. IsFiniteSet(D)
  <2>1. 0 \in Int /\ P - 1 \in Int /\ D \in SUBSET (0..(P - 1))
    BY <1>1
  <2> HIDE DEF D
  <2>2. IsFiniteSet(0..(P - 1))
    BY <2>1, FS_Interval, Zenon
  <2> QED BY <2>1, <2>2, FS_Subset
<1>4. NumEntries(t) = Cardinality(D) /\ NumEntries(new) = Cardinality(D \cup {s})
  BY <1>2, Zenon DEF NumEntries
<1> HIDE DEF new, D
<1>5. NumEntries(new) \in 0..(m + 1)
  <2>1. /\ IsFiniteSet(D \cup {s})
        /\ Cardinality(D \cup {s}) = IF s \in D THEN Cardinality(D) ELSE Cardinality(D) + 1
    BY <1>3, FS_AddElement, SMTT(30)
  <2> QED BY <1>4, <2>1
<1>6. Size(new) = P
  BY <1>1, SizeIs
<1>7. ~(NumEntries(new) * LOAD_DENOM > Size(new) * LOAD_NUMER)
  BY <1>5, <1>6 DEF LOAD_DENOM, LOAD_NUMER
<1>8. Added(t, s, k) = new
  BY <1>7 DEF Added, new
<1> QED BY <1>5, <1>8 DEF new

LEMMA SpareSlot ==
    ASSUME NEW P \in Nat \ {0}, NEW t, DOMAIN t = 0..(P - 1), NumEntries(t) < P
    PROVE  \E z \in 0..(P - 1) : t[z] = 0
<1> SUFFICES ASSUME \A z \in 0..(P - 1) : t[z] # 0 PROVE FALSE
  OBVIOUS
<1>1. {u \in DOMAIN t : t[u] # 0} = 0..(P - 1)
  OBVIOUS
<1>2. Cardinality(0..(P - 1)) = P
  BY FS_Interval
<1>3. NumEntries(t) = P
  BY <1>1, <1>2, Zenon DEF NumEntries
<1> QED BY <1>3

\* Names stay, and with them what a probe does.
LEMMA ReachedKept ==
    ASSUME dir' = dir, entries' = entries, num' = num
    PROVE  /\ \A k : NameOf(k)' = NameOf(k)
           /\ HashSize' = HashSize
           /\ \A t, P, n, s : Reached(t, P, n, s)' = Reached(t, P, n, s)
<1>1. \A k : NameOf(k)' = NameOf(k)
  BY DEF NameOf
<1>2. \A t, n, s : Stops(t, n, s)' = Stops(t, n, s)
  BY <1>1 DEF Stops
<1>3. \A t, P, n, s : Reached(t, P, n, s)' = Reached(t, P, n, s)
  BY <1>2 DEF Reached
<1> QED BY <1>1, <1>3 DEF HashSize

LEMMA HashTable ==
    ASSUME Ranges, Shape, Hashed, Parsing
    PROVE  HashSize \in Nat \ {0} /\ num * LOAD_DENOM < HashSize * LOAD_NUMER /\ num \in Nat \ {0}
BY Roomy, BoundsAssumption DEF Hashed, HashSize

LEMMA HashStep ==
    ASSUME Ranges, Shape, Hashed, HashEntry
    PROVE  Hashed'
<1> DEFINE P == HashSize
<1>1. /\ pc = "hash" /\ pc' = "hash" /\ i \in Nat \ {0} /\ i <= num /\ i' = i + 1
      /\ dir' = dir /\ entries' = entries /\ num' = num /\ num = Len(entries)
  BY BoundsAssumption DEF HashEntry, Ranges, Shape
<1>2. P \in Nat \ {0} /\ num * LOAD_DENOM < P * LOAD_NUMER /\ num \in Nat \ {0} /\ num \in 1..MaxEntries
  BY <1>1, HashTable DEF Parsing, Hashed
<1>3. /\ table \in [0..(P - 1) -> 0..(i - 1)] /\ NumEntries(table) \in 0..(i - 1)
      /\ \A s \in 0..(P - 1) : table[s] # 0 => Reached(table, P, NameOf(table[s]), s)
      /\ \A k \in 1..(i - 1) : \E s \in 0..(P - 1) : table[s] \in 1..k /\ NameOf(table[s]) = NameOf(k)
  BY <1>1 DEF Hashed
<1>4. PICK s \in Probed(table, NameOf(i)) : table' = Added(table, s, i)
  BY DEF HashEntry
<1>5. NameOf(i) \in Name /\ computeHash(NameOf(i)) \in Nat
  BY <1>1, NamesAre, BoundsAssumption
<1>6. Reached(table, P, NameOf(i), s)
  BY <1>2, <1>3, <1>4, ProbedIs
<1>7. s \in 0..(P - 1) /\ (table[s] = 0 \/ NameOf(table[s]) = NameOf(i))
  <2>1. PICK d \in 0..(P - 1) : s = At(P, NameOf(i), d) /\ Stops(table, NameOf(i), s)
    BY <1>6 DEF Reached
  <2>2. s \in 0..(P - 1)
    BY <1>2, <1>5, <2>1 DEF At, Around
  <2> QED BY <2>1, <2>2 DEF Stops
<1>8. /\ table' \in [0..(P - 1) -> 0..i] /\ NumEntries(table') \in 0..i
      /\ \A u \in 0..(P - 1) : table'[u] # 0 => Reached(table', P, NameOf(table'[u]), u)
      /\ \A k \in 1..i : \E u \in 0..(P - 1) : table'[u] \in 1..k /\ NameOf(table'[u]) = NameOf(k)
  <2>1. CASE table[s] # 0
    <3>1. table' = table
      BY <1>4, <2>1 DEF Added
    <3>2. table[s] \in 1..i /\ NameOf(table[s]) = NameOf(i)
      BY <1>1, <1>3, <1>7, <2>1
    <3>3. table \in [0..(P - 1) -> 0..i] /\ NumEntries(table) \in 0..i
      BY <1>1, <1>3
    <3>4. \A k \in 1..i : k = i \/ k \in 1..(i - 1)
      BY <1>1
    <3> QED BY <1>3, <1>7, <3>1, <3>2, <3>3, <3>4
  <2>2. CASE table[s] = 0
    <3>1. (i - 1 + 1) * LOAD_DENOM < P * LOAD_NUMER /\ i - 1 \in Nat
      BY <1>1, <1>2 DEF LOAD_DENOM, LOAD_NUMER
    <3>2. table' = [table EXCEPT ![s] = i] /\ NumEntries(table') \in 0..(i - 1 + 1)
      <4>1. table = [u \in 0..(P - 1) |-> table[u]] /\ i \in Nat \ {0}
        BY <1>1, <1>3
      <4>2. /\ Added(table, s, i) = [table EXCEPT ![s] = i]
            /\ NumEntries([table EXCEPT ![s] = i]) \in 0..(i - 1 + 1)
        BY <1>2, <1>3, <1>7, <2>2, <3>1, <4>1, Unresized, Zenon
      <4> QED BY <1>4, <4>2
    <3>3. table' \in [0..(P - 1) -> 0..i] /\ NumEntries(table') \in 0..i
      <4>1. i - 1 + 1 = i /\ i \in 0..i /\ 0..(i - 1) \subseteq 0..i
        BY <1>1
      <4> QED BY <1>3, <3>2, <4>1, Zenon
    <3>4. table'[s] = i /\ \A u \in 0..(P - 1) : u # s => table'[u] = table[u]
      BY <1>3, <1>7, <3>2
    <3>5. /\ Reached(table', P, NameOf(i), s)
          /\ \A u \in 0..(P - 1) : table[u] # 0 => Reached(table', P, NameOf(table[u]), u)
      BY <1>1, <1>2, <1>3, <1>6, <1>7, <2>2, <3>2, Filled, Zenon
    <3>6. \A u \in 0..(P - 1) : table'[u] # 0 => Reached(table', P, NameOf(table'[u]), u)
      BY <3>4, <3>5
    <3>7. ASSUME NEW k \in 1..i
          PROVE  \E u \in 0..(P - 1) : table'[u] \in 1..k /\ NameOf(table'[u]) = NameOf(k)
      <4>1. CASE k = i
        BY <1>1, <1>7, <3>4, <4>1
      <4>2. CASE k # i
        <5>1. k \in 1..(i - 1)
          BY <1>1, <4>2
        <5>2. PICK u \in 0..(P - 1) : table[u] \in 1..k /\ NameOf(table[u]) = NameOf(k)
          BY <1>3, <5>1
        <5>3. table[u] # 0
          BY <5>2
        <5>4. table'[u] = table[u]
          BY <2>2, <3>4, <5>3
        <5> QED BY <5>2, <5>4
      <4> QED BY <4>1, <4>2
    <3> QED BY <3>3, <3>6, <3>7
  <2> QED BY <2>1, <2>2
<1> HIDE DEF P
<1>9. P' = P /\ (\A k : NameOf(k)' = NameOf(k)) /\ \A t, n, u : Reached(t, P, n, u)' = Reached(t, P, n, u)
  BY <1>1, ReachedKept DEF P
<1>10. i' - 1 = i
  BY <1>1
<1>11. (\A u \in 0..(P - 1) : table[u] # 0 => Reached(table, P, NameOf(table[u]), u))'
  BY <1>8, <1>9
<1>12. (\A k \in 1..(i - 1) : \E u \in 0..(P - 1) : table[u] \in 1..k /\ NameOf(table[u]) = NameOf(k))'
  BY <1>8, <1>9, <1>10
<1> QED BY <1>1, <1>2, <1>8, <1>9, <1>10, <1>11, <1>12, Zenon DEF Hashed, P

LEMMA HashedNext ==
    ASSUME Ranges, Shape, Hashed, [Next]_vars
    PROVE  Hashed'
<1>1. CASE VerifyFile \/ OpenFails \/ BadEntry \/ CloseArchive
  BY <1>1 DEF VerifyFile, OpenFails, BadEntry, CloseArchive, Close, Hashed, Parsing
<1>2. CASE FindEocd
  <2>1. pc' = "entry" /\ num' \in 1..MaxEntries /\ table' = mzHashTableCreate(HashSize')
    BY <1>2 DEF FindEocd, HashSize
  <2> QED BY <2>1 DEF Hashed
<1>3. CASE ReadEntry \/ Search \/ Insert
  <2>1. /\ num' = num /\ table' = table
        /\ pc \in {"entry", "search", "insert"} /\ pc' \in {"entry", "search", "insert"}
    BY <1>3 DEF ReadEntry, Search, Compare, Insert, archive
  <2>2. HashSize' = HashSize
    BY <2>1 DEF HashSize
  <2> QED BY <2>1, <2>2 DEF Hashed, Parsing
<1>4. CASE StartHash
  <2>1. pc = "entry" /\ pc' = "hash" /\ i' = 1 /\ table' = table /\ num' = num /\ HashSize' = HashSize
    BY <1>4 DEF StartHash, archive, HashSize
  <2>2. table = mzHashTableCreate(HashSize) /\ num \in 1..MaxEntries
    BY <2>1 DEF Hashed, Parsing
  <2>3. table' \in [0..(HashSize' - 1) -> 0..(i' - 1)] /\ \A s \in 0..(HashSize' - 1) : table'[s] = 0
    BY <2>1, <2>2 DEF mzHashTableCreate
  <2>4. {s \in DOMAIN table' : table'[s] # 0} = {}
    BY <2>3
  <2>5. NumEntries(table') = 0
    BY <2>4, FS_EmptySet DEF NumEntries
  <2>6. \A k \in 1..(i' - 1) : FALSE
    BY <2>1
  <2>7. NumEntries(table') \in 0..(i' - 1)
    BY <2>1, <2>5
  <2> QED BY <2>1, <2>2, <2>3, <2>6, <2>7 DEF Hashed, NumEntries
<1>5. CASE HashEntry
  BY <1>5, HashStep
<1>6. CASE Opened
  <2>1. /\ pc = "hash" /\ pc' = "ready" /\ i' = i /\ table' = table /\ num' = num
        /\ dir' = dir /\ entries' = entries
    BY <1>6 DEF Opened, archive
  <2>2. i = num + 1
    BY <1>6, BoundsAssumption DEF Opened, Ranges, Shape
  <2>3. /\ table' \in [0..(HashSize - 1) -> 0..(i - 1)]
        /\ NumEntries(table') \in 0..(i - 1)
        /\ \A s \in 0..(HashSize - 1) : table'[s] # 0 => Reached(table', HashSize, NameOf(table'[s]), s)
        /\ \A k \in 1..(i - 1) : \E s \in 0..(HashSize - 1) :
              table'[s] \in 1..k /\ NameOf(table'[s]) = NameOf(k)
        /\ num \in 1..MaxEntries
    BY <2>1 DEF Hashed, Parsing
  <2>4. /\ \A k : NameOf(k)' = NameOf(k)
        /\ HashSize' = HashSize
        /\ \A t, n, s : Reached(t, HashSize, n, s)' = Reached(t, HashSize, n, s)
    BY <2>1, ReachedKept
  <2>5. (\A s \in 0..(HashSize - 1) : table[s] # 0 => Reached(table, HashSize, NameOf(table[s]), s))'
    BY <2>3, <2>4
  <2>6. (\A k \in 1..(i - 1) : \E s \in 0..(HashSize - 1) : table[s] \in 1..k /\ NameOf(table[s]) = NameOf(k))'
    BY <2>1, <2>3, <2>4
  <2> QED BY <2>1, <2>2, <2>3, <2>4, <2>5, <2>6 DEF Hashed
<1>7. CASE ExtractRecursive \/ ExtractEntry \/ ExtractFails \/ ExtractEnds
  <2>1. /\ Parsing /\ num' = num /\ pc' \in {"extract", "extracted", "failed"}
    BY <1>7, SMTT(30) DEF ExtractRecursive, ExtractEntry, Mismatch, ExtractFails, ExtractEnds, archive, Parsing
  <2> QED BY <2>1 DEF Hashed
<1>8. CASE UNCHANGED vars
  <2>1. /\ pc' = pc /\ i' = i /\ table' = table /\ num' = num /\ dir' = dir /\ entries' = entries
    BY <1>8 DEF vars, archive
  <2> QED BY <2>1, Zenon DEF Hashed, Parsing, HashSize, NumEntries, Reached, Stops, NameOf
<1> QED BY <1>1, <1>2, <1>3, <1>4, <1>5, <1>6, <1>7, <1>8 DEF Next

\* The new record comes behind one of its name, if there is one.
LEMMA SearchFirsts ==
    ASSUME Ranges, Shape, InOrder, Between, Firsts, Search
    PROVE  Firsts'
<1>1. pc = "search" /\ entries' = entries /\ dir' = dir
  BY DEF Search, archive
<1>2. /\ Len(entries) \in Nat /\ low \in Nat /\ high \in Nat /\ high <= Len(entries)
      /\ New \in Name /\ \A k \in 1..Len(entries) : NameOf(k) \in Name
  <2>1. Len(dir) > 0
    BY <1>1, NamesAre DEF Shape
  <2> QED BY <1>1, <2>1, NamesAre DEF Ranges, Shape
<1>3. New' = New /\ \A k : NameOf(k)' = NameOf(k)
  BY <1>1 DEF New, NameOf
<1>4. pc' = "insert" => (high' >= 1 /\ NameOf(high') = New) \/ \A k \in 1..Len(entries) : NameOf(k) # New
  <2>1. CASE low > high
    <3>1. /\ low = high + 1
          /\ \A k \in 1..(low - 1) : Before(NameOf(k), New)
          /\ \A k \in (high + 1)..Len(entries) : Before(New, NameOf(k))
      BY <1>1, <1>2, <2>1 DEF Shape, Between
    <3>2. \A k \in 1..Len(entries) : k \in 1..(low - 1) \/ k \in (high + 1)..Len(entries)
      BY <1>2, <3>1
    <3>3. ~Before(New, New)
      BY <1>2, OrderAssumption
    <3>4. ASSUME NEW k \in 1..Len(entries) PROVE NameOf(k) # New
      <4>1. CASE k \in 1..(low - 1)
        BY <3>1, <3>3, <4>1, Zenon
      <4>2. CASE k \in (high + 1)..Len(entries)
        BY <3>1, <3>3, <4>2, Zenon
      <4> QED BY <3>2, <4>1, <4>2
    <3> QED BY <3>4
  <2>2. CASE low <= high
    <3> DEFINE mid == low + ((high - low) \div 2)
    <3>1. Compare(mid)
      BY <1>2, <2>2 DEF Search
    <3>2. mid \in Nat /\ mid \in 1..Len(entries)
      BY <1>1, <2>2, MidBounds
    <3> HIDE DEF mid
    <3>3. pc' = "insert" => ~Before(NameOf(mid), New) /\ ~Before(New, NameOf(mid)) /\ high' = mid
      BY <1>1, <3>1 DEF Compare
    <3>4. pc' = "insert" => NameOf(mid) = New
      BY <1>2, <3>2, <3>3, OrderAssumption
    <3> QED BY <3>2, <3>3, <3>4
  <2> QED BY <1>2, <2>1, <2>2
<1> QED BY <1>1, <1>3, <1>4 DEF Firsts

LEMMA InsertFirsts ==
    ASSUME Ranges, Shape, Complete, Firsts, Insert
    PROVE  Firsts'
<1>1. /\ Len(entries) \in Nat /\ Len(dir) = Len(entries) + 1 /\ Len(entries') = Len(dir)
      /\ dir' = dir /\ pc = "insert" /\ pc' = "entry" /\ high \in Nat /\ high <= Len(entries)
  BY Inserted DEF Insert
<1>2. \A k \in 1..Len(entries) : entries[k] \in Nat /\ entries[k] < Len(dir)
  <2>1. {entries[k] : k \in 1..Len(entries)} = 1..(Len(dir) - 1)
    BY <1>1 DEF Complete, Parsing
  <2>2. \A k \in 1..Len(entries) : entries[k] \in 1..(Len(dir) - 1)
    BY <2>1
  <2>3. \A r \in 1..(Len(dir) - 1) : r \in Nat /\ r < Len(dir)
    BY <1>1
  <2> QED BY <2>2, <2>3
\* Where an old entry is now, and what it was
<1> DEFINE To(k) == IF k <= high THEN k ELSE k + 1
           From(k) == IF k <= high THEN k ELSE k - 1
<1>3. ASSUME NEW k \in 1..Len(entries)
      PROVE  To(k) \in 1..Len(entries') /\ entries'[To(k)] = entries[k]
  <2>1. CASE k <= high
    BY <1>1, <2>1, Inserted
  <2>2. CASE ~(k <= high)
    <3>1. k \in (high + 1)..Len(entries)
      BY <1>1, <2>2
    <3> QED BY <1>1, <2>2, <3>1, Inserted
  <2> QED BY <2>1, <2>2
<1>4. ASSUME NEW k \in 1..Len(entries'), k # high + 1
      PROVE  From(k) \in 1..Len(entries) /\ entries'[k] = entries[From(k)] /\ To(From(k)) = k
  <2>1. CASE k <= high
    BY <1>1, <2>1, Inserted
  <2>2. CASE k > high + 1
    <3>1. k - 1 \in (high + 1)..Len(entries) /\ (k - 1) + 1 = k
      BY <1>1, <2>2
    <3> QED BY <1>1, <2>2, <3>1, Inserted
  <2> QED BY <1>1, <1>4, <2>1, <2>2
<1>5. \A j, k \in 1..Len(entries) : j < k => To(j) < To(k)
  BY <1>1
<1>6. entries'[high + 1] = Len(dir) /\ high + 1 \in 1..Len(entries')
  BY <1>1, Inserted
<1> HIDE DEF To, From
<1>7. ASSUME NEW j \in 1..Len(entries'), NEW k \in 1..Len(entries'), entries'[j] = entries'[k] PROVE j = k
  <2>1. CASE j = high + 1 /\ k # high + 1
    BY <1>1, <1>2, <1>4, <1>6, <1>7, <2>1
  <2>2. CASE j # high + 1 /\ k = high + 1
    BY <1>1, <1>2, <1>4, <1>6, <1>7, <2>2
  <2>3. CASE j # high + 1 /\ k # high + 1
    <3>1. entries[From(j)] = entries[From(k)] /\ From(j) \in 1..Len(entries) /\ From(k) \in 1..Len(entries)
      BY <1>4, <1>7, <2>3
    <3>2. From(j) = From(k)
      BY <3>1 DEF Firsts
    <3> QED BY <1>4, <2>3, <3>2
  <2> QED BY <2>1, <2>2, <2>3
<1>8. ASSUME NEW k \in 1..Len(entries'), NEW m \in 1..Len(entries'), dir[entries'[m]] = dir[entries'[k]],
             \A j \in 1..(k - 1) : dir[entries'[j]] # dir[entries'[k]]
      PROVE  entries'[k] <= entries'[m]
  <2>1. CASE k = high + 1
    <3>1. dir[entries'[k]] = New
      BY <1>6, <2>1 DEF New
    <3>2. \A j \in 1..high : NameOf(j) # New
      <4>1. \A j \in 1..high : j \in 1..(k - 1) /\ entries'[j] = entries[j]
        BY <1>1, <2>1, Inserted
      <4> QED BY <1>8, <3>1, <4>1 DEF NameOf
    <3>3. \A j \in 1..Len(entries) : NameOf(j) # New
      <4>1. ~(high >= 1 /\ NameOf(high) = New)
        BY <1>1, <3>2
      <4> QED BY <1>1, <4>1 DEF Firsts
    <3>4. m = k
      BY <1>4, <1>8, <2>1, <3>1, <3>3 DEF NameOf
    <3> QED BY <1>1, <1>6, <2>1, <3>4
  <2>2. CASE k # high + 1
    <3> DEFINE x == From(k)
    <3>1. x \in 1..Len(entries) /\ entries'[k] = entries[x] /\ To(x) = k
      BY <1>4, <2>2
    <3> HIDE DEF x
    <3>2. \A j \in 1..(x - 1) : NameOf(j) # NameOf(x)
      <4> SUFFICES ASSUME NEW j \in 1..(x - 1) PROVE NameOf(j) # NameOf(x)
        OBVIOUS
      <4>1. j \in 1..Len(entries) /\ j < x
        BY <1>1, <3>1
      <4>2. To(j) \in 1..Len(entries') /\ To(j) < k /\ entries'[To(j)] = entries[j]
        BY <1>3, <1>5, <3>1, <4>1
      <4>3. To(j) \in 1..(k - 1)
        BY <1>1, <4>2
      <4> QED BY <1>8, <3>1, <4>2, <4>3 DEF NameOf
    <3>3. CASE m = high + 1
      BY <1>1, <1>2, <1>6, <3>1, <3>3
    <3>4. CASE m # high + 1
      <4>1. From(m) \in 1..Len(entries) /\ entries'[m] = entries[From(m)]
        BY <1>4, <3>4
      <4>2. NameOf(From(m)) = NameOf(x)
        BY <1>8, <3>1, <4>1 DEF NameOf
      <4> QED BY <3>1, <3>2, <4>1, <4>2 DEF Firsts
    <3> QED BY <3>3, <3>4
  <2> QED BY <2>1, <2>2
<1> QED BY <1>1, <1>7, <1>8 DEF Firsts, NameOf

LEMMA FirstsNext ==
    ASSUME Ranges, Shape, Sorting, Firsts, [Next]_vars
    PROVE  Firsts'
<1>1. CASE Search
  BY <1>1, SearchFirsts DEF Sorting
<1>2. CASE Insert
  BY <1>2, InsertFirsts DEF Sorting
<1>3. CASE OpenFails \/ BadEntry \/ CloseArchive
  <2>1. entries' = <<>> /\ pc' \in {"refused", "closed"}
    BY <1>3 DEF OpenFails, BadEntry, CloseArchive, Close
  <2>2. Len(entries') = 0
    BY <2>1
  <2> QED BY <2>1, <2>2 DEF Firsts
<1>4. CASE ReadEntry
  <2>1. entries' = entries /\ pc' = "search"
    BY <1>4 DEF ReadEntry
  <2>2. PICK n \in Name : dir' = Append(dir, n)
    BY <1>4 DEF ReadEntry
  <2>3. dir \in Seq(Name) /\ Len(dir) \in Nat /\ \A r \in 1..Len(dir) : dir'[r] = dir[r]
    BY <2>2 DEF Ranges
  <2>4. Len(entries) \in Nat /\ \A k \in 1..Len(entries) : NameOf(k)' = NameOf(k)
    BY <2>1, <2>3, NamesAre DEF NameOf
  <2>5. \A k \in 1..Len(entries) : \A j \in 1..(k - 1) : j \in 1..Len(entries)
    BY <2>4
  <2> QED BY <2>1, <2>4, <2>5 DEF Firsts
<1>5. CASE \/ VerifyFile \/ FindEocd \/ StartHash \/ HashEntry \/ Opened
           \/ ExtractRecursive \/ ExtractEntry \/ ExtractFails \/ ExtractEnds
  <2>1. entries' = entries /\ dir' = dir /\ pc' # "insert"
    BY <1>5 DEF VerifyFile, FindEocd, StartHash, HashEntry, Opened, ExtractRecursive, ExtractEntry,
                Mismatch, ExtractFails, ExtractEnds, archive
  <2> QED BY <2>1, SMTT(30) DEF Firsts, NameOf
<1>6. CASE UNCHANGED vars
  <2>1. entries' = entries /\ dir' = dir /\ pc' = pc /\ high' = high
    BY <1>6 DEF vars, archive, search
  <2> QED BY <2>1 DEF Firsts, NameOf, New
<1> QED BY <1>1, <1>2, <1>3, <1>4, <1>5, <1>6 DEF Next

\* mzFindZipEntry finds the first record of the name it is given, and nothing if there
\* is none, for every hash, every order of the central directory and all duplicates.
THEOREM LookupFindsFirst == Spec => []FindsFirst
<1>1. Ranges /\ Shape /\ Sorting /\ Hashed /\ Firsts => FindsFirst
  <2> SUFFICES ASSUME Ranges, Shape, Sorting, Hashed, Firsts, pc = "ready", NEW n \in Name
               PROVE  LET recs == {r \in 1..num : dir[r] = n}
                          first == IF recs = {} THEN {0}
                                   ELSE {k \in 1..num : entries[k] \in recs
                                            /\ \A r \in recs : entries[k] <= r}
                      IN mzFindZipEntry(n) = first
    BY DEF FindsFirst
  <2> DEFINE recs == {r \in 1..num : dir[r] = n}
             P == HashSize
  <2>1. /\ P \in Nat \ {0} /\ num * LOAD_DENOM < P * LOAD_NUMER /\ num \in Nat \ {0}
        /\ Len(entries) = num /\ Len(dir) = num /\ i = num + 1 /\ i - 1 = num
    BY HashTable DEF Parsing, Hashed, Shape
  <2>2. /\ table \in [0..(P - 1) -> 0..num] /\ NumEntries(table) \in 0..num
        /\ \A s \in 0..(P - 1) : table[s] # 0 => Reached(table, P, NameOf(table[s]), s)
        /\ \A k \in 1..num : \E s \in 0..(P - 1) : table[s] \in 1..k /\ NameOf(table[s]) = NameOf(k)
    BY <2>1, SMTT(30) DEF Hashed
  <2> HIDE DEF P
  <2>3. /\ \A k \in 1..num : entries[k] \in 1..num
        /\ \A r \in 1..num : \E k \in 1..num : entries[k] = r
    <3>1. {entries[k] : k \in 1..Len(entries)} = 1..Len(dir)
      BY <2>1 DEF Sorting, Complete, Parsing
    <3> QED BY <2>1, <3>1, Zenon
  <2>4. \A k \in 1..num : entries[k] \in recs <=> NameOf(k) = n
    BY <2>3 DEF NameOf
  <2>5. \A s : s \in Probed(table, n) <=> Reached(table, P, n, s)
    BY <2>1, <2>2, ProbedIs
  <2>6. ASSUME NEW s \in 0..(P - 1), Reached(table, P, n, s) PROVE mzFindZipEntry(n) = {table[s]}
    <3>1. Probed(table, n) = {s}
      BY <2>1, <2>5, <2>6, OnlyOne
    <3> QED BY <3>1 DEF mzFindZipEntry
  <2>7. CASE recs = {}
    <3>1. \E z \in 0..(P - 1) : table[z] = 0
      <4>1. NumEntries(table) < P
        BY <2>1, <2>2 DEF LOAD_DENOM, LOAD_NUMER
      <4> QED BY <2>1, <2>2, <4>1, SpareSlot
    <3>2. PICK s \in 0..(P - 1) : Reached(table, P, n, s)
      BY <2>1, <3>1, Halts
    <3>3. Stops(table, n, s)
      BY <3>2 DEF Reached
    <3>4. table[s] = 0
      <4>1. CASE table[s] # 0
        <5>1. table[s] \in 1..num
          BY <2>1, <2>2, <4>1
        <5> QED BY <2>4, <2>7, <3>3, <4>1, <5>1 DEF Stops
      <4> QED BY <4>1
    <3> QED BY <2>6, <2>7, <3>2, <3>4
  <2>8. CASE recs # {}
    <3>1. PICK k \in 1..num : NameOf(k) = n
      BY <2>3, <2>4, <2>8
    <3>2. PICK s \in 0..(P - 1) : table[s] \in 1..k /\ NameOf(table[s]) = n
      BY <2>2, <3>1
    <3>3. table[s] \in 1..num /\ table[s] # 0 /\ Reached(table, P, n, s)
      <4>1. table[s] \in 1..num /\ table[s] # 0
        BY <2>1, <3>1, <3>2
      <4> QED BY <2>2, <3>2, <4>1
    <3> DEFINE f == table[s]
    <3>4. mzFindZipEntry(n) = {f}
      BY <2>6, <3>3
    <3>5. ASSUME NEW m \in 1..num, NameOf(m) = n PROVE f <= m
      <4>1. PICK u \in 0..(P - 1) : table[u] \in 1..m /\ NameOf(table[u]) = n
        BY <2>2, <3>5
      <4>2. Reached(table, P, n, u)
        BY <2>2, <4>1
      <4>3. u = s
        BY <2>1, <3>3, <4>2, OnlyOne
      <4> QED BY <4>1, <4>3
    <3>6. f \in 1..num /\ NameOf(f) = n
      BY <3>2, <3>3
    <3> HIDE DEF f
    <3>7. ASSUME NEW m \in 1..num, NameOf(m) = n PROVE entries[f] <= entries[m]
      <4>1. \A j \in 1..(f - 1) : NameOf(j) # n
        BY <2>1, <3>5, <3>6
      <4> QED BY <2>1, <3>6, <3>7, <4>1 DEF Firsts
    <3>8. entries[f] \in recs /\ \A r \in recs : entries[f] <= r
      BY <2>3, <2>4, <3>6, <3>7
    <3>9. ASSUME NEW m \in 1..num, entries[m] \in recs, \A r \in recs : entries[m] <= r PROVE m = f
      <4>1. entries[m] = entries[f]
        BY <2>3, <3>6, <3>8, <3>9
      <4> QED BY <2>1, <3>6, <4>1 DEF Firsts
    <3>10. {m \in 1..num : entries[m] \in recs /\ \A r \in recs : entries[m] <= r} = {f}
      BY <3>6, <3>8, <3>9
    <3> QED BY <2>8, <3>4, <3>10
  <2> QED BY <2>7, <2>8
<1>2. Init => Hashed /\ Firsts
  BY DEF Init, Hashed, Firsts, Parsing
<1>3. (Ranges /\ Shape /\ Sorting) /\ (Hashed /\ Firsts) /\ [Next]_vars => (Hashed /\ Firsts)'
  BY HashedNext, FirstsNext
<1> QED BY <1>1, <1>2, <1>3, SortingHolds, PTL DEF Spec
=============================================================================
