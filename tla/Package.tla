------------------------------ MODULE Package -------------------------------
(***************************************************************************)
(* The package as verify_file (verifier.cpp) and minzip see it.  The verifier *)
(* finds the end-of-central-directory record (EOCD) from the last six bytes   *)
(* of the file; parseZipArchive looks for it from the end backwards.  The     *)
(* entries are then sorted as they are read, put into a hash table, looked    *)
(* up by name, and walked by mzExtractRecursive.                              *)
(*                                                                            *)
(* A file is what these functions read of it.  Names, their order, their      *)
(* hash and "lies under this directory" are parameters.  The arrays of the    *)
(* code start at 0, the sequences here at 1.                                  *)
(***************************************************************************)
EXTENDS Integers, Sequences, FiniteSets

CONSTANTS
    Packages,           \* the files there are
    Name,               \* names of entries
    ZipDir,             \* directories package_extract_dir is called with
    Before(_, _),       \* the order of names that parseZipArchive computes
    Under(_, _),        \* a name begins with the path of a directory
    computeHash(_),
    MaxEntries          \* entries in a central directory

EOCD_HEADER_SIZE == 22
ENDHDR == 22
FOOTER_SIZE == 6

\* A file: its length, where "PK56" is, whether it begins with "PK34", whether its
\* footer has the two bytes $ff, the numbers in the footer, and whether the signature
\* they lead to is one of the given keys' of the bytes it should cover.
IsFile(f) ==
    /\ f.len \in Nat /\ f.comment \in Nat /\ f.start \in Nat
    /\ {f.footer, f.loc, f.genuine} \subseteq BOOLEAN
    /\ f.sigs \subseteq Nat
    /\ \A s \in f.sigs : s + 4 <= f.len
    /\ \A s, t \in f.sigs : s < t => s + 4 <= t
    /\ f.loc => 0 \notin f.sigs

ASSUME PackagesAssumption == \A f \in Packages : IsFile(f)

\* strncmp and then the lengths order the names totally, and what lies under a
\* directory is an interval of this order.
ASSUME OrderAssumption ==
    /\ \A a, b \in Name : ~(Before(a, b) /\ Before(b, a))
    /\ \A a, b \in Name : a = b \/ Before(a, b) \/ Before(b, a)
    /\ \A a, b, c \in Name : Before(a, b) /\ Before(b, c) => Before(a, c)
    /\ \A a, b, c \in Name, d \in ZipDir :
          Before(a, b) /\ Before(b, c) /\ Under(a, d) /\ Under(c, d) => Under(b, d)

\* numEntries is a field of two bytes.
ASSUME BoundsAssumption ==
    /\ MaxEntries \in Nat /\ MaxEntries <= 65535 /\ ZipDir # {}
    /\ \A n \in Name : computeHash(n) \in Nat

VARIABLES
    file,       \* the package
    pc,         \* where recovery and then the updater are
    eocd,       \* where parseZipArchive has found the EOCD
    num,        \* numEntries of the archive
    dir,        \* the names in the central directory, as far as it is read
    entries,    \* pEntries: numbers of records of the central directory
    low, high,  \* of the binary search
    table,      \* pHash->pEntries: indices of pEntries, 0 for none
    i,          \* of the loop over pEntries
    zipDir,     \* argument of mzExtractRecursive
    seenMatch,
    extracted   \* indices of the entries it has extracted

archive == <<eocd, num, dir, entries, table>>
search == <<low, high>>
walk == <<zipDir, seenMatch, extracted>>
vars == <<file, pc, archive, search, i, walk>>

NameOf(k) == dir[entries[k]]

-----------------------------------------------------------------------------
(* Hash.c: the size of a table. *)
LOAD_NUMER == 5
LOAD_DENOM == 8

mzHashSize(size) == (size * LOAD_DENOM) \div LOAD_NUMER + 1

roundUpPower2(val) == CHOOSE p \in {2 ^ k : k \in 0..30} : val <= p /\ p < 2 * val

mzHashTableCreate(size) == [s \in 0..(size - 1) |-> 0]

Size(t) == Cardinality(DOMAIN t)
NumEntries(t) == Cardinality({s \in DOMAIN t : t[s] # 0})

-----------------------------------------------------------------------------
\* Mistake: the comment is not searched for a second EOCD.
EocdOk_NoScan(f) ==
    LET eocd_size == f.comment + EOCD_HEADER_SIZE
    IN /\ f.len >= FOOTER_SIZE /\ f.footer /\ f.start > FOOTER_SIZE
       /\ eocd_size <= f.len
       /\ f.len - eocd_size \in f.sigs

\* What verify_file checks of the footer and of the EOCD it leads to.
EocdOk(f) ==
    LET eocd_size == f.comment + EOCD_HEADER_SIZE
    IN /\ f.len >= FOOTER_SIZE /\ f.footer /\ f.start > FOOTER_SIZE
       /\ eocd_size <= f.len
       /\ f.len - eocd_size \in f.sigs
       /\ \A k \in 4..(eocd_size - 4) : (f.len - eocd_size) + k \notin f.sigs

\* The bytes the signature covers, from the start of the file.
SignedLen(f) == f.len - (f.comment + EOCD_HEADER_SIZE) + EOCD_HEADER_SIZE - 2

\* The place where parseZipArchive stops its search for the EOCD.
IsEocd(f, p) ==
    /\ p \in f.sigs /\ p <= f.len - ENDHDR
    /\ \A q \in f.sigs : q <= f.len - ENDHDR => q <= p

\* mzCloseZipArchive
Close(to) ==
    /\ pc' = to
    /\ dir' = <<>> /\ entries' = <<>> /\ table' = <<>>
    /\ UNCHANGED <<file, eocd, num, search, i, walk>>

\* verify_file: one of the keys fits, or there is VERIFY_FAILURE, which an error of the
\* file or of memory also gives.
VerifyFile ==
    /\ pc = "verify"
    /\ \/ EocdOk(file) /\ file.genuine /\ pc' = "open"
       \/ pc' = "refused"
    /\ UNCHANGED <<file, archive, search, i, walk>>

\* Neither opened, nor mapped; no Zip file; a directory without entries or beyond the
\* end of the file.
OpenFails ==
    /\ pc = "open"
    /\ Close("refused")

\* mzOpenZipArchive up to the loop over the central directory
FindEocd ==
    /\ pc = "open"
    /\ file.len >= ENDHDR /\ file.loc
    /\ eocd' \in {p \in file.sigs : IsEocd(file, p)}
    /\ num' \in 1..MaxEntries
    /\ table' = mzHashTableCreate(roundUpPower2(mzHashSize(num')))
    /\ pc' = "entry"
    /\ UNCHANGED <<file, dir, entries, search, i, walk>>

-----------------------------------------------------------------------------
(* The loop of parseZipArchive. *)
\* A record runs off the end, has a wrong signature, a bad name, version, offset or
\* length.
BadEntry ==
    /\ pc = "entry" /\ Len(dir) < num
    /\ Close("refused")

\* A record is read, and its place is searched for.
ReadEntry ==
    /\ pc = "entry" /\ Len(dir) < num
    /\ \E n \in Name : dir' = Append(dir, n)
    /\ low' = 1 /\ high' = Len(dir)
    /\ pc' = "search"
    /\ UNCHANGED <<file, eocd, num, entries, table, i, walk>>

New == dir[Len(dir)]

\* diff < 0, diff > 0, and diff = 0, which ends the loop
Compare(mid) ==
    \/ /\ Before(NameOf(mid), New)
       /\ low' = mid + 1 /\ UNCHANGED <<high, pc>>
    \/ /\ Before(New, NameOf(mid))
       /\ high' = mid - 1 /\ UNCHANGED <<low, pc>>
    \/ /\ ~Before(NameOf(mid), New) /\ ~Before(New, NameOf(mid))
       /\ high' = mid /\ pc' = "insert" /\ UNCHANGED low

Search ==
    /\ pc = "search"
    /\ \/ low <= high /\ Compare(low + ((high - low) \div 2))
       \/ low > high /\ pc' = "insert" /\ UNCHANGED search
    /\ UNCHANGED <<file, archive, i, walk>>

\* memmove makes room at target.
Insert ==
    /\ pc = "insert"
    /\ LET target == high + 1
       IN entries' = [k \in 1..(Len(entries) + 1) |->
                         IF k < target THEN entries[k]
                         ELSE IF k = target THEN Len(dir) ELSE entries[k - 1]]
    /\ pc' = "entry"
    /\ UNCHANGED <<file, eocd, num, dir, table, search, i, walk>>

-----------------------------------------------------------------------------
(* The hash table. *)
\* Mistake: the probe does not look past the first slot that is taken.
Probed_One(t, n) ==
    {computeHash(n) % Size(t)}

\* The slots a lookup of name n looks at, wrapping around: up to one that is free or
\* has an entry of that name.  It never halts if there is none.
Probed(t, n) ==
    LET slot(d) == (computeHash(n) + d) % Size(t)
        stop(d) == t[slot(d)] = 0 \/ NameOf(t[slot(d)]) = n
    IN {slot(d) : d \in {e \in 0..(Size(t) - 1) :
                             stop(e) /\ \A c \in 0..(e - 1) : ~stop(c)}}

\* resizeHash: every entry is put into the new table, in the order of the old one.
resizeHash(t, newSize) ==
    LET done[n \in 0..Size(t)] ==
          IF n = 0 THEN mzHashTableCreate(newSize)
          ELSE IF t[n - 1] = 0 THEN done[n - 1]
          ELSE [done[n - 1] EXCEPT
                  ![CHOOSE s \in Probed(done[n - 1], NameOf(t[n - 1])) : TRUE] = t[n - 1]]
    IN done[Size(t)]

\* mzHashTableLookup(doAdd) of entry k, when it stops at slot s: a duplicate is not
\* added.
Added(t, s, k) ==
    LET new == [t EXCEPT ![s] = k]
    IN IF t[s] # 0 THEN t
       ELSE IF NumEntries(new) * LOAD_DENOM > Size(new) * LOAD_NUMER
       THEN resizeHash(new, Size(new) * 2)
       ELSE new

\* mzFindZipEntry: the index of the entry, 0 for none
mzFindZipEntry(n) == {table[s] : s \in Probed(table, n)}

\* "We have to wait until all entries are in their final places".
StartHash ==
    /\ pc = "entry" /\ Len(dir) = num
    /\ i' = 1
    /\ pc' = "hash"
    /\ UNCHANGED <<file, archive, search, walk>>

\* addEntryToHashTable
HashEntry ==
    /\ pc = "hash" /\ i <= num
    /\ \E s \in Probed(table, NameOf(i)) : table' = Added(table, s, i)
    /\ i' = i + 1
    /\ UNCHANGED <<file, pc, eocd, num, dir, entries, search, walk>>

Opened ==
    /\ pc = "hash" /\ i > num
    /\ pc' = "ready"
    /\ UNCHANGED <<file, archive, search, i, walk>>

-----------------------------------------------------------------------------
\* mzExtractRecursive: the entries that begin with zpath, from the first.
ExtractRecursive ==
    /\ pc = "ready"
    /\ zipDir' \in ZipDir /\ seenMatch' = FALSE /\ extracted' = {} /\ i' = 1
    /\ pc' = "extract"
    /\ UNCHANGED <<file, archive, search>>

\* Mistake: the first entry that does not match ends the walk.
Mismatch_Ends == pc' = "extracted" /\ UNCHANGED i

\* "Since the entries are sorted, we can give up on the first mismatch after the
\* first match."
Mismatch ==
    IF seenMatch THEN pc' = "extracted" /\ UNCHANGED i
                 ELSE i' = i + 1 /\ UNCHANGED pc

ExtractEntry ==
    /\ pc = "extract" /\ i <= num
    /\ \/ /\ Under(NameOf(i), zipDir)
          /\ seenMatch' = TRUE /\ extracted' = extracted \cup {i}
          /\ i' = i + 1 /\ UNCHANGED pc
       \/ /\ ~Under(NameOf(i), zipDir)
          /\ Mismatch /\ UNCHANGED <<seenMatch, extracted>>
    /\ UNCHANGED <<file, archive, search, zipDir>>

\* The entry cannot be extracted: there is no path, the directory or the file cannot be
\* made, written or touched.  What that leaves behind is Updater's.
ExtractFails ==
    /\ pc = "extract" /\ i <= num /\ Under(NameOf(i), zipDir)
    /\ seenMatch' = TRUE
    /\ pc' = "failed"
    /\ UNCHANGED <<file, archive, search, i, zipDir, extracted>>

ExtractEnds ==
    /\ pc = "extract" /\ i > num
    /\ pc' = "extracted"
    /\ UNCHANGED <<file, archive, search, i, walk>>

CloseArchive ==
    /\ pc \in {"ready", "extracted", "failed"}
    /\ Close("closed")

Init ==
    /\ file \in Packages
    /\ pc = "verify"
    /\ eocd = 0 /\ num = 0 /\ dir = <<>> /\ entries = <<>> /\ table = <<>>
    /\ low = 1 /\ high = 0
    /\ i = 1
    /\ zipDir = (CHOOSE d \in ZipDir : TRUE) /\ seenMatch = FALSE /\ extracted = {}

Next ==
    \/ VerifyFile \/ OpenFails \/ FindEocd
    \/ BadEntry \/ ReadEntry \/ Search \/ Insert
    \/ StartHash \/ HashEntry \/ Opened
    \/ ExtractRecursive \/ ExtractEntry \/ ExtractFails \/ ExtractEnds \/ CloseArchive

\* One thread runs it all.
Spec == Init /\ [][Next]_vars

-----------------------------------------------------------------------------
Places == {"verify", "open", "entry", "search", "insert", "hash", "ready",
           "extract", "extracted", "failed", "closed", "refused"}

\* What the numbers and arrays may be.
Ranges ==
    /\ file \in Packages
    /\ pc \in Places
    /\ eocd \in Nat /\ num \in 0..MaxEntries
    /\ dir \in Seq(Name) /\ Len(dir) <= num
    /\ entries \in Seq(1..Len(dir))
    /\ low \in 1..(MaxEntries + 1) /\ high \in 0..MaxEntries
    /\ i \in 1..(MaxEntries + 1)
    /\ zipDir \in ZipDir
    /\ extracted \subseteq 1..num

\* The type invariant.
TypeOK == Ranges /\ seenMatch \in BOOLEAN

Parsing == pc \in {"entry", "search", "insert", "hash", "ready", "extract", "extracted",
                   "failed"}

\* "if the sequence $50 $4b $05 $06 appears anywhere after the real one, minzip will
\* find the later (wrong) one": in a package that was verified minzip finds the EOCD
\* the verifier has found, and the number of entries and the offset of the central
\* directory in it are covered by the signature.
ParsedIsVerified ==
    Parsing => /\ eocd = file.len - (file.comment + EOCD_HEADER_SIZE)
               /\ eocd + 20 <= SignedLen(file)

\* The binary search and memmove keep pEntries sorted and lose no record; the insertion
\* is always inside the array (assert(target <= i)).
EntriesSorted ==
    /\ \A j, k \in 1..Len(entries) : j < k => ~Before(NameOf(k), NameOf(j))
    /\ Parsing => {entries[k] : k \in 1..Len(entries)} =
          1..(Len(dir) - (IF pc \in {"search", "insert"} THEN 1 ELSE 0))
    /\ pc = "insert" => high <= Len(entries)

\* mzFindZipEntry finds an entry for exactly the names in the central directory: the
\* first record of that name, although the entries were moved and collide.
FindsFirst ==
    pc = "ready" =>
        \A n \in Name :
            LET recs == {r \in 1..num : dir[r] = n}
                first == IF recs = {} THEN {0}
                         ELSE {k \in 1..num : entries[k] \in recs
                                  /\ \A r \in recs : entries[k] <= r}
            IN mzFindZipEntry(n) = first

\* The early end of the walk loses nothing: if no entry fails, mzExtractRecursive extracts
\* exactly the entries under zipDir.
ExtractsAll ==
    pc = "extracted" => extracted = {k \in 1..num : Under(NameOf(k), zipDir)}

=============================================================================
