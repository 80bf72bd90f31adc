----------------------------- MODULE MCPackage ------------------------------
(***************************************************************************)
(* Package with real names: sequences of character codes.                    *)
(***************************************************************************)
EXTENDS Package, SequencesExt

Slash == 47
A == 97
B == 98

MCName == {<<A>>, <<A, Slash>>, <<A, Slash, A>>, <<A, B>>, <<B>>, <<A, Slash, B>>}
MCZipDir == {<<>>, <<A>>, <<A, Slash>>, <<B>>}

\* diff < 0: strncmp over the shorter length, then the lengths
MCBefore(m, n) ==
    LET diffLen == IF Len(m) < Len(n) THEN Len(m) ELSE Len(n)
        differ == {k \in 1..diffLen : m[k] # n[k]}
    IN \/ differ = {} /\ Len(m) < Len(n)
       \/ \E k \in differ : m[k] < n[k] /\ \A j \in differ : k <= j

\* hash * 31 + c; these names are too short for it to reach 2^32.
MCcomputeHash(name) == FoldLeft(LAMBDA hash, c : hash * 31 + c, 2, name)

\* zpath: a directory ends in one slash, unless it is empty.
Zpath(d) == IF d # <<>> /\ Last(d) # Slash THEN Append(d, Slash) ELSE d

\* fileNameLen >= zipDirLen and strncmp(fileName, zpath, zipDirLen) == 0
MCUnder(name, d) == IsPrefix(Zpath(d), name)

\* Files with at most two EOCD markers, of which the footer is none, and one file with
\* everything that can be wrong otherwise.
Files ==
    {f \in [len : {21, 28, 30, 31}, comment : {0, 6, 8, 9}, start : {6, 7},
            footer : BOOLEAN, genuine : BOOLEAN, loc : BOOLEAN,
            sigs : {{s, t} : s \in 0..27, t \in 0..27} \cup {{}}] :
        /\ IsFile(f)
        /\ f.footer => \A s \in f.sigs : s + 8 <= f.len
        /\ \/ f.footer /\ f.genuine /\ f.loc /\ f.start = 7
           \/ f.len = 30 /\ f.comment = 6 /\ f.sigs = {2}}
=============================================================================
