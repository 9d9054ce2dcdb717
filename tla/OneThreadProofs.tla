---------------------------- MODULE OneThreadProofs ----------------------------
(***************************************************************************)
(* What is proved of the parts that run in one thread, where what is hard  *)
(* is the data and not the interleaving: the menus (DirNav), for every     *)
(* file system whose mount points have short names; the search that every  *)
(* video of a menu's listing is opened with (SeqHeader), for streams of    *)
(* any size over any alphabet; and the demultiplexer that reads the file   *)
(* from there (Demux), for every file and every size of the buffer.        *)
(***************************************************************************)
EXTENDS DirNav, SeqHeader, Demux, SequenceTheorems, FiniteSetTheorems, WellFoundedInduction, TLAPS

(* The search.                                                             *)

LEMMA Header ==
    /\ SEQHDR[1] = 0 /\ SEQHDR[2] = 0 /\ SEQHDR[3] = 1 /\ SEQHDR[4] = 179
BY DEF SEQHDR

LEMMA SeekTypeStep ==
    ASSUME SeekTypeOK, [SeekNext]_seekVars PROVE SeekTypeOK'
<1> USE DEF SeekTypeOK
<1>1. Len(ins) \in Nat
  OBVIOUS
<1>2. CASE NotFound
  BY <1>1, <1>2 DEF NotFound, Return
<1>3. CASE Byte
  <2>1. pos' \in 0 .. Len(ins) /\ ins' = ins
    BY <1>1, <1>3 DEF Byte, fread
  <2>2. buf0' \in Bytes
    <3>1. CASE pos < Len(ins)
      <4>1. ins[pos + 1] \in Bytes
        BY <1>1, <3>1, ElementOfSeq
      <4> QED
        BY <1>3, <3>1, <4>1 DEF Byte, fread
    <3>2. CASE ~(pos < Len(ins))
      BY <1>3, <3>2 DEF Byte, fread
    <3> QED
      BY <3>1, <3>2
  <2> QED
    BY <1>1, <1>3, <2>1, <2>2 DEF Byte, Return
<1>4. CASE UNCHANGED seekVars
  BY <1>4 DEF seekVars
<1> QED
  BY <1>2, <1>3, <1>4 DEF SeekNext

\* The search keeps its place within the stream, past the end of which it may
\* try to read.
THEOREM SeekTypeCorrect == SeekSpec => []SeekTypeOK
<1>1. SeekInit => SeekTypeOK
  <2> SUFFICES ASSUME SeekInit PROVE SeekTypeOK
    OBVIOUS
  <2>1. ins \in Seq(Bytes)
    <3>1. PICK n \in 0 .. MaxSize : ins \in [1 .. n -> Bytes]
      BY DEF SeekInit
    <3>2. n \in Nat
      BY <3>1, StreamAssumption
    <3> QED
      BY <3>1, <3>2, SeqDef
  <2>2. Len(ins) \in Nat
    BY <2>1
  <2> QED
    BY <2>1, <2>2 DEF SeekInit, SeekTypeOK
<1> QED
  BY <1>1, SeekTypeStep, PTL DEF SeekSpec

-----------------------------------------------------------------------------
\* The bytes before pos are what has been matched.  A match of two bytes may
\* have read the last byte of the stream twice, but then it gets no further.
MatchInv ==
    /\ seekPc = "search" =>
        /\ matched = 1 => buf0 = 0 /\ pos >= 1 /\ ins[pos] = 0
        /\ matched = 2 => /\ buf0 = 0
                          /\ \/ pos >= 2 /\ ins[pos - 1] = 0 /\ ins[pos] = 0
                             \/ pos = Len(ins)
        /\ matched = 3 => /\ buf0 = 1 /\ pos >= 3
                          /\ ins[pos - 2] = 0 /\ ins[pos - 1] = 0 /\ ins[pos] = 1
    /\ FoundIsHeader

LEMMA MatchStep ==
    ASSUME SeekTypeOK, MatchInv, [SeekNext]_seekVars PROVE MatchInv'
<1> USE DEF SeekTypeOK, MatchInv
<1>1. Len(ins) \in Nat /\ pos \in Nat /\ pos <= Len(ins)
  OBVIOUS
<1>2. CASE NotFound
  BY <1>2 DEF NotFound, Return, FoundIsHeader
<1>3. CASE Byte
  <2>1. /\ seekPc = "search" /\ ins' = ins
        /\ \/ pos < Len(ins) /\ pos' = pos + 1 /\ buf0' = ins[pos + 1]
           \/ pos = Len(ins) /\ matched > 0 /\ pos' = pos /\ buf0' = buf0
    BY <1>1, <1>3 DEF Byte, fread
  <2>2. CASE buf0' # SEQHDR[matched + 1]
    <3>1. seekPc' = "search" /\ matched' = 0
      BY <1>3, <2>1, <2>2 DEF Byte
    <3> QED
      BY <3>1 DEF FoundIsHeader
  <2>3. CASE buf0' = SEQHDR[matched + 1] /\ matched < 3
    <3>1. seekPc' = "search" /\ matched' = matched + 1
      BY <1>3, <2>1, <2>3 DEF Byte
    <3>2. CASE matched = 0
      BY <1>1, <2>1, <2>3, <3>1, <3>2, Header DEF FoundIsHeader
    <3>3. CASE matched = 1
      BY <1>1, <2>1, <2>3, <3>1, <3>3, Header DEF FoundIsHeader
    <3>4. CASE matched = 2
      BY <1>1, <2>1, <2>3, <3>1, <3>4, Header DEF FoundIsHeader
    <3> QED
      BY <2>3, <3>2, <3>3, <3>4
  <2>4. CASE buf0' = SEQHDR[matched + 1] /\ matched = 3
    <3>1. pos < Len(ins) /\ pos' = pos + 1 /\ ins[pos + 1] = 179
      BY <2>1, <2>4, Header
    <3>2. result' = pos + 1 /\ seekPc' = "returned"
      BY <1>3, <2>4, <3>1 DEF Byte, Return
    <3>3. ASSUME NEW i \in 1 .. 4 PROVE ins[(pos - 3) + i] = SEQHDR[i]
      <4>1. i = 1 \/ i = 2 \/ i = 3 \/ i = 4
        OBVIOUS
      <4>2. ins[pos - 2] = 0 /\ ins[pos - 1] = 0 /\ ins[pos] = 1 /\ pos >= 3
        BY <2>1, <2>4
      <4>3. /\ (pos - 3) + 1 = pos - 2 /\ (pos - 3) + 2 = pos - 1
            /\ (pos - 3) + 3 = pos /\ (pos - 3) + 4 = pos + 1
        BY <1>1
      <4> QED
        BY <3>1, <4>1, <4>2, <4>3, Header
    <3>4. pos >= 3
      BY <2>1, <2>4
    <3>5. result' - 4 = pos - 3 /\ ins' = ins
      BY <1>1, <2>1, <3>2
    <3> QED
      BY <1>1, <3>1, <3>2, <3>3, <3>4, <3>5 DEF FoundIsHeader, HeaderAt
  <2> QED
    BY <2>2, <2>3, <2>4
<1>4. CASE UNCHANGED seekVars
  BY <1>4 DEF seekVars, FoundIsHeader, HeaderAt
<1> QED
  BY <1>2, <1>3, <1>4 DEF SeekNext

\* What the search returns stands right behind a sequence header, in streams of
\* any size that end anywhere: the reads past the end complete no match.
THEOREM FoundHolds == SeekSpec => []FoundIsHeader
<1>1. SeekInit => MatchInv
  BY DEF SeekInit, MatchInv, FoundIsHeader
<1>2. MatchInv => FoundIsHeader
  BY DEF MatchInv
<1> QED
  BY <1>1, <1>2, SeekTypeCorrect, MatchStep, PTL DEF SeekSpec
-----------------------------------------------------------------------------
\* A header that no byte 00 or 01 precedes.
Clean(p) == HeaderAt(p) /\ (p = 0 \/ ins[p] \notin {0, 1})

\* The search has not passed a clean header, and from the byte before it on the
\* match is exactly as long as what has been read of it.
CleanInv ==
    /\ seekPc = "search" =>
        \A p \in 0 .. Len(ins) :
            Clean(p) => pos <= p + 3 /\ (pos >= p => matched = pos - p)
    /\ CleanFound

LEMMA CleanByte ==
    ASSUME SeekTypeOK, CleanInv, Byte, NEW p \in 0 .. Len(ins), Clean(p)
    PROVE  /\ seekPc' = "search" => pos' <= p + 3 /\ (pos' >= p => matched' = pos' - p)
           /\ seekPc' = "returned" => result' # -1 /\ result' <= p + 4
<1>1. Len(ins) \in Nat /\ pos \in Nat /\ p \in Nat /\ matched \in 0 .. 3 /\ p + 4 <= Len(ins)
  BY DEF SeekTypeOK, Clean, HeaderAt
<1>2. seekPc = "search" /\ pos <= p + 3 /\ (pos >= p => matched = pos - p)
  BY DEF Byte, CleanInv
<1>3. pos < Len(ins) /\ pos' = pos + 1 /\ buf0' = ins[pos + 1]
  BY <1>1, <1>2 DEF Byte, fread
<1>4. \/ buf0' = SEQHDR[matched + 1] /\ matched = 3 /\ seekPc' = "returned" /\ result' = pos'
      \/ buf0' = SEQHDR[matched + 1] /\ matched < 3 /\ seekPc' = "search" /\ matched' = matched + 1
      \/ buf0' # SEQHDR[matched + 1] /\ seekPc' = "search" /\ matched' = 0
  BY <1>1, <1>2 DEF Byte, Return
<1>5. CASE pos + 1 < p
  BY <1>1, <1>3, <1>4, <1>5
<1>6. CASE pos + 1 = p
  <2>1. buf0' \notin {0, 1}
    BY <1>1, <1>3, <1>6 DEF Clean
  <2>2. matched < 3 => SEQHDR[matched + 1] \in {0, 1}
    BY <1>1, Header
  <2>. QED BY <1>1, <1>3, <1>4, <1>6, <2>1, <2>2
<1>7. CASE pos >= p
  <2>1. matched = pos - p
    BY <1>2, <1>7
  <2>2. ins[p + (pos - p + 1)] = SEQHDR[pos - p + 1]
    <3>1. pos - p + 1 \in 1 .. 4
      BY <1>1, <1>2, <1>7
    <3>. QED BY <3>1 DEF Clean, HeaderAt
  <2>3. p + (pos - p + 1) = pos + 1
    BY <1>1
  <2>4. buf0' = SEQHDR[matched + 1]
    BY <1>3, <2>1, <2>2, <2>3
  <2>. QED BY <1>1, <1>2, <1>3, <1>4, <1>7, <2>1, <2>4
<1>. QED BY <1>1, <1>5, <1>6, <1>7

LEMMA CleanStep ==
    ASSUME SeekTypeOK, CleanInv, [SeekNext]_seekVars PROVE CleanInv'
<1>1. CASE NotFound
  <2>1. ASSUME NEW p \in 0 .. Len(ins), Clean(p) PROVE FALSE
    <3>1. pos >= Len(ins) /\ pos <= p + 3 /\ p + 4 <= Len(ins)
      BY <1>1, <2>1 DEF NotFound, CleanInv, Clean, HeaderAt
    <3>. QED BY <3>1 DEF SeekTypeOK
  <2>2. ins' = ins /\ seekPc' = "returned"
    BY <1>1 DEF NotFound, Return
  <2>. QED BY <2>1, <2>2 DEF CleanInv, CleanFound, Clean, HeaderAt
<1>2. CASE Byte
  <2>1. ins' = ins
    BY <1>2 DEF Byte
  <2>2. \A p \in 0 .. Len(ins) : Clean(p)' <=> Clean(p)
    BY <2>1 DEF Clean, HeaderAt
  <2>3. CleanFound'
    BY <1>2, <2>1, <2>2, CleanByte DEF CleanFound, Clean
  <2>4. ASSUME seekPc' = "search", NEW p \in 0 .. Len(ins), Clean(p)
        PROVE  pos' <= p + 3 /\ (pos' >= p => matched' = pos' - p)
    BY <1>2, <2>4, CleanByte
  <2>. QED BY <2>1, <2>2, <2>3, <2>4 DEF CleanInv
<1>3. CASE UNCHANGED seekVars
  BY <1>3 DEF seekVars, CleanInv, CleanFound, Clean, HeaderAt
<1>. QED BY <1>1, <1>2, <1>3 DEF SeekNext

\* No header is missed but one that follows a byte 00 or 01: in a stream of any size
\* the search returns behind the first clean one, or before.
THEOREM CleanHolds == SeekSpec => []CleanFound
<1>1. SeekInit => CleanInv
  <2> SUFFICES ASSUME SeekInit PROVE CleanInv
    OBVIOUS
  <2>1. pos = 0 /\ matched = 0 /\ seekPc = "search"
    BY DEF SeekInit
  <2>2. \A p \in 0 .. Len(ins) : pos <= p + 3 /\ (pos >= p => matched = pos - p)
    BY <2>1
  <2>. QED BY <2>1, <2>2 DEF CleanInv, CleanFound
<1>2. CleanInv => CleanFound
  BY DEF CleanInv
<1> QED
  BY <1>1, <1>2, SeekTypeCorrect, CleanStep, PTL DEF SeekSpec

-----------------------------------------------------------------------------
(* The menus.                                                              *)

\* How long the text of a path is: at least its first '/', and for a path of
\* one name the two '/' about it.
LEMMA TextLengthNat ==
    ASSUME NEW dirs \in Seq(Names) PROVE TextLength(dirs) \in Nat /\ TextLength(dirs) >= 1
<1> DEFINE Part == [i \in 1 .. Len(dirs) |-> {i} \X (0 .. Length[dirs[i]])]
           Parts == {{i} \X (0 .. Length[dirs[i]]) : i \in DOMAIN dirs}
<1>1. IsFiniteSet(1 .. Len(dirs)) /\ DOMAIN dirs = 1 .. Len(dirs)
  BY FS_Interval
<1>2. Part \in Surjection(1 .. Len(dirs), Parts)
  BY <1>1 DEF Surjection
<1>3. IsFiniteSet(Parts)
  BY <1>1, <1>2, FS_Surjection
<1>4. \A T \in Parts : IsFiniteSet(T)
  <2> SUFFICES ASSUME NEW i \in 1 .. Len(dirs) PROVE IsFiniteSet({i} \X (0 .. Length[dirs[i]]))
    BY <1>1
  <2>1. Length[dirs[i]] \in Int
    BY TreeAssumption, ElementOfSeq
  <2>2. IsFiniteSet(0 .. Length[dirs[i]])
    <3>1. ASSUME NEW k \in Int PROVE IsFiniteSet(0 .. k)
      BY FS_Interval
    <3> QED
      BY <2>1, <3>1, Zenon
  <2>3. IsFiniteSet({i})
    BY FS_Singleton, Zenon
  <2> QED
    BY <2>2, <2>3, FS_Product
<1>5. IsFiniteSet(UNION Parts)
  BY <1>3, <1>4, FS_UNION
<1>6. Cardinality(UNION Parts) \in Nat
  BY <1>5, FS_CardinalityType
<1> QED
  BY <1>6 DEF TextLength

LEMMA TextLengthOne ==
    ASSUME NEW n \in Names PROVE TextLength(<<n>>) = Length[n] + 2
<1>1. UNION {{i} \X (0 .. Length[<<n>>[i]]) : i \in DOMAIN <<n>>} = {1} \X (0 .. Length[n])
  OBVIOUS
<1>2. Length[n] \in Nat
  BY TreeAssumption
<1>3. Cardinality({1} \X (0 .. Length[n])) = 1 * (Length[n] + 1)
  <2>1. IsFiniteSet(0 .. Length[n]) /\ Cardinality(0 .. Length[n]) = Length[n] + 1
    BY <1>2, FS_Interval
  <2>2. IsFiniteSet({1}) /\ Cardinality({1}) = 1
    BY FS_Singleton, Zenon
  <2> QED
    BY <2>1, <2>2, FS_Product
<1>4. TextLength(<<n>>) = 1 + 1 * (Length[n] + 1)
  BY <1>1, <1>3 DEF TextLength
<1> QED
  BY <1>2, <1>4

\* A path of one name.
LEMMA OneName ==
    ASSUME NEW dirs \in Seq(Names), Len(dirs) = 1 PROVE dirs = <<dirs[1]>> /\ dirs[1] \in Names
<1>1. dirs[1] \in Names
  <2>1. 1 \in 1 .. Len(dirs)
    OBVIOUS
  <2>. QED BY <2>1, ElementOfSeq
<1>2. <<dirs[1]>> \in Seq(Names) /\ Len(<<dirs[1]>>) = 1 /\ <<dirs[1]>>[1] = dirs[1]
  BY <1>1
<1>3. \A i \in 1 .. Len(dirs) : dirs[i] = <<dirs[1]>>[i]
  <2>1. \A i \in 1 .. Len(dirs) : i = 1
    OBVIOUS
  <2>. QED BY <1>2, <2>1
<1>4. dirs = <<dirs[1]>>
  BY <1>2, <1>3, SeqEqual
<1>. QED BY <1>1, <1>4

\* The text of a path, unless lost or that of a file being played, names no
\* file, and its Size is the text's length with or without the terminator.
PathSound(m) ==
    LET s == FILE_DIR[m] IN
        ~s.lost /\ ~(pc = "play" /\ m = FDIR) =>
            s.file = None /\ s.Size <= TextLength(s.dirs) + 1

\* What is shown is a directory's listing, filtered for the menu, and the path is
\* the directory's; the file that is played is one of the names.
NavInv ==
    /\ \A m \in Menus : PathSound(m)
    /\ pc \in {"browse", "play"} =>
         /\ fs_dir.path \in Dirs
         /\ \A n \in fs_dir.names :
               /\ Append(fs_dir.path, n) \in Dirs \cup Files
               /\ Container[n] \in {MenuContainer[FDIR + 1], "NULL"}
         /\ ~Path.lost => Path.dirs = fs_dir.path
    /\ pc = "play" /\ ~Path.lost =>
         Path.file \in fs_dir.names /\ Container[Path.file] # "NULL"

\* The operations on paths, from paths to paths.
LEMMA TextsOfPaths ==
    /\ StringSetRoot \in Texts
    /\ \A s \in Texts, n \in Names :
          StringConcatFile(s, n) \in Texts /\ StringConcatDir(s, n) \in Texts
    /\ \A s \in Texts : UpToLast(s) \in Seq(Names) /\ UpTo2ndToLast(s) \in Seq(Names)
    /\ \A s \in Texts, dirs \in Seq(Names) : StringSetLen(s, dirs) \subseteq Texts
<1>1. StringSetRoot \in Texts
  BY EmptySeq DEF StringSetRoot, Text, Texts
<1>2. ASSUME NEW s \in Texts, NEW n \in Names
      PROVE  StringConcatFile(s, n) \in Texts /\ StringConcatDir(s, n) \in Texts
  <2>1. s.dirs \in Seq(Names) /\ Length[n] \in Nat
    BY TreeAssumption DEF Texts
  <2>2. Append(s.dirs, n) \in Seq(Names)
    BY <2>1, AppendProperties
  <2>3. TextLength(s.dirs) + Length[n] + 1 \in Nat /\ TextLength(Append(s.dirs, n)) + 1 \in Nat
    <3>1. TextLength(s.dirs) \in Nat /\ TextLength(Append(s.dirs, n)) \in Nat
      BY <2>1, <2>2, TextLengthNat
    <3> QED
      BY <2>1, <3>1
  <2> QED
    BY <2>1, <2>2, <2>3 DEF StringConcatFile, StringConcatDir, Text, Texts
<1>3. ASSUME NEW s \in Texts
      PROVE  UpToLast(s) \in Seq(Names) /\ UpTo2ndToLast(s) \in Seq(Names)
  <2>1. s.dirs \in Seq(Names)
    BY DEF Texts
  <2>2. Front(s.dirs) \in Seq(Names)
    <3>1. \A i \in 1 .. Len(s.dirs) - 1 : s.dirs[i] \in Names
      BY <2>1, ElementOfSeq
    <3>2. Len(s.dirs) - 1 \in Int
      BY <2>1
    <3> QED
      BY <3>1, <3>2, SubSeqProperties DEF Front
  <2> QED
    BY <2>1, <2>2 DEF UpToLast, UpTo2ndToLast
<1>4. ASSUME NEW s \in Texts, NEW dirs \in Seq(Names)
      PROVE  StringSetLen(s, dirs) \subseteq Texts
  <2>1. TextLength(dirs) \in Nat /\ s.lost \in BOOLEAN
    BY TextLengthNat DEF Texts
  <2> QED
    BY <2>1 DEF StringSetLen, Text, Texts
<1> QED
  BY <1>1, <1>2, <1>3, <1>4

LEMMA NavTypeStep ==
    ASSUME TypeOK, [Next]_vars PROVE TypeOK'
<1> USE DEF TypeOK
<1>1. Path \in Texts /\ fs_dir.names \subseteq Names
  BY DEF Path
<1>2. ASSUME NEW s \in Texts, PathBecomes(s) PROVE FILE_DIR' \in [Menus -> Texts]
  BY <1>2 DEF PathBecomes
<1>3. CASE MenuMoves
  BY <1>3 DEF MenuMoves, Goes
<1>4. CASE MenuOpens \/ PressStart
  BY <1>4 DEF MenuOpens, PressStart, Goes
<1>5. CASE ParseEmpty
  BY <1>2, <1>5, TextsOfPaths DEF ParseEmpty, Goes
<1>6. CASE ParseShows
  <2>1. FsLoadDirectoryFiltered(Path, FDIR) \subseteq Names /\ Path.dirs \in Seq(Names)
    BY <1>1 DEF FsLoadDirectoryFiltered, Texts
  <2> QED
    BY <1>6, <2>1 DEF ParseShows, Goes
<1>7. CASE PressFile
  <2>1. FILE_DIR' \in [Menus -> Texts]
    BY <1>1, <1>2, <1>7, TextsOfPaths DEF PressFile
  <2> QED
    BY <1>7, <2>1 DEF PressFile, Goes
<1>8. CASE FileReturns
  <2>1. FILE_DIR' \in [Menus -> Texts]
    BY <1>1, <1>2, <1>8, TextsOfPaths DEF FileReturns
  <2> QED
    BY <1>8, <2>1 DEF FileReturns, Goes
<1>9. CASE PressDirectory
  <2>1. FILE_DIR' \in [Menus -> Texts]
    BY <1>1, <1>2, <1>9, TextsOfPaths DEF PressDirectory
  <2> QED
    BY <1>9, <2>1 DEF PressDirectory, Goes
<1>10. CASE PressBack
  <2>1. FILE_DIR' \in [Menus -> Texts]
    BY <1>1, <1>2, <1>10, TextsOfPaths DEF PressBack
  <2> QED
    BY <1>10, <2>1 DEF PressBack, Goes
<1>11. CASE UNCHANGED vars
  BY <1>11 DEF vars
<1> QED
  BY <1>3, <1>4, <1>5, <1>6, <1>7, <1>8, <1>9, <1>10, <1>11 DEF Next

\* The menus stay within the four, and every path within the names of the file
\* system, whatever its directories are.
THEOREM NavTypeCorrect == Spec => []TypeOK
<1>1. Init => TypeOK
  BY TextsOfPaths, EmptySeq DEF Init, TypeOK, Menus
<1> QED
  BY <1>1, NavTypeStep, PTL DEF Spec

-----------------------------------------------------------------------------
\* The text of StringSetRoot, and those StringSetLen leaves, are sound for any menu.
LEMMA SoundTexts ==
    /\ StringSetRoot.file = None /\ StringSetRoot.Size <= TextLength(StringSetRoot.dirs) + 1
    /\ \A s \in Texts, dirs \in Seq(Names) : \A t \in StringSetLen(s, dirs) :
          /\ t.file = None /\ t.dirs = dirs /\ t.Size <= TextLength(t.dirs) + 1
          /\ s.lost => t.lost
<1>1. StringSetRoot.file = None /\ StringSetRoot.Size <= TextLength(StringSetRoot.dirs) + 1
  <2>1. TextLength(<<>>) \in Nat /\ TextLength(<<>>) >= 1
    BY TextLengthNat, EmptySeq
  <2> QED
    BY <2>1 DEF StringSetRoot, Text
<1>2. ASSUME NEW s \in Texts, NEW dirs \in Seq(Names), NEW t \in StringSetLen(s, dirs)
      PROVE  /\ t.file = None /\ t.dirs = dirs /\ t.Size <= TextLength(t.dirs) + 1
             /\ s.lost => t.lost
  <2>1. TextLength(dirs) \in Nat
    BY TextLengthNat
  <2>2. PICK lost \in {s.lost, TRUE} : t = [Text(dirs, None, TextLength(dirs)) EXCEPT !.lost = lost]
    BY DEF StringSetLen
  <2>3. t.file = None /\ t.dirs = dirs /\ t.Size = TextLength(dirs) /\ t.lost = lost
    BY <2>2 DEF Text
  <2>4. s.lost => t.lost
    BY <2>2, <2>3, Zenon
  <2> QED
    BY <2>1, <2>3, <2>4
<1> QED
  BY <1>1, <1>2

\* The other paths stay as they are, and sound.
LEMMA OthersSound ==
    ASSUME TypeOK, NavInv, NEW s, PathBecomes(s), FDIR' = FDIR,
           NEW m \in Menus, m # FDIR
    PROVE  PathSound(m)'
<1>1. FILE_DIR'[m] = FILE_DIR[m] /\ FDIR \in Menus
  BY DEF PathBecomes, TypeOK
<1>2. PathSound(m)
  BY DEF NavInv
<1> QED
  BY <1>1, <1>2 DEF PathSound

LEMMA NavStep ==
    ASSUME TypeOK, NavInv, [Next]_vars PROVE NavInv'
<1> USE DEF TypeOK
<1>1. Path \in Texts /\ FDIR \in Menus /\ \A m \in Menus : PathSound(m)
  BY DEF Path, NavInv
<1>2. ASSUME NEW s, PathBecomes(s), FDIR' = FDIR PROVE Path' = s
  BY <1>1, <1>2 DEF PathBecomes, Path
<1>3. CASE MenuMoves
  <2>1. pc = "menu" /\ pc' = "menu" /\ FILE_DIR' = FILE_DIR
    BY <1>3 DEF MenuMoves, Goes
  <2>2. \A m \in Menus : PathSound(m)'
    BY <1>1, <2>1 DEF PathSound
  <2> QED
    BY <2>1, <2>2 DEF NavInv
<1>4. CASE MenuOpens \/ PressStart
  <2>1. /\ pc \in {"menu", "browse"} /\ pc' \in {"parse", "menu"}
        /\ FILE_DIR' = FILE_DIR /\ FDIR' = FDIR
    BY <1>4 DEF MenuOpens, PressStart, Goes
  <2>2. \A m \in Menus : PathSound(m)'
    BY <1>1, <2>1 DEF PathSound
  <2> QED
    BY <2>1, <2>2 DEF NavInv
<1>5. CASE ParseEmpty
  <2>1. pc' = "parse" /\ PathBecomes(StringSetRoot) /\ FDIR' = FDIR
    BY <1>5 DEF ParseEmpty, Goes
  <2>2. \A m \in Menus : PathSound(m)'
    BY <1>1, <1>2, <2>1, OthersSound, SoundTexts DEF PathSound, Path
  <2> QED
    BY <2>1, <2>2 DEF NavInv
<1>6. CASE ParseShows
  <2>1. /\ pc = "parse" /\ pc' = "browse" /\ FILE_DIR' = FILE_DIR /\ FDIR' = FDIR
        /\ fs_dir'.path = Path.dirs /\ fs_dir'.names = FsLoadDirectoryFiltered(Path, FDIR)
        /\ FsLoadDirectoryFiltered(Path, FDIR) # {}
    BY <1>6 DEF ParseShows, Goes
  <2>2. \A m \in Menus : PathSound(m)'
    BY <1>1, <2>1 DEF PathSound
  <2>3. /\ Path.dirs \in Dirs
        /\ \A n \in FsLoadDirectoryFiltered(Path, FDIR) :
              /\ Append(Path.dirs, n) \in Dirs \cup Files
              /\ Container[n] \in {MenuContainer[FDIR + 1], "NULL"}
    BY <2>1 DEF FsLoadDirectoryFiltered
  <2>4. Path' = Path
    BY <2>1 DEF Path
  <2> QED
    BY <2>1, <2>2, <2>3, <2>4 DEF NavInv
<1>7. CASE PressFile
  <2>1. PICK n \in fs_dir.names : Container[n] # "NULL" /\ PathBecomes(StringConcatFile(Path, n))
    BY <1>7 DEF PressFile
  <2>2. pc = "browse" /\ pc' = "play" /\ FDIR' = FDIR /\ fs_dir' = fs_dir
    BY <1>7 DEF PressFile, Goes
  <2>3. Path' = StringConcatFile(Path, n)
    BY <1>2, <2>1, <2>2
  <2>4. \A m \in Menus : PathSound(m)'
    <3>1. PathSound(FDIR)'
      BY <2>2 DEF PathSound
    <3> QED
      BY <2>1, <2>2, <3>1, OthersSound
  <2>5. CASE Path.lost
    BY <2>2, <2>3, <2>4, <2>5 DEF NavInv, StringConcatFile
  <2>6. CASE ~Path.lost
    <3>1. Path'.dirs = Path.dirs /\ Path'.file = n
      BY <2>3, <2>6 DEF StringConcatFile, Text
    <3> QED
      BY <2>1, <2>2, <2>4, <2>6, <3>1 DEF NavInv
  <2> QED
    BY <2>5, <2>6
<1>8. CASE FileReturns
  <2>1. PICK s \in StringSetLen(Path, UpToLast(Path)) : PathBecomes(s)
    BY <1>8 DEF FileReturns
  <2>2. pc = "play" /\ pc' = "browse" /\ FDIR' = FDIR /\ fs_dir' = fs_dir
    BY <1>8 DEF FileReturns, Goes
  <2>3. Path' = s
    BY <1>2, <2>1, <2>2
  <2>4. UpToLast(Path) = Path.dirs /\ UpToLast(Path) \in Seq(Names)
    BY <1>1, TextsOfPaths DEF UpToLast
  <2>5. s.file = None /\ s.dirs = Path.dirs /\ s.Size <= TextLength(s.dirs) + 1
        /\ (Path.lost => s.lost)
    BY <1>1, <2>1, <2>4, SoundTexts
  <2>6. \A m \in Menus : PathSound(m)'
    <3>1. PathSound(FDIR)'
      BY <2>2, <2>3, <2>5 DEF PathSound, Path
    <3> QED
      BY <2>1, <2>2, <3>1, OthersSound
  <2> QED
    BY <2>2, <2>3, <2>5, <2>6 DEF NavInv
<1>9. CASE PressDirectory
  <2>1. PICK n \in fs_dir.names : PathBecomes(StringConcatDir(Path, n))
    BY <1>9 DEF PressDirectory
  <2>2. pc = "browse" /\ pc' = "parse" /\ FDIR' = FDIR
    BY <1>9 DEF PressDirectory, Goes
  <2>3. Path' = StringConcatDir(Path, n)
    BY <1>2, <2>1, <2>2
  <2>4. Path'.lost \/ (Path'.file = None /\ Path'.Size <= TextLength(Path'.dirs) + 1)
    <3>1. CASE Path.lost
      BY <2>3, <3>1 DEF StringConcatDir
    <3>2. CASE ~Path.lost
      <4>1. Append(Path.dirs, n) \in Seq(Names)
        BY <1>1, <2>1, AppendProperties DEF Texts
      <4>2. TextLength(Append(Path.dirs, n)) \in Nat
        BY <4>1, TextLengthNat
      <4> QED
        BY <2>3, <3>2, <4>2 DEF StringConcatDir, Text
    <3> QED
      BY <3>1, <3>2
  <2>5. \A m \in Menus : PathSound(m)'
    <3>1. PathSound(FDIR)'
      BY <2>2, <2>4 DEF PathSound, Path
    <3> QED
      BY <2>1, <2>2, <3>1, OthersSound
  <2> QED
    BY <2>2, <2>5 DEF NavInv
<1>10. CASE PressBack
  <2>1. pc = "browse" /\ pc' = "parse" /\ FDIR' = FDIR
    BY <1>10 DEF PressBack, Goes
  <2>2. PICK s : /\ PathBecomes(s)
                 /\ s = StringSetRoot \/ s \in StringSetLen(Path, UpTo2ndToLast(Path))
    BY <1>10 DEF PressBack
  <2>3. Path' = s
    BY <1>2, <2>1, <2>2
  <2>4. s.file = None /\ s.Size <= TextLength(s.dirs) + 1
    <3>1. UpTo2ndToLast(Path) \in Seq(Names)
      BY <1>1, TextsOfPaths
    <3> QED
      BY <1>1, <2>2, <3>1, SoundTexts
  <2>5. \A m \in Menus : PathSound(m)'
    <3>1. PathSound(FDIR)'
      BY <2>3, <2>4 DEF PathSound, Path
    <3> QED
      BY <2>1, <2>2, <3>1, OthersSound
  <2> QED
    BY <2>1, <2>5 DEF NavInv
<1>11. CASE UNCHANGED vars
  <2>1. \A m \in Menus : PathSound(m)'
    BY <1>1, <1>11 DEF PathSound, vars
  <2>2. Path' = Path
    BY <1>11 DEF vars, Path
  <2> QED
    BY <1>11, <2>1, <2>2 DEF vars, NavInv
<1> QED
  BY <1>3, <1>4, <1>5, <1>6, <1>7, <1>8, <1>9, <1>10, <1>11 DEF Next

LEMMA NavAlways == Spec => [](TypeOK /\ NavInv)
<1>1. Init => NavInv
  BY SoundTexts DEF Init, NavInv, PathSound
<1> QED
  BY <1>1, NavStep, NavTypeCorrect, PTL DEF Spec

\* In a file system of any shape, after any number of files played and menus left
\* and opened again, the path is that of the listing on the screen, unless its text was lost.
THEOREM ListingHolds == Spec => []ListingIsOfPath
<1>1. TypeOK /\ NavInv => ListingIsOfPath
  BY DEF TypeOK, NavInv, PathSound, ListingIsOfPath, Path
<1> QED
  BY <1>1, NavAlways, PTL

\* What is handed to a decoder is in the file system and of the menu's own kind.
THEOREM PlaysHolds == Spec => []PlaysFileOfMenu
<1>1. TypeOK /\ NavInv => PlaysFileOfMenu
  BY DEF TypeOK, NavInv, PlaysFileOfMenu
<1> QED
  BY <1>1, NavAlways, PTL

\* B leads to the parent of what is shown or to "/", although the test that tells
\* a mount point from a longer path compares a Size that two operations count
\* differently: with RootAssumption no path of one name passes it.
THEOREM BackHolds == Spec => BackLeadsUp
<1>1. ASSUME TypeOK, NavInv, PressBack, ~Path'.lost
      PROVE  Path'.dirs \in {<<>>, Front(fs_dir.path)}
  <2>1. pc = "browse" /\ FDIR' = FDIR /\ Path \in Texts /\ FDIR \in Menus
    BY <1>1 DEF PressBack, Goes, TypeOK, Path
  <2>2. ASSUME NEW s, PathBecomes(s) PROVE Path' = s
    BY <1>1, <2>1, <2>2 DEF PathBecomes, Path, TypeOK
  <2>3. CASE PathBecomes(StringSetRoot)
    BY <2>2, <2>3 DEF StringSetRoot, Text
  <2>4. CASE /\ Path.Size > 6 \/ Path.lost
             /\ \E s \in StringSetLen(Path, UpTo2ndToLast(Path)) : PathBecomes(s)
    <3>1. UpTo2ndToLast(Path) \in Seq(Names)
      BY <2>1, TextsOfPaths
    <3>2. Path'.dirs = UpTo2ndToLast(Path) /\ ~Path.lost
      BY <1>1, <2>1, <2>2, <2>4, <3>1, SoundTexts
    <3>3. /\ Path.dirs = fs_dir.path /\ Path.dirs \in Dirs /\ Path.Size > 6
          /\ Path.Size <= TextLength(Path.dirs) + 1
      BY <1>1, <2>1, <2>4, <3>2 DEF NavInv, PathSound, Path
    <3>4. Path.dirs \in Seq(Names) /\ Path.Size \in Nat /\ TextLength(Path.dirs) \in Nat
      BY <2>1, TextLengthNat DEF Texts
    <3>5. CASE Len(Path.dirs) = 1
      <4>1. PICK n \in Names : Path.dirs = <<n>>
        BY <3>4, <3>5, OneName
      <4>2. Length[n] <= 3 /\ Length[n] \in Nat
        BY <3>3, <4>1, RootAssumption, TreeAssumption
      <4> QED
        BY <3>3, <3>4, <4>1, <4>2, TextLengthOne
    <3>6. CASE Len(Path.dirs) = 0
      <4>1. Path.dirs = <<>>
        BY <3>4, <3>6, EmptySeq
      <4> QED
        BY <3>2, <3>6, <4>1 DEF UpTo2ndToLast
    <3>7. CASE Len(Path.dirs) >= 2
      BY <3>2, <3>3, <3>4, <3>7 DEF UpTo2ndToLast
    <3>8. Len(Path.dirs) = 0 \/ Len(Path.dirs) = 1 \/ Len(Path.dirs) >= 2
      <4>1. Len(Path.dirs) \in Nat
        BY <3>4, LenProperties
      <4>2. ASSUME NEW n \in Nat PROVE n = 0 \/ n = 1 \/ n >= 2
        OBVIOUS
      <4> QED
        BY <4>1, <4>2, Zenon
    <3> QED
      BY <3>5, <3>6, <3>7, <3>8, Zenon
  <2> QED
    BY <1>1, <2>3, <2>4 DEF PressBack
<1> QED
  BY <1>1, NavAlways, PTL DEF BackLeadsUp, vars

-----------------------------------------------------------------------------
(* The demultiplexer: what a header tells, however much of it is there.    *)

Octets == 0 .. 255

\* One header, h, is as much as there is of another, g.
Begins(h, g) == Len(h) <= Len(g) /\ \A i \in 1 .. Len(h) : h[i] = g[i]

StuffedUpTo(h, most, n) ==
    /\ n = most \/ ~In(h, n) \/ h[n] # 255
    /\ \A m \in 7 .. n - 1 : In(h, m) /\ h[m] = 255

\* A set of natural numbers that is not empty has a least one.
LEMMA LeastOf ==
    ASSUME NEW T, T \subseteq Nat, T # {}
    PROVE  \E n \in T : \A m \in T : n <= m
<1>1. \E n \in T : \A m \in T : ~(<<m, n>> \in OpToRel(<, Nat))
  BY NatLessThanWellFounded, WFMin, Zenon
<1>2. \A m, n \in Nat : ~(<<m, n>> \in OpToRel(<, Nat)) => n <= m
  BY DEF OpToRel
<1> QED
  BY <1>1, <1>2

\* The end of the stuffing, chosen by Stuffed, exists ...
LEMMA StuffedIs ==
    ASSUME NEW h \in Seq(Octets), NEW most \in 7 .. 24
    PROVE  Stuffed(h, most) \in 7 .. most /\ StuffedUpTo(h, most, Stuffed(h, most))
<1> DEFINE T == {n \in 7 .. most : n = most \/ ~In(h, n) \/ h[n] # 255}
<1>1. PICK n \in T : \A m \in T : n <= m
  <2>1. T \subseteq Nat /\ most \in T
    OBVIOUS
  <2>2. T # {}
    BY <2>1
  <2> HIDE DEF T
  <2> QED
    BY <2>1, <2>2, LeastOf
<1>2. \A m \in 7 .. n - 1 : In(h, m) /\ h[m] = 255
  BY <1>1
<1>3. \E k \in 7 .. most : StuffedUpTo(h, most, k)
  BY <1>1, <1>2 DEF StuffedUpTo
<1> QED
  BY <1>3, Zenon DEF Stuffed, StuffedUpTo

\* ... and there is only one.
LEMMA StuffedOnce ==
    ASSUME NEW h \in Seq(Octets), NEW most \in 7 .. 24, NEW n \in 7 .. most,
           StuffedUpTo(h, most, n)
    PROVE  Stuffed(h, most) = n
<1>1. Stuffed(h, most) \in 7 .. most /\ StuffedUpTo(h, most, Stuffed(h, most))
  BY StuffedIs
<1> HIDE DEF Stuffed
<1> QED
  BY <1>1 DEF StuffedUpTo

\* What is known of a header's length stays true when more of it comes: it is at
\* least what it was, and no more once all of it is there.
Firm(short, long, len) == long >= short /\ (short <= len => long = short)

LEMMA SkipTable == \A b : mpeg1_skip_table(b) \in {0, 4, 9}
BY Zenon DEF mpeg1_skip_table

LEMMA Stuffing == ASSUME NEW b \in Octets PROVE b % 8 \in 0 .. 7
BY DEF Octets

LEMMA FirmAt ==
    ASSUME NEW m \in Nat, NEW x \in m .. m + 9, NEW y \in m .. m + 9, NEW len \in Nat,
           m <= len => x = y, m > len => x = m
    PROVE  Firm(x, y, len)
BY DEF Firm

\* Of an MPEG-1 packet header: stuffing, an STD field, time stamps.
LEMMA Mpeg1LenFirm ==
    ASSUME NEW h \in Seq(Octets), NEW g \in Seq(Octets), Begins(h, g), NEW most \in 7 .. 24
    PROVE  /\ Mpeg1Len(h, most) \in 7 .. 35
           /\ Firm(Mpeg1Len(h, most), Mpeg1Len(g, most), Len(h))
<1> DEFINE n == Stuffed(h, most)
           k == Stuffed(g, most)
           Behind(f, at) == IF In(f, at) /\ f[at] \div 64 = 1 THEN at + 2 ELSE at
           Whole(f, at) == IF In(f, at) THEN at + mpeg1_skip_table(f[at]) ELSE at
<1>1. /\ n \in 7 .. most /\ StuffedUpTo(h, most, n)
      /\ k \in 7 .. most /\ StuffedUpTo(g, most, k)
  BY StuffedIs
<1>2. Mpeg1Len(h, most) = Whole(h, Behind(h, n)) /\ Mpeg1Len(g, most) = Whole(g, Behind(g, k))
  BY DEF Mpeg1Len
<1>3. Len(h) \in Nat /\ Len(g) \in Nat /\ Len(h) <= Len(g) /\ \A i \in 1 .. Len(h) : h[i] = g[i]
  BY DEF Begins
<1>4. k >= n /\ (n <= Len(h) => k = n)
  <2>1. ASSUME n <= Len(h) PROVE StuffedUpTo(g, most, n)
    <3> HIDE DEF n, k
    <3>1. \A m \in 7 .. n : m \in Int /\ m <= Len(h) /\ m <= Len(g) /\ m \in 1 .. Len(h)
      BY <1>1, <1>3, <2>1
    <3>2. \A m \in 7 .. n : In(h, m) /\ In(g, m) /\ g[m] = h[m]
      BY <1>3, <3>1 DEF In
    <3>3. n \in 7 .. n /\ \A m \in 7 .. n - 1 : m \in 7 .. n
      BY <1>1
    <3>. QED BY <1>1, <3>2, <3>3 DEF StuffedUpTo
  <2>2. n <= Len(h) => k = n
    BY <1>1, <2>1, StuffedOnce
  <2>3. ~(k < n)
    BY <1>1, <1>3 DEF StuffedUpTo, In
  <2> HIDE DEF n, k
  <2>. QED BY <1>1, <2>2, <2>3
<1> HIDE DEF n, k
<1>5. ASSUME NEW f \in Seq(Octets), NEW at \in Nat PROVE Behind(f, at) \in at .. at + 2
  BY DEF In
<1>6. ASSUME NEW f \in Seq(Octets), NEW at \in Nat \ {0} PROVE Whole(f, at) \in at .. at + 9
  <2>1. PICK n0 \in {0, 4, 9} : n0 = mpeg1_skip_table(f[at])
    BY SkipTable
  <2>2. Whole(f, at) = IF In(f, at) THEN at + n0 ELSE at
    BY <2>1
  <2>. QED BY <1>6, <2>1, <2>2
<1>7. n \in Nat \ {0} /\ k \in Nat \ {0} /\ n <= 24 /\ n >= 7
  BY <1>1
<1>8. CASE n > Len(h)
  <2>1. Behind(h, n) = n /\ Whole(h, n) = n
    BY <1>3, <1>7, <1>8 DEF In
  <2>2. PICK m \in k .. k + 2 : m = Behind(g, k)
    BY <1>5, <1>7
  <2>3. m \in Nat \ {0}
    BY <1>7
  <2>4. Whole(g, m) \in m .. m + 9
    BY <1>6, <2>3
  <2>5. Mpeg1Len(h, most) = n /\ Mpeg1Len(g, most) = Whole(g, m)
    BY <1>2, <2>1, <2>2
  <2> HIDE DEF Behind, Whole
  <2>. QED BY <1>3, <1>4, <1>7, <1>8, <2>3, <2>4, <2>5 DEF Firm
<1>9. CASE n <= Len(h)
  <2>1. k = n
    BY <1>4, <1>9
  <2>2. Behind(h, n) = Behind(g, n)
    BY <1>3, <1>7, <1>9 DEF In
  <2>3. PICK m \in n .. n + 2 : m = Behind(h, n)
    BY <1>5, <1>7
  <2>4. m \in Nat \ {0}
    BY <1>7
  <2>5. m <= Len(h) => Whole(h, m) = Whole(g, m)
    BY <1>3, <2>4 DEF In
  <2>6. m > Len(h) => Whole(h, m) = m
    BY <1>3, <2>4 DEF In
  <2>7. Whole(h, m) \in m .. m + 9 /\ Whole(g, m) \in m .. m + 9
    BY <1>6, <2>4
  <2>9. m <= 26 /\ m >= 7
    BY <1>7, <2>3
  <2>8. Mpeg1Len(h, most) = Whole(h, m) /\ Mpeg1Len(g, most) = Whole(g, m)
    BY <1>2, <2>1, <2>2, <2>3
  <2> HIDE DEF Behind, Whole
  <2>10. Firm(Whole(h, m), Whole(g, m), Len(h))
    BY <1>3, <2>4, <2>5, <2>6, <2>7, FirmAt
  <2>11. Whole(h, m) \in 7 .. 35
    <3>1. \A x \in m .. m + 9 : x \in 7 .. 35
      BY <2>4, <2>9
    <3>. QED BY <2>7, <3>1
  <2>. QED BY <2>8, <2>10, <2>11
<1>. QED BY <1>3, <1>7, <1>8, <1>9

\* Of a packet header of either kind, of which the 7th byte tells.
LEMMA PesLenFirm ==
    ASSUME NEW h \in Seq(Octets), NEW g \in Seq(Octets), Begins(h, g), NEW most \in 7 .. 24
    PROVE  /\ PesLen(h, most) \in 7 .. 264
           /\ Firm(PesLen(h, most), PesLen(g, most), Len(h))
<1>1. Len(h) \in Nat /\ Len(g) \in Nat /\ Len(h) <= Len(g) /\ \A i \in 1 .. Len(h) : h[i] = g[i]
  BY DEF Begins
<1>8. Len(h) \in Nat /\ Len(g) \in Nat
  OBVIOUS
<1>2. /\ Mpeg1Len(h, most) \in 7 .. 35 /\ Firm(Mpeg1Len(h, most), Mpeg1Len(g, most), Len(h))
  BY Mpeg1LenFirm
<1>3. Mpeg1Len(g, most) \in 7 .. 35
  <2>1. Begins(g, g)
    BY <1>1 DEF Begins
  <2>. QED BY <2>1, Mpeg1LenFirm
<1>4. (Len(h) >= 9 => h[9] \in 0 .. 255) /\ (Len(g) >= 9 => g[9] \in 0 .. 255)
  <2>1. (Len(h) >= 9 => h[9] \in Octets) /\ (Len(g) >= 9 => g[9] \in Octets)
    BY <1>1
  <2>. QED BY <2>1 DEF Octets
<1>5. CASE ~In(h, 7)
  <2> DEFINE p == PesLen(h, most)
             q == PesLen(g, most)
             d == Mpeg1Len(g, most)
  <2>1. p = 7
    BY <1>5 DEF PesLen
  <2>2. q \in {7, 9} \/ q = d \/ (In(g, 9) /\ q = 9 + g[9])
    BY Zenon DEF PesLen
  <2>3. d \in 7 .. 35
    BY <1>3
  <2>4. p \in 7 .. 264 /\ Firm(p, q, Len(h))
    <3> HIDE DEF p, q, d
    <3>1. ASSUME NEW b \in 0 .. 255 PROVE 9 + b \in 7 .. 264
      OBVIOUS
    <3>2. q \in 7 .. 264
      <4>1. CASE In(g, 9) /\ q = 9 + g[9]
        BY <1>4, <3>1, <4>1 DEF In
      <4>2. CASE q = 7 \/ q = 9
        BY <4>2
      <4>3. CASE q = d
        <5>1. \A b \in 7 .. 35 : b \in 7 .. 264
          OBVIOUS
        <5>. QED BY <2>3, <4>3, <5>1, Zenon
      <4>. QED BY <2>2, <4>1, <4>2, <4>3
    <3>. QED BY <1>5, <1>8, <2>1, <3>2 DEF Firm, In
  <2>. QED BY <2>4
<1>6. CASE In(h, 7) /\ h[7] \div 64 = 2
  <2>1. In(g, 7) /\ g[7] \div 64 = 2
    BY <1>1, <1>6 DEF In
  <2> DEFINE p == PesLen(h, most)
             q == PesLen(g, most)
  <2>2. p = IF In(h, 9) THEN 9 + h[9] ELSE 9
    BY <1>6 DEF PesLen
  <2>3. q = IF In(g, 9) THEN 9 + g[9] ELSE 9
    BY <2>1 DEF PesLen
  <2>4. In(h, 9) => In(g, 9) /\ g[9] = h[9]
    BY <1>1 DEF In
  <2>5. p \in 7 .. 264 /\ Firm(p, q, Len(h))
    <3> HIDE DEF p, q
    <3>1. CASE In(h, 9)
      <4>1. PICK b \in 0 .. 255 : b = h[9]
        BY <1>4, <3>1 DEF In
      <4>2. p = 9 + b /\ q = 9 + b
        BY <2>2, <2>3, <2>4, <3>1, <4>1
      <4>. QED BY <4>2 DEF Firm
    <3>2. CASE ~In(h, 9) /\ In(g, 9)
      <4>1. PICK b \in 0 .. 255 : b = g[9]
        BY <1>4, <3>2 DEF In
      <4>2. p = 9 /\ q = 9 + b
        BY <2>2, <2>3, <3>2, <4>1
      <4>. QED BY <1>8, <3>2, <4>2 DEF Firm, In
    <3>3. CASE ~In(h, 9) /\ ~In(g, 9)
      BY <2>2, <2>3, <3>3 DEF Firm
    <3>. QED BY <3>1, <3>2, <3>3
  <2>. QED BY <2>5
<1>7. CASE In(h, 7) /\ h[7] \div 64 # 2
  <2>1. In(g, 7) /\ g[7] \div 64 # 2
    BY <1>1, <1>7 DEF In
  <2>. QED BY <1>2, <1>7, <2>1 DEF PesLen
<1>. QED BY <1>5, <1>6, <1>7

\* Of a pack header.
LEMMA PackLenFirm ==
    ASSUME NEW h \in Seq(Octets), NEW g \in Seq(Octets), Begins(h, g)
    PROVE  PackLen(h) \in 5 .. 21 /\ Firm(PackLen(h), PackLen(g), Len(h))
<1>1. Len(h) \in Nat /\ Len(g) \in Nat /\ Len(h) <= Len(g) /\ \A i \in 1 .. Len(h) : h[i] = g[i]
  BY DEF Begins
<1>2. /\ Len(h) >= 14 => h[14] % 8 \in 0 .. 7
      /\ Len(g) >= 14 => g[14] % 8 \in 0 .. 7
  BY <1>1, Stuffing
<1>3. CASE ~In(h, 5)
  BY <1>1, <1>2, <1>3 DEF PackLen, Firm, In
<1>4. CASE In(h, 5)
  <2>1. In(g, 5) /\ g[5] = h[5]
    BY <1>1, <1>4 DEF In
  <2>2. In(h, 14) => In(g, 14) /\ g[14] = h[14]
    BY <1>1 DEF In
  <2>. QED BY <1>1, <1>2, <1>4, <2>1, <2>2 DEF PackLen, Firm, In
<1>. QED BY <1>3, <1>4

LEMMA KindLen ==
    ASSUME NEW h \in Seq(Octets), In(h, 4), StartCode(h)
    PROVE  /\ Kind(h[4]) \in {"end", "pack", "audio", "video", "elementary", "other"}
           /\ HeaderLen(h) = CASE Kind(h[4]) = "pack"  -> PackLen(h)
                               [] Kind(h[4]) = "audio" -> PesLen(h, 23)
                               [] Kind(h[4]) = "video" -> PesLen(h, 24)
                               [] Kind(h[4]) = "other" -> 6
                               [] OTHER                -> 4
<1>1. Kind(h[4]) \in {"end", "pack", "audio", "video", "elementary", "other"}
  BY DEF Kind
<1>. QED BY <1>1, Zenon DEF HeaderLen

LEMMA BeginsItself == ASSUME NEW h \in Seq(Octets) PROVE Begins(h, h)
BY DEF Begins

\* No header is longer than 264 bytes, and one of a packet tells its length within it.
LEMMA HeaderLenBounds ==
    ASSUME NEW h \in Seq(Octets)
    PROVE  /\ HeaderLen(h) \in 4 .. 264
           /\ In(h, 4) /\ StartCode(h) =>
                /\ Kind(h[4]) \in {"audio", "video"} => HeaderLen(h) \in 7 .. 264
                /\ Kind(h[4]) = "other" => HeaderLen(h) = 6
           /\ HeaderLen(h) > 4 => In(h, 4) /\ StartCode(h)
<1>1. CASE ~In(h, 4) \/ ~StartCode(h)
  <2>1. HeaderLen(h) = 4
    BY <1>1, Zenon DEF HeaderLen
  <2>. QED BY <1>1, <2>1
<1>2. CASE In(h, 4) /\ StartCode(h)
  <2> DEFINE k == Kind(h[4])
  <2>1. Begins(h, h)
    BY BeginsItself
  <2>2. \A n \in 7 .. 264 : n \in 4 .. 264
    OBVIOUS
  <2>3. CASE k = "audio"
    <3>1. HeaderLen(h) = PesLen(h, 23)
      BY <1>2, <2>3, KindLen
    <3>2. PesLen(h, 23) \in 7 .. 264
      <4>1. 23 \in 7 .. 24
        OBVIOUS
      <4>. QED BY <2>1, <4>1, PesLenFirm
    <3>. QED BY <1>2, <2>2, <2>3, <3>1, <3>2, Zenon
  <2>4. CASE k = "video"
    <3>1. HeaderLen(h) = PesLen(h, 24)
      BY <1>2, <2>4, KindLen
    <3>2. PesLen(h, 24) \in 7 .. 264
      <4>1. 24 \in 7 .. 24
        OBVIOUS
      <4>. QED BY <2>1, <4>1, PesLenFirm
    <3>. QED BY <1>2, <2>2, <2>4, <3>1, <3>2, Zenon
  <2>5. CASE k = "pack"
    <3>1. HeaderLen(h) = PackLen(h)
      BY <1>2, <2>5, KindLen
    <3>2. PackLen(h) \in 5 .. 21
      BY <2>1, PackLenFirm
    <3>3. \A n \in 5 .. 21 : n \in 4 .. 264
      OBVIOUS
    <3>. QED BY <1>2, <2>5, <3>1, <3>2, <3>3
  <2>6. CASE k \notin {"audio", "video", "pack"}
    <3>1. HeaderLen(h) = IF k = "other" THEN 6 ELSE 4
      BY <1>2, <2>6, KindLen
    <3>. QED BY <1>2, <2>6, <3>1
  <2>. QED BY <2>3, <2>4, <2>5, <2>6
<1>. QED BY <1>1, <1>2

\* However much of a header is there, it is not taken for longer than it is, and
\* once it is there its length is known, whatever follows.
LEMMA HeaderLenFirm ==
    ASSUME NEW h \in Seq(Octets), NEW g \in Seq(Octets), Begins(h, g)
    PROVE  Firm(HeaderLen(h), HeaderLen(g), Len(h))
<1>1. Len(h) \in Nat /\ Len(g) \in Nat /\ Len(h) <= Len(g) /\ \A i \in 1 .. Len(h) : h[i] = g[i]
  BY DEF Begins
<1>2. HeaderLen(g) \in 4 .. 264
  BY HeaderLenBounds
<1>3. CASE ~In(h, 4)
  <2>1. HeaderLen(h) = 4
    BY <1>3, Zenon DEF HeaderLen
  <2>2. ASSUME NEW n \in 4 .. 264 PROVE Firm(4, n, Len(h))
    BY <1>1, <1>3 DEF Firm, In
  <2>. QED BY <1>2, <2>1, <2>2
<1>4. CASE In(h, 4)
  <2>1. In(g, 4) /\ (StartCode(h) <=> StartCode(g)) /\ h[4] = g[4]
    BY <1>1, <1>4 DEF In, StartCode
  <2>2. CASE ~StartCode(h)
    <3>1. HeaderLen(h) = 4 /\ HeaderLen(g) = 4
      BY <2>1, <2>2, Zenon DEF HeaderLen
    <3>. QED BY <3>1 DEF Firm
  <2>3. CASE StartCode(h)
    <3> DEFINE k == Kind(h[4])
    <3>1. k = "audio" => HeaderLen(h) = PesLen(h, 23) /\ HeaderLen(g) = PesLen(g, 23)
      BY <1>4, <2>1, <2>3, KindLen
    <3>2. k = "video" => HeaderLen(h) = PesLen(h, 24) /\ HeaderLen(g) = PesLen(g, 24)
      BY <1>4, <2>1, <2>3, KindLen
    <3>3. k = "pack" => HeaderLen(h) = PackLen(h) /\ HeaderLen(g) = PackLen(g)
      BY <1>4, <2>1, <2>3, KindLen
    <3>4. k \notin {"audio", "video", "pack"} =>
            /\ HeaderLen(h) = IF k = "other" THEN 6 ELSE 4
            /\ HeaderLen(g) = IF k = "other" THEN 6 ELSE 4
      BY <1>4, <2>1, <2>3, KindLen
    <3>5. \A most \in {23, 24} : Firm(PesLen(h, most), PesLen(g, most), Len(h))
      <4>1. {23, 24} \subseteq 7 .. 24
        OBVIOUS
      <4>. QED BY <4>1, PesLenFirm
    <3>6. Firm(PackLen(h), PackLen(g), Len(h))
      BY PackLenFirm
    <3>7. \A n \in {4, 6} : Firm(n, n, Len(h))
      BY DEF Firm
    <3>. QED BY <3>1, <3>2, <3>3, <3>4, <3>5, <3>6, <3>7
  <2>. QED BY <2>2, <2>3
<1>. QED BY <1>3, <1>4

\* What follows a header is known once the header is there.
LEMMA PayloadFirm ==
    ASSUME NEW h \in Seq(Octets), NEW g \in Seq(Octets), Begins(h, g),
           HeaderLen(h) <= Len(h), In(h, 6)
    PROVE  PayloadLen(h) \in Int /\ PayloadLen(g) = PayloadLen(h)
<1>1. HeaderLen(g) = HeaderLen(h) /\ HeaderLen(h) \in 4 .. 264
  BY HeaderLenFirm, HeaderLenBounds DEF Firm
<1>2. h[5] = g[5] /\ h[6] = g[6] /\ h[5] \in Octets /\ h[6] \in Octets
  BY DEF Begins, In
<1>3. \A a, b \in Octets, n \in 4 .. 264 : 6 + 256 * a + b - n \in Int
  BY DEF Octets
<1>. QED BY <1>1, <1>2, <1>3 DEF PayloadLen

-----------------------------------------------------------------------------
LEMMA Part ==
    ASSUME NEW s \in Seq(Octets), NEW m \in Nat, NEW n \in Nat, m <= n, n <= Len(s)
    PROVE  /\ SubSeq(s, m + 1, n) \in Seq(Octets)
           /\ Len(SubSeq(s, m + 1, n)) = n - m
           /\ \A i \in 1 .. n - m : SubSeq(s, m + 1, n)[i] = s[m + i]
<1> DEFINE k == m + 1
<1>1. k \in Int /\ n \in Int
  OBVIOUS
<1>2. \A i \in k .. n : s[i] \in Octets
  <2>1. \A i \in k .. n : i \in 1 .. Len(s)
    OBVIOUS
  <2>. QED BY <2>1, ElementOfSeq
<1>3. /\ (IF k <= n THEN n - k + 1 ELSE 0) = n - m /\ n - k + 1 = n - m
      /\ \A i \in 1 .. n - m : k + i - 1 = m + i
  OBVIOUS
<1> HIDE DEF k
<1>4. /\ SubSeq(s, k, n) \in Seq(Octets)
      /\ Len(SubSeq(s, k, n)) = IF k <= n THEN n - k + 1 ELSE 0
      /\ \A i \in 1 .. n - k + 1 : SubSeq(s, k, n)[i] = s[k + i - 1]
  BY <1>1, <1>2, SubSeqProperties
<1>5. /\ SubSeq(s, k, n) \in Seq(Octets)
      /\ Len(SubSeq(s, k, n)) = n - m
      /\ \A i \in 1 .. n - m : SubSeq(s, k, n)[i] = s[m + i]
  BY <1>3, <1>4
<1>. QED BY <1>5 DEF k

\* A header, or what there is of it, is what the film has behind a place where
\* a packet begins.
Seen(f, h, p) ==
    /\ p \in f.start /\ p + Len(h) <= Len(f.byte)
    /\ \A i \in 1 .. Len(h) : h[i] = f.byte[p + i]

LEMMA AtLeastSix == \A x, y \in Nat : (x = 6 \/ x \in 7 .. 264) /\ x <= y => y >= 6
OBVIOUS

\* What the file has where a header is seen, as far as the header has been seen.
LEMMA HeaderSplits ==
    ASSUME NEW f, Splits(f), NEW h \in Seq(Octets), NEW p, Seen(f, h, p)
    PROVE  /\ p \in 0 .. Len(f.byte)
           /\ HeaderLen(h) > Len(h) => \A i \in p + 1 .. p + Len(h) : f.track[i] = "none"
           /\ HeaderLen(h) <= Len(h) =>
                /\ \A i \in p + 1 .. p + HeaderLen(h) : f.track[i] = "none"
                /\ ~StartCode(h) => p + 1 \in f.start
                /\ StartCode(h) /\ Kind(h[4]) = "pack" => p + HeaderLen(h) \in f.start
                /\ StartCode(h) /\ Kind(h[4]) \in {"audio", "video", "other"} =>
                      SplitsPacket(f, p, p + HeaderLen(h), PayloadLen(h), Kind(h[4]))
<1> DEFINE g == Rest(f, p)
           H == HeaderLen(h)
           G == HeaderLen(g)
           L == Len(h)
           N == Len(f.byte)
<1>1. f.byte \in Seq(Octets) /\ p \in Nat /\ p <= N /\ N \in Nat
  BY DEF Splits, Seen, Octets
<1>2. g \in Seq(Octets) /\ Len(g) = N - p /\ \A i \in 1 .. N - p : g[i] = f.byte[p + i]
  <2>1. g = SubSeq(f.byte, p + 1, N)
    BY DEF Rest
  <2>2. /\ SubSeq(f.byte, p + 1, N) \in Seq(Octets) /\ Len(SubSeq(f.byte, p + 1, N)) = N - p
        /\ \A i \in 1 .. N - p : SubSeq(f.byte, p + 1, N)[i] = f.byte[p + i]
    <3> HIDE DEF g, H, G, L
    <3>1. N <= Len(f.byte)
      BY <1>1
    <3> HIDE DEF N
    <3>. QED BY <1>1, <3>1, Part
  <2>. QED BY <2>1, <2>2
<1>3. L \in Nat /\ p + L <= N /\ DOMAIN f.byte = 1 .. N
  BY <1>1 DEF Seen
<1>4. Begins(h, g)
  <2>1. \A i \in 1 .. L : i \in 1 .. N - p /\ h[i] = f.byte[p + i]
    <3>1. \A i \in 1 .. L : i \in 1 .. N - p
      BY <1>1, <1>3
    <3>. QED BY <3>1 DEF Seen
  <2>2. L <= N - p
    BY <1>1, <1>3
  <2>. QED BY <1>2, <2>1, <2>2 DEF Begins
<1>5. Firm(H, G, L)
  BY <1>2, <1>4, HeaderLenFirm
<1>6. H \in 4 .. 264 /\ G \in 4 .. 264
  BY <1>2, HeaderLenBounds
<1>7. SplitsAt(f, p)
  BY DEF Splits, Seen
<1>8. ASSUME NEW i \in p + 1 .. p + G, i <= p + L PROVE f.track[i] = "none"
  <2>1. i \in 1 .. N
    <3> HIDE DEF G, L, N
    <3>. QED BY <1>1, <1>3, <1>6, <1>8
  <2>. QED BY <1>3, <1>7, <1>8, <2>1 DEF SplitsAt
<1>9. CASE H > L
  <2>1. \A i \in p + 1 .. p + L : i \in p + 1 .. p + G /\ i <= p + L
    <3> HIDE DEF H, G, L, N
    <3>. QED BY <1>1, <1>3, <1>5, <1>6, <1>9 DEF Firm
  <2>2. ~(H <= L) /\ p \in 0 .. N
    <3> HIDE DEF H, L, N
    <3>. QED BY <1>1, <1>3, <1>6, <1>9
  <2>. QED BY <1>8, <2>1, <2>2
<1>10. CASE H <= L
  <2>1. /\ G = H /\ ~(H > L) /\ L >= 4 /\ p + H <= N /\ p \in 0 .. N
        /\ \A i \in p + 1 .. p + H : i <= p + L
    <3> HIDE DEF H, G, L, N
    <3>. QED BY <1>1, <1>3, <1>5, <1>6, <1>10 DEF Firm
  <2>2. In(h, 4) /\ (StartCode(h) <=> StartCode(g)) /\ h[4] = g[4]
    <3>1. \A i \in 1 .. 4 : h[i] = g[i]
      BY <1>3, <1>4, <2>1 DEF Begins
    <3>. QED BY <2>1, <3>1 DEF StartCode, In
  <2>3. IF ~StartCode(h) THEN p + 1 \in f.start
        ELSE CASE Kind(h[4]) = "pack" -> p + H \in f.start
               [] Kind(h[4]) \in {"audio", "video", "other"} ->
                     SplitsPacket(f, p, p + H, PayloadLen(g), Kind(h[4]))
               [] OTHER -> TRUE
    BY <1>7, <2>1, <2>2, Zenon DEF SplitsAt
  <2>4. H \in Nat
    <3> HIDE DEF H
    <3>. QED BY <1>6
  <2>5. StartCode(h) /\ Kind(h[4]) \in {"audio", "video", "other"} => PayloadLen(g) = PayloadLen(h)
    <3> SUFFICES ASSUME StartCode(h), Kind(h[4]) \in {"audio", "video", "other"}
                 PROVE  PayloadLen(g) = PayloadLen(h)
      OBVIOUS
    <3>1. H = 6 \/ H \in 7 .. 264
      BY <2>2, HeaderLenBounds
    <3>2. L >= 6
      BY <1>3, <1>10, <2>4, <3>1, AtLeastSix, Zenon
    <3>. QED BY <1>2, <1>4, <1>10, <3>2, PayloadFirm DEF In
  <2>6. \A i \in p + 1 .. p + H : f.track[i] = "none"
    BY <1>8, <2>1
  <2>7. /\ ~StartCode(h) => p + 1 \in f.start
        /\ StartCode(h) /\ Kind(h[4]) = "pack" => p + H \in f.start
        /\ StartCode(h) /\ Kind(h[4]) \in {"audio", "video", "other"} =>
              SplitsPacket(f, p, p + H, PayloadLen(h), Kind(h[4]))
    BY <2>3, <2>5
  <2>. QED BY <2>1, <2>6, <2>7
<1>11. H > L \/ H <= L
  <2> HIDE DEF H, G, L, N
  <2>. QED BY <1>3, <1>6
<1>. QED BY <1>9, <1>10, <1>11
-----------------------------------------------------------------------------
(* The invariant.                                                          *)

\* A header that a buffer cut is kept with its first bytes, and at least a start
\* code of it once there are four.
Types ==
    /\ DemuxTypeOK
    /\ file \in Films \cup FilmsAfter
    /\ demuxPc = "menu" => session = 0
    /\ inHead \in BOOLEAN /\ video \in Seq(Nat) /\ audio \in Seq(Nat)
    /\ inHead => state = "HEADER" /\ bytes <= Len(head_buf) /\ state_bytes <= bytes
    /\ state = "HEADER" => /\ state_bytes <= Len(head_buf)
                           /\ state_bytes >= 4 => StartCode(head_buf)

TrackOf(st) == IF st = "DATA" THEN "video" ELSE IF st = "MPA_DATA" THEN "audio" ELSE "none"

\* The n bytes behind the first c are what is left of a packet.
Owed(f, st, c, n) ==
    /\ c + n <= Len(f.byte) => c + n \in f.start
    /\ \A i \in c + 1 .. c + n : i \in DOMAIN f.byte => f.track[i] = TrackOf(st)
    /\ n > 0 => /\ c > 0
                /\ \A i \in DOMAIN f.byte : i > c => (f.packet[i] = f.packet[c] <=> i <= c + n)

\* Where the header begins.
HeadStart == IF inHead THEN buf - bytes ELSE buf

KeptHeader == SubSeq(head_buf, 1, state_bytes)

Between == demuxPc \in {"loop", "demux", "while"}

\* Between two buffers: the beginning of a header is kept, the bytes before the cut,
\* and it is not the whole of it ...
KeepsHeader ==
    Between /\ state = "HEADER" =>
        Seen(file, KeptHeader, buf - state_bytes) /\ HeaderLen(KeptHeader) > state_bytes

\* ... or the count of what the file still has of a packet.
KeepsCount ==
    Between /\ state # "HEADER" => Owed(file, state, buf, state_bytes)

\* What is looked at as a header is what the file has where something begins.
InHeader ==
    demuxPc = "header" => Seen(file, header, HeadStart) /\ (inHead => HeaderLen(header) >= bytes)

AtEnd ==
    /\ demuxPc \in {"loop", "while"} => buf = end
    /\ demuxPc = "while" /\ state # "HEADER" => state_bytes > 0

\* Whether demux is in step or not, nothing is given twice, nor before it is passed.
Forward ==
    /\ since \in -1 .. buf
    /\ InOrder(video) /\ Range(video) \subseteq 1 .. buf
    /\ InOrder(audio) /\ Range(audio) \subseteq 1 .. buf

\* The decoders have got all that is theirs up to buf.
Given ==
    Between \/ demuxPc = "header" =>
        AllOf(video, "video") /\ (player = "mpeg" => AllOf(audio, "audio"))

GivenWhole ==
    player = "sofdec" =>
        /\ InOrder(audio) /\ Range(audio) \subseteq 1 .. buf
        /\ \A i \in DOMAIN audio, p \in DOMAIN file.byte :
              audio[i] > since /\ file.packet[p] = file.packet[audio[i]] /\ file.track[p] = "audio"
                  => p \in Range(audio)

InStep == Synced => KeepsHeader /\ KeepsCount /\ InHeader /\ AtEnd /\ Given /\ GivenWhole

-----------------------------------------------------------------------------
(* Types.                                                                  *)

LEMMA PositionsAre ==
    ASSUME NEW from \in Nat, NEW to \in Nat, from <= to
    PROVE  /\ Positions(from, to) \in Seq(Nat) /\ Len(Positions(from, to)) = to - from
           /\ \A i \in 1 .. to - from : Positions(from, to)[i] = from + i
<1> DEFINE n == to - from
           s == [i \in 1 .. n |-> from + i]
<1>1. n \in Nat
  OBVIOUS
<1>2. s \in [1 .. n -> Nat]
  OBVIOUS
<1> HIDE DEF n
<1>3. s \in Seq(Nat) /\ Len(s) = n
  <2>1. s \in Seq(Nat)
    BY <1>1, <1>2, SeqDef
  <2>2. DOMAIN s = 1 .. n
    OBVIOUS
  <2> HIDE DEF s
  <2>3. DOMAIN s = 1 .. Len(s) /\ Len(s) \in Nat
    BY <2>1, LenProperties
  <2>. QED BY <1>1, <2>1, <2>2, <2>3
<1>4. \A i \in 1 .. n : s[i] = from + i
  OBVIOUS
<1>. QED BY <1>3, <1>4 DEF Positions, n

LEMMA PositionsBehind ==
    ASSUME NEW s \in Seq(Nat), NEW from \in Nat, NEW to \in Nat, from <= to
    PROVE  s \o Positions(from, to) \in Seq(Nat)
BY PositionsAre, ConcatProperties

LEMMA HeaderTyped ==
    ASSUME Types
    PROVE  /\ header \in Seq(Octets)
           /\ Len(header) = IF inHead THEN bytes ELSE end - buf
           /\ \A i \in 1 .. (IF inHead THEN bytes ELSE end - buf) :
                 header[i] = IF inHead THEN head_buf[i] ELSE file.byte[buf + i]
<1>1. /\ head_buf \in Seq(Octets) /\ file.byte \in Seq(Octets)
      /\ buf \in Nat /\ end \in Nat /\ buf <= end /\ end <= Len(file.byte) /\ bytes \in Nat
      /\ inHead => bytes <= Len(head_buf)
  BY DEF Types, DemuxTypeOK, Octets
<1>2. CASE inHead
  <2>1. /\ SubSeq(head_buf, 0 + 1, bytes) \in Seq(Octets)
        /\ Len(SubSeq(head_buf, 0 + 1, bytes)) = bytes - 0
        /\ \A i \in 1 .. bytes - 0 : SubSeq(head_buf, 0 + 1, bytes)[i] = head_buf[0 + i]
    BY <1>1, <1>2, Part
  <2>2. 0 + 1 = 1 /\ bytes - 0 = bytes /\ \A i \in 1 .. bytes : 0 + i = i
    BY <1>1
  <2>. QED BY <1>2, <2>1, <2>2 DEF header
<1>3. CASE ~inHead
  BY <1>1, <1>3, Part DEF header
<1>. QED BY <1>2, <1>3

LEMMA DoneTyped ==
    ASSUME Types, HeaderThere
    PROVE  /\ HeaderLen(header) \in 4 .. 264 /\ In(header, 4)
           /\ DoneBytes \in Nat /\ buf <= DoneBytes /\ DoneBytes <= end
<1> DEFINE H == HeaderLen(header)
           L == Len(header)
<1>1. H \in 4 .. 264
  BY HeaderTyped, HeaderLenBounds
<1>2. H <= L /\ L = (IF inHead THEN bytes ELSE end - buf)
  BY HeaderTyped DEF HeaderThere
<1>3. buf \in Nat /\ end \in Nat /\ buf <= end /\ bytes \in Nat
  BY DEF Types, DemuxTypeOK
<1>4. DoneBytes = IF inHead THEN buf ELSE buf + H
  BY DEF DoneBytes
<1>5. L >= 4 /\ DoneBytes \in Nat /\ buf <= DoneBytes /\ DoneBytes <= end
  <2> HIDE DEF H, L
  <2>. QED BY <1>1, <1>2, <1>3, <1>4
<1>. QED BY <1>1, <1>5 DEF In

LEMMA PayloadTyped ==
    ASSUME Types, HeaderOf({"audio", "video", "other"})
    PROVE  /\ PayloadLen(header) \in Int
           /\ Cut => PayloadLen(header) - (end - DoneBytes) \in Nat \ {0}
           /\ ~Cut => PayloadEnd \in DoneBytes .. end
<1> DEFINE H == HeaderLen(header)
           L == Len(header)
           P == PayloadLen(header)
           D == DoneBytes
<1>1. header \in Seq(Octets) /\ HeaderThere /\ StartCode(header)
      /\ Kind(header[4]) \in {"audio", "video", "other"}
  BY HeaderTyped DEF HeaderOf
<1>2. In(header, 4) /\ D \in Nat /\ D <= end /\ H \in 4 .. 264
  BY <1>1, DoneTyped
<1>3. H = 6 \/ H \in 7 .. 264
  BY <1>1, <1>2, HeaderLenBounds
<1>4. L \in Nat /\ H <= L
  BY <1>1 DEF HeaderThere
<1>5. L >= 6
  <2> HIDE DEF H, L
  <2>1. H \in Nat
    BY <1>2
  <2>. QED BY <1>3, <1>4, <2>1, AtLeastSix, Zenon
<1>6. P \in Int
  BY <1>1, <1>4, <1>5, BeginsItself, PayloadFirm DEF In
<1>7. (Cut <=> P > end - D) /\ PayloadEnd = (IF P > 0 THEN D + P ELSE D)
  BY DEF Cut, PayloadEnd
<1>8. end \in Nat
  BY DEF Types, DemuxTypeOK
<1>9. /\ Cut => P - (end - D) \in Nat \ {0}
      /\ ~Cut => PayloadEnd \in D .. end
  <2> HIDE DEF H, L, P, D
  <2>. QED BY <1>2, <1>6, <1>7, <1>8
<1>. QED BY <1>6, <1>9

\* A payload that is given out goes from the header's end to that of the
\* buffer or of the packet.
LEMMA GivenTyped ==
    ASSUME Types, NEW from \in Nat, NEW to \in Nat, from <= to
    PROVE  /\ ToVideo(from, to) => video' \in Seq(Nat) /\ audio' \in Seq(Nat)
           /\ ToAudio(from, to) => video' \in Seq(Nat) /\ audio' \in Seq(Nat)
BY PositionsBehind DEF Types, ToVideo, ToAudio

LEMMA PacketTyped ==
    ASSUME Types, HeaderOf({"audio", "video", "other"}),
           UNCHANGED <<fileVars, loopVars, head_buf, bytes>>,
           NEW st \in {"DATA", "SKIP", "MPA_DATA"}, CutPayload(st) \/ WholePayload,
           video' \in Seq(Nat), audio' \in Seq(Nat)
    PROVE  Types'
<1>1. /\ Cut => PayloadLen(header) - (end - DoneBytes) \in Nat \ {0}
      /\ ~Cut => PayloadEnd \in DoneBytes .. end
      /\ DoneBytes \in Nat /\ DoneBytes <= end
  BY PayloadTyped, DoneTyped DEF HeaderOf
<1>2. /\ player' = player /\ session' = session /\ file' = file /\ buffer_size' = buffer_size
      /\ end' = end /\ head_buf' = head_buf /\ bytes' = bytes
  BY DEF fileVars, loopVars
<1>3. end \in Nat /\ state_bytes \in Nat
  BY DEF Types, DemuxTypeOK
<1>4. /\ buf' \in 0 .. end /\ demuxPc' \in {"while", "header"} /\ inHead' = FALSE
      /\ \/ state' = st /\ state_bytes' \in Nat
         \/ state' = state /\ state_bytes' = state_bytes
  <2>1. CASE CutPayload(st)
    BY <1>1, <1>3, <2>1 DEF CutPayload, Return0
  <2>2. CASE WholePayload
    <3>1. buf' = PayloadEnd /\ ~Cut /\ demuxPc' = "header" /\ inHead' = FALSE
          /\ state' = state /\ state_bytes' = state_bytes
      BY <2>2 DEF WholePayload, GoOn
    <3>2. \A n, d : d \in Nat /\ n \in d .. end => n \in 0 .. end
      BY <1>3
    <3>. QED BY <1>1, <3>1, <3>2
  <2>. QED BY <2>1, <2>2
<1>5. DemuxTypeOK'
  BY <1>2, <1>3, <1>4 DEF Types, DemuxTypeOK
<1>6. /\ demuxPc' # "menu" /\ file' \in Films \cup FilmsAfter /\ inHead' \in BOOLEAN
      /\ state' = "HEADER" => /\ state_bytes' <= Len(head_buf')
                              /\ state_bytes' >= 4 => StartCode(head_buf')
  BY <1>2, <1>4 DEF Types
<1>. QED BY <1>4, <1>5, <1>6 DEF Types

LEMMA NeedBytesTyped == ASSUME Types, NeedBytes PROVE Types'
<1> DEFINE H == HeaderLen(header)
           L == Len(header)
           missing == H - bytes
<1>1. header \in Seq(Octets) /\ L = (IF inHead THEN bytes ELSE end - buf) /\ H > L
  BY HeaderTyped DEF NeedBytes
<1>2. H \in 4 .. 264 /\ (H > 4 => In(header, 4) /\ StartCode(header))
  BY <1>1, HeaderLenBounds
<1>3. /\ player' = player /\ session' = session /\ file' = file /\ buffer_size' = buffer_size
      /\ end' = end /\ video' = video /\ audio' = audio /\ demuxPc = "header"
  BY DEF NeedBytes, fileVars, loopVars, out
<1>4. /\ buf \in Nat /\ end \in Nat /\ bytes \in Nat /\ state_bytes \in Nat /\ buf <= end
      /\ end <= Len(file.byte) /\ file.byte \in Seq(Octets) /\ head_buf \in Seq(Octets)
      /\ Len(file.byte) \in Nat
  BY DEF Types, DemuxTypeOK, Octets
\* Some n more bytes of the buffer are put behind the header.
<1>5. ASSUME inHead, NEW n \in Nat, n <= end - buf, bytes + n <= H,
             head_buf' = header \o SubSeq(file.byte, buf + 1, buf + n)
      PROVE  /\ head_buf' \in Seq(Octets) /\ Len(head_buf') = bytes + n
             /\ \A i \in 1 .. bytes : head_buf'[i] = head_buf[i]
  <2>1. /\ SubSeq(file.byte, buf + 1, buf + n) \in Seq(Octets)
        /\ Len(SubSeq(file.byte, buf + 1, buf + n)) = n
    <3>1. buf + n \in Nat /\ buf <= buf + n /\ buf + n <= Len(file.byte) /\ (buf + n) - buf = n
      BY <1>4, <1>5
    <3>. QED BY <1>4, <3>1, Part
  <2>2. L = bytes /\ \A i \in 1 .. bytes : header[i] = head_buf[i]
    BY <1>1, <1>5, HeaderTyped
  <2>3. /\ head_buf' \in Seq(Octets) /\ Len(head_buf') = L + n
        /\ \A i \in 1 .. L + n : head_buf'[i] = IF i <= L THEN header[i]
                                     ELSE SubSeq(file.byte, buf + 1, buf + n)[i - L]
    BY <1>1, <1>5, <2>1, ConcatProperties
  <2>4. \A i \in 1 .. bytes : i \in 1 .. bytes + n /\ i <= bytes
    BY <1>4, <1>5
  <2>. QED BY <2>2, <2>3, <2>4
\* So the start code, once there, stays.
<1>6. ASSUME inHead, \A i \in 1 .. bytes : head_buf'[i] = head_buf[i],
             bytes >= 4, StartCode(header)
      PROVE  StartCode(head_buf')
  <2>1. \A i \in 1 .. 3 : header[i] = head_buf[i] /\ head_buf'[i] = head_buf[i]
    <3>1. \A i \in 1 .. 3 : i \in 1 .. bytes
      BY <1>4, <1>6
    <3>. QED BY <1>6, <3>1, HeaderTyped
  <2>. QED BY <1>6, <2>1 DEF StartCode
<1>7. \/ /\ inHead /\ missing <= end - buf
         /\ head_buf' = header \o SubSeq(file.byte, buf + 1, buf + missing)
         /\ buf' = buf + missing /\ bytes' = H
         /\ UNCHANGED <<since, demuxPc, state, state_bytes, inHead>>
      \/ /\ inHead /\ missing > end - buf
         /\ head_buf' = header \o SubSeq(file.byte, buf + 1, end)
         /\ state_bytes' = bytes + (end - buf)
         /\ Return0 /\ UNCHANGED <<state, bytes>>
      \/ /\ ~inHead
         /\ head_buf' = header
         /\ state' = "HEADER" /\ state_bytes' = L
         /\ Return0 /\ UNCHANGED bytes
  BY Zenon DEF NeedBytes
<1>8. CASE /\ inHead /\ missing <= end - buf
           /\ head_buf' = header \o SubSeq(file.byte, buf + 1, buf + missing)
           /\ buf' = buf + missing /\ bytes' = H
           /\ UNCHANGED <<demuxPc, state, state_bytes, inHead>>
  <2>1. /\ missing \in Nat /\ bytes + missing = H /\ buf + missing \in 0 .. end
        /\ H \in Nat /\ H <= 264 /\ bytes <= H /\ bytes + missing <= H
    <3> HIDE DEF H, L
    <3>. QED BY <1>1, <1>2, <1>4, <1>8
  <2>2. /\ head_buf' \in Seq(Octets) /\ Len(head_buf') = H
        /\ \A i \in 1 .. bytes : head_buf'[i] = head_buf[i]
    <3> HIDE DEF H, L, missing
    <3>. QED BY <1>5, <1>8, <2>1
  <2>3. state = "HEADER" /\ state_bytes <= bytes /\ (state_bytes >= 4 => StartCode(head_buf))
    BY <1>8 DEF Types
  <2>4. state_bytes >= 4 => StartCode(head_buf')
    <3>1. state_bytes >= 4 => bytes >= 4 /\ StartCode(header)
      <4>1. state_bytes >= 4 => bytes >= 4 /\ H > 4
        <5> HIDE DEF H, L
        <5>. QED BY <1>1, <1>2, <1>4, <1>8, <2>3
      <4>. QED BY <1>2, <4>1
    <3>. QED BY <1>6, <1>8, <2>2, <3>1
  <2>5. DemuxTypeOK'
    <3>1. Len(head_buf') <= 264 /\ bytes' \in Nat /\ buf' \in 0 .. end
      BY <1>8, <2>1, <2>2
    <3>. QED BY <1>3, <1>8, <2>2, <3>1 DEF Types, DemuxTypeOK, Octets
  <2>6. bytes' <= Len(head_buf') /\ state_bytes' <= bytes' /\ state_bytes' <= Len(head_buf')
    <3> HIDE DEF H, L, missing
    <3>. QED BY <1>4, <1>8, <2>1, <2>2, <2>3
  <2>. QED BY <1>3, <1>8, <2>3, <2>4, <2>5, <2>6 DEF Types
<1>9. CASE /\ inHead /\ missing > end - buf
           /\ head_buf' = header \o SubSeq(file.byte, buf + 1, end)
           /\ state_bytes' = bytes + (end - buf)
           /\ Return0 /\ UNCHANGED <<state, bytes>>
  <2> DEFINE n == end - buf
  <2>1. n \in Nat /\ buf + n = end /\ bytes + n < H /\ bytes + n \in Nat /\ bytes + n <= 264
        /\ bytes + n <= H
    <3> HIDE DEF H, L
    <3>. QED BY <1>1, <1>2, <1>4, <1>9
  <2>2. /\ head_buf' \in Seq(Octets) /\ Len(head_buf') = bytes + n
        /\ \A i \in 1 .. bytes : head_buf'[i] = head_buf[i]
    <3>1. head_buf' = header \o SubSeq(file.byte, buf + 1, buf + n)
      BY <1>9, <2>1
    <3>2. n <= end - buf
      BY <1>4
    <3> HIDE DEF H, L, n
    <3>. QED BY <1>5, <1>9, <2>1, <3>1, <3>2
  <2>3. state = "HEADER" /\ state_bytes <= bytes
    BY <1>9 DEF Types
  <2>4. bytes + n >= 4 => StartCode(head_buf')
    <3>1. bytes + n >= 4 => L >= 4 /\ L = bytes /\ StartCode(header)
      <4>1. bytes + n >= 4 => H > 4
        <5> HIDE DEF H, L, n
        <5>. QED BY <1>2, <2>1, <1>4
      <4>. QED BY <1>1, <1>2, <1>9, <4>1 DEF In
    <3>. QED BY <1>6, <1>9, <2>2, <3>1
  <2>5. /\ state_bytes' = bytes + n /\ demuxPc' = "while" /\ buf' = end /\ inHead' = FALSE
        /\ state' = state /\ bytes' = bytes
    BY <1>9 DEF Return0
  <2>6. DemuxTypeOK'
    <3>1. Len(head_buf') <= 264 /\ state_bytes' \in Nat /\ buf' \in 0 .. end
      BY <1>4, <2>1, <2>2, <2>5
    <3>. QED BY <1>3, <2>2, <2>5, <3>1 DEF Types, DemuxTypeOK, Octets
  <2>7. state_bytes' <= Len(head_buf')
    <3> HIDE DEF H, L, n
    <3>. QED BY <2>1, <2>2, <2>5
  <2>. QED BY <1>3, <2>3, <2>4, <2>5, <2>6, <2>7 DEF Types
<1>10. CASE /\ ~inHead
            /\ head_buf' = header
            /\ state' = "HEADER" /\ state_bytes' = L
            /\ Return0 /\ UNCHANGED bytes
  <2>1. L \in Nat /\ L <= 264 /\ L < H
    <3> HIDE DEF H
    <3>. QED BY <1>1, <1>2
  <2>2. L >= 4 => StartCode(header)
    <3>1. L >= 4 => H > 4
      <4> HIDE DEF H, L
      <4>. QED BY <1>2, <2>1
    <3>. QED BY <1>2, <3>1
  <2>3. DemuxTypeOK'
    BY <1>1, <1>3, <1>4, <1>10, <2>1 DEF Types, DemuxTypeOK, Return0, Octets
  <2>4. /\ state' = "HEADER" /\ state_bytes' = L /\ Len(head_buf') = L /\ head_buf' = header
        /\ inHead' = FALSE /\ demuxPc' = "while"
    BY <1>10 DEF Return0
  <2>5. L <= L
    BY <2>1
  <2> HIDE DEF L
  <2>. QED BY <1>3, <2>2, <2>3, <2>4, <2>5 DEF Types
<1>. QED BY <1>7, <1>8, <1>9, <1>10

LEMMA ResyncTyped == ASSUME Types, Resync PROVE Types'
<1> DEFINE H == HeaderLen(header)
           L == Len(header)
<1>1. header \in Seq(Octets) /\ L = (IF inHead THEN bytes ELSE end - buf)
      /\ \A i \in 1 .. L : header[i] = IF inHead THEN head_buf[i] ELSE file.byte[buf + i]
  BY HeaderTyped
<1>2. L >= 4 /\ L \in Nat
  <2>1. In(header, 4)
    BY DoneTyped DEF Resync
  <2>. QED BY <1>1, <2>1 DEF In
<1>3. /\ player' = player /\ session' = session /\ file' = file /\ buffer_size' = buffer_size
      /\ end' = end /\ video' = video /\ audio' = audio /\ demuxPc = "header" /\ demuxPc' = demuxPc
      /\ state' = state /\ state_bytes' = state_bytes /\ inHead' = inHead /\ ~StartCode(header)
  BY DEF Resync, HeaderThere, fileVars, loopVars, out
<1>4. buf \in Nat /\ end \in Nat /\ bytes \in Nat /\ state_bytes \in Nat /\ buf <= end
  BY DEF Types, DemuxTypeOK
<1>5. CASE inHead /\ head_buf' = SubSeq(header, 2, 4) /\ bytes' = 3 /\ UNCHANGED buf
  <2>1. head_buf' \in Seq(Octets) /\ Len(head_buf') = 3
    <3>1. /\ SubSeq(header, 1 + 1, 4) \in Seq(Octets)
          /\ Len(SubSeq(header, 1 + 1, 4)) = 4 - 1
      BY <1>1, <1>2, Part
    <3>. QED BY <1>5, <3>1
  <2>2. state = "HEADER" /\ state_bytes <= bytes /\ (state_bytes >= 4 => StartCode(head_buf))
    BY <1>5 DEF Types
  <2>3. state_bytes <= 3
    <3>1. ASSUME state_bytes >= 4 PROVE FALSE
      <4>1. \A i \in 1 .. 3 : i \in 1 .. L
        BY <1>2
      <4>2. \A i \in 1 .. 3 : header[i] = head_buf[i]
        BY <1>1, <1>5, <4>1
      <4>. QED BY <1>3, <2>2, <3>1, <4>2 DEF StartCode
    <3>. QED BY <1>4, <3>1
  <2>4. DemuxTypeOK'
    BY <1>3, <1>4, <1>5, <2>1 DEF Types, DemuxTypeOK, Octets
  <2>5. state_bytes' <= 3 /\ ~(state_bytes' >= 4)
    BY <1>3, <1>4, <2>3
  <2>. QED BY <1>3, <1>5, <2>1, <2>2, <2>4, <2>5 DEF Types
<1>6. CASE ~inHead /\ buf' = buf + 1 /\ UNCHANGED <<head_buf, bytes>>
  <2>1. buf + 1 \in 0 .. end
    BY <1>1, <1>2, <1>4, <1>6
  <2>2. DemuxTypeOK'
    BY <1>3, <1>4, <1>6, <2>1 DEF Types, DemuxTypeOK
  <2>. QED BY <1>3, <1>6, <2>2 DEF Types
<1>. QED BY <1>5, <1>6 DEF Resync

LEMMA EnterPayloadTyped == ASSUME Types, EnterPayload PROVE Types'
<1>1. /\ player' = player /\ session' = session /\ file' = file /\ buffer_size' = buffer_size
      /\ end' = end /\ head_buf' = head_buf /\ bytes' = bytes /\ demuxPc = "demux"
      /\ state # "HEADER" /\ state' = state
  BY DEF EnterPayload, fileVars, loopVars
<1>2. buf \in Nat /\ end \in Nat /\ state_bytes \in Nat /\ buf <= end
  BY DEF Types, DemuxTypeOK
<1>3. ASSUME NEW to \in Nat, buf <= to, Continue(to) PROVE video' \in Seq(Nat) /\ audio' \in Seq(Nat)
  BY <1>2, <1>3, GivenTyped DEF Continue, Types, out
<1>4. CASE /\ state_bytes > end - buf
           /\ Continue(end) /\ state_bytes' = state_bytes - (end - buf)
           /\ Return0
  <2>1. state_bytes - (end - buf) \in Nat
    BY <1>2, <1>4
  <2>2. DemuxTypeOK'
    BY <1>1, <1>2, <1>4, <2>1 DEF Types, DemuxTypeOK, Return0
  <2>. QED BY <1>1, <1>2, <1>3, <1>4, <2>2 DEF Types, Return0
<1>5. CASE /\ state_bytes <= end - buf
           /\ Continue(buf + state_bytes) /\ GoOn(buf + state_bytes)
           /\ UNCHANGED state_bytes
  <2>1. buf + state_bytes \in Nat /\ buf <= buf + state_bytes /\ buf + state_bytes <= end
    BY <1>2, <1>5
  <2>2. video' \in Seq(Nat) /\ audio' \in Seq(Nat)
    BY <1>3, <1>5, <2>1
  <2>3. DemuxTypeOK'
    BY <1>1, <1>2, <1>5, <2>1 DEF Types, DemuxTypeOK, GoOn
  <2>. QED BY <1>1, <1>5, <2>2, <2>3 DEF Types, GoOn
<1>. QED BY <1>4, <1>5 DEF EnterPayload

LEMMA PackTyped == ASSUME Types, Pack PROVE Types'
<1>1. DoneBytes \in Nat /\ DoneBytes <= end
  BY DoneTyped DEF Pack, HeaderOf
<1>2. /\ UNCHANGED <<fileVars, loopVars, kept, bytes, out>>
      /\ demuxPc' = "header" /\ buf' = DoneBytes /\ inHead' = FALSE
  BY DEF Pack, GoOn
<1>3. buf' \in 0 .. end /\ end \in Nat
  BY <1>1, <1>2 DEF Types, DemuxTypeOK
<1>4. DemuxTypeOK'
  BY <1>2, <1>3 DEF Types, DemuxTypeOK, fileVars, loopVars, kept
<1>. QED BY <1>2, <1>4 DEF Types, fileVars, kept, out

\* The packets that are given to a decoder, or to none.
LEMMA PacketsTyped ==
    ASSUME Types, VideoPacket \/ MpegAudioPacket \/ SofdecAudioPacket \/ OtherPacket
    PROVE  Types'
<1>1. /\ HeaderOf({"audio", "video", "other"}) /\ HeaderThere
      /\ UNCHANGED <<fileVars, loopVars, head_buf, bytes>>
  BY DEF VideoPacket, MpegAudioPacket, SofdecAudioPacket, OtherPacket, HeaderOf
<1>2. /\ DoneBytes \in Nat /\ end \in Nat /\ DoneBytes <= end
      /\ ~Cut => PayloadEnd \in Nat /\ DoneBytes <= PayloadEnd
  <2>1. /\ ~Cut => PayloadEnd \in DoneBytes .. end
        /\ DoneBytes \in Nat /\ DoneBytes <= end /\ end \in Nat
    BY <1>1, PayloadTyped, DoneTyped DEF Types, DemuxTypeOK
  <2>2. \A d \in Nat : \A n \in d .. end : n \in Nat /\ d <= n
    BY <2>1
  <2>. QED BY <2>1, <2>2
<1>3. \/ \E st \in {"DATA", "SKIP", "MPA_DATA"} :
            /\ CutPayload(st)
            /\ ToVideo(DoneBytes, end) \/ ToAudio(DoneBytes, end) \/ UNCHANGED out
      \/ /\ WholePayload /\ ~Cut
         /\ ToVideo(DoneBytes, PayloadEnd) \/ ToAudio(DoneBytes, PayloadEnd) \/ UNCHANGED out
  BY DEF VideoPacket, MpegAudioPacket, SofdecAudioPacket, OtherPacket, WholePayload
<1>4. UNCHANGED out => video' \in Seq(Nat) /\ audio' \in Seq(Nat)
  BY DEF Types, out
<1>5. video' \in Seq(Nat) /\ audio' \in Seq(Nat)
  BY <1>2, <1>3, <1>4, GivenTyped
<1>. QED BY <1>1, <1>3, <1>5, PacketTyped

LEMMA LoopTyped == ASSUME Types, Open \/ ps_loop \/ EnterHeader \/ Stop PROVE Types'
<1>1. CASE Open
  <2>1. /\ player' = player /\ buffer_size' = buffer_size /\ kept' = kept /\ bytes' = bytes
        /\ demuxPc' = "loop" /\ buf' = 0 /\ end' = 0 /\ inHead' = FALSE
        /\ video' = <<>> /\ audio' = <<>> /\ session' = session + 1
    BY <1>1 DEF Open
  <2>2. file' \in Films \cup FilmsAfter
    BY <1>1 DEF Open, Types
  <2>3. file'.byte \in Seq(Octets) /\ Len(file'.byte) \in Nat
    BY <2>2, FilmsAssumption DEF Splits, Octets
  <2>4. session' \in 0 .. Sessions
    BY <1>1, <2>1, DemuxAssumption DEF Open, Types, DemuxTypeOK
  <2>5. 0 \in 0 .. 0 /\ 0 \in 0 .. Len(file'.byte)
    BY <2>3
  <2>6. DemuxTypeOK'
    BY <2>1, <2>3, <2>4, <2>5 DEF Types, DemuxTypeOK, kept, Octets
  <2>7. <<>> \in Seq(Nat)
    OBVIOUS
  <2>. QED BY <2>1, <2>2, <2>6, <2>7 DEF Types, kept
<1>2. CASE Read
  <2>1. /\ fileVars' = fileVars /\ kept' = kept /\ bytes' = bytes /\ buf' = buf /\ inHead' = inHead
        /\ demuxPc' = "demux" /\ out' = out
    BY <1>2 DEF Read
  <2>2. /\ buf \in Nat /\ end \in Nat /\ buf <= end /\ end <= Len(file.byte) /\ buffer_size \in Nat
        /\ Len(file.byte) \in Nat
    BY DemuxAssumption DEF Types, DemuxTypeOK
  <2>3. \/ Len(file.byte) - end >= buffer_size /\ end' = end + buffer_size
        \/ end' = Len(file.byte)
    BY <1>2 DEF Read
  <2>4. end' \in 0 .. Len(file.byte) /\ buf \in 0 .. end'
    BY <2>2, <2>3
  <2>5. DemuxTypeOK'
    BY <2>1, <2>4 DEF Types, DemuxTypeOK, fileVars, kept
  <2>. QED BY <2>1, <2>5 DEF Types, fileVars, kept, out
<1>3. CASE EnterHeader
  <2>1. /\ UNCHANGED <<fileVars, loopVars, buf, kept, out>> /\ demuxPc' = "header"
        /\ bytes' = state_bytes /\ state = "HEADER"
    BY <1>3 DEF EnterHeader
  <2>2. inHead' \in BOOLEAN
    <3>1. \A n \in Nat : (n > 0) \in BOOLEAN
      OBVIOUS
    <3>2. state_bytes \in Nat
      BY DEF Types, DemuxTypeOK
    <3>. QED BY <1>3, <3>1, <3>2, Zenon DEF EnterHeader
  <2>3. DemuxTypeOK'
    BY <2>1 DEF Types, DemuxTypeOK, fileVars, loopVars, kept
  <2>4. state_bytes' <= bytes' /\ bytes' <= Len(head_buf')
    BY <2>1 DEF Types, DemuxTypeOK, kept
  <2>. QED BY <2>1, <2>2, <2>3, <2>4 DEF Types, fileVars, kept, out
<1>4. CASE UserLeaves \/ While \/ Stop
  <2>1. /\ UNCHANGED <<fileVars, loopVars, buf, kept, inHead, bytes, out>>
        /\ demuxPc' \in {"loop", "closed"}
    BY <1>4 DEF UserLeaves, While, Stop
  <2>2. DemuxTypeOK'
    BY <2>1 DEF Types, DemuxTypeOK, fileVars, loopVars, kept
  <2>. QED BY <2>1, <2>2 DEF Types, fileVars, kept, out
<1>. QED BY <1>1, <1>2, <1>3, <1>4 DEF ps_loop

LEMMA TypesStep == ASSUME Types, [DemuxNext]_demuxVars PROVE Types'
<1>1. CASE UNCHANGED demuxVars
  BY <1>1 DEF demuxVars, fileVars, loopVars, kept, out, Types, DemuxTypeOK
<1>2. CASE DemuxNext
  BY <1>2, LoopTyped, EnterPayloadTyped, NeedBytesTyped, ResyncTyped, PackTyped, PacketsTyped
     DEF DemuxNext, demux
<1>. QED BY <1>1, <1>2

LEMMA TypesInit == DemuxInit => Types
<1> SUFFICES ASSUME DemuxInit PROVE Types
  OBVIOUS
<1>1. file \in Films /\ file.byte \in Seq(Octets) /\ Len(file.byte) \in Nat
  BY FilmsAssumption DEF DemuxInit, MpegInit, Splits, Octets
<1>2. 0 \in 0 .. 0 /\ 0 \in 0 .. Len(file.byte) /\ 0 \in 0 .. Sessions
  BY <1>1, DemuxAssumption
<1>3. <<>> \in Seq(Octets) /\ Len(<<>>) = 0 /\ <<>> \in Seq(Nat)
  OBVIOUS
<1>4. DemuxTypeOK
  BY <1>1, <1>2, <1>3 DEF DemuxInit, MpegInit, DemuxTypeOK, Octets
<1>5. /\ file \in Films \cup FilmsAfter /\ inHead = FALSE /\ session = 0
      /\ video = <<>> /\ audio = <<>> /\ state = "SKIP"
  BY DEF DemuxInit, MpegInit
<1>. QED BY <1>3, <1>4, <1>5 DEF Types

-----------------------------------------------------------------------------
(* What the decoders have got.                                             *)

AllTo(f, s, t, c, b) ==
    /\ InOrder(s) /\ Range(s) \subseteq 1 .. b
    /\ Range(s) \cap (c + 1 .. b) = {p \in c + 1 .. b : f.track[p] = t}

LEMMA InOrderBehind ==
    ASSUME NEW s \in Seq(Nat), NEW from \in Nat, NEW to \in Nat, from <= to,
           InOrder(s), Range(s) \subseteq 1 .. from
    PROVE  /\ InOrder(s \o Positions(from, to))
           /\ Range(s \o Positions(from, to)) = Range(s) \cup (from + 1 .. to)
<1> DEFINE q == Positions(from, to)
           t == s \o q
           L == Len(s)
           n == to - from
<1>1. /\ t \in Seq(Nat) /\ Len(t) = L + n /\ L \in Nat /\ n \in Nat
      /\ \A i \in 1 .. L + n : t[i] = IF i <= L THEN s[i] ELSE q[i - L]
      /\ DOMAIN t = 1 .. L + n /\ DOMAIN s = 1 .. L
      /\ \A j \in 1 .. n : q[j] = from + j
  <2>1. q \in Seq(Nat) /\ Len(q) = n /\ \A j \in 1 .. n : q[j] = from + j
    BY PositionsAre
  <2> HIDE DEF q
  <2>2. /\ t \in Seq(Nat) /\ Len(t) = L + Len(q)
        /\ \A i \in 1 .. L + Len(q) : t[i] = IF i <= L THEN s[i] ELSE q[i - L]
    BY <2>1, ConcatProperties
  <2>3. DOMAIN t = 1 .. Len(t) /\ DOMAIN s = 1 .. L /\ L \in Nat
    BY <2>2, LenProperties
  <2>4. n \in Nat
    OBVIOUS
  <2>. QED BY <2>1, <2>2, <2>3, <2>4
<1>2. \A i \in 1 .. L : s[i] \in 1 .. from
  BY <1>1 DEF Range
<1> HIDE DEF q, t, L, n
<1>3. \A i \in 1 .. L : t[i] = s[i]
  <2>1. \A i \in 1 .. L : i \in 1 .. L + n /\ i <= L
    BY <1>1
  <2>. QED BY <1>1, <2>1
<1>4. \A j \in 1 .. n : t[L + j] = from + j
  <2>1. \A j \in 1 .. n : L + j \in 1 .. L + n /\ ~(L + j <= L) /\ L + j - L = j
    BY <1>1
  <2>2. \A j \in 1 .. n : t[L + j] = q[L + j - L]
    BY <1>1, <2>1
  <2>. QED BY <1>1, <2>1, <2>2
<1>5. \A i \in 1 .. L + n : i \in 1 .. L \/ \E j \in 1 .. n : i = L + j
  <2>1. \A i \in 1 .. L + n : i \in 1 .. L \/ (i - L \in 1 .. n /\ i = L + (i - L))
    BY <1>1
  <2>. QED BY <2>1
<1>6. ASSUME NEW i \in 1 .. L + n, NEW j \in 1 .. L + n, i < j PROVE t[i] < t[j]
  <2>1. CASE j \in 1 .. L
    <3>1. i \in 1 .. L
      BY <1>1, <1>6, <2>1
    <3>2. s[i] < s[j]
      BY <1>1, <1>6, <2>1, <3>1 DEF InOrder
    <3>. QED BY <1>3, <2>1, <3>1, <3>2
  <2>2. CASE i \in 1 .. L /\ \E k \in 1 .. n : j = L + k
    <3>1. PICK k \in 1 .. n : j = L + k
      BY <2>2
    <3>2. t[j] = from + k /\ t[i] \in 1 .. from
      BY <1>2, <1>3, <1>4, <2>2, <3>1
    <3>3. \A x \in 1 .. from : x < from + k
      BY <1>1
    <3>. QED BY <3>2, <3>3
  <2>3. CASE (\E k \in 1 .. n : i = L + k) /\ (\E k \in 1 .. n : j = L + k)
    <3>1. PICK k \in 1 .. n, m \in 1 .. n : i = L + k /\ j = L + m
      BY <2>3
    <3>2. t[i] = from + k /\ t[j] = from + m
      BY <1>4, <3>1
    <3>3. k < m
      BY <1>1, <1>6, <3>1
    <3>4. from + k < from + m
      BY <1>1, <3>3
    <3>. QED BY <3>2, <3>4
  <2>. QED BY <1>5, <1>6, <2>1, <2>2, <2>3
<1>7. InOrder(t)
  BY <1>1, <1>6 DEF InOrder
<1>8. Range(t) = Range(s) \cup (from + 1 .. to)
  <2>1. ASSUME NEW x \in Range(t) PROVE x \in Range(s) \cup (from + 1 .. to)
    <3>1. PICK i \in 1 .. L + n : x = t[i]
      BY <1>1, <2>1 DEF Range
    <3>2. CASE i \in 1 .. L
      BY <1>1, <1>3, <3>1, <3>2 DEF Range
    <3>3. CASE \E j \in 1 .. n : i = L + j
      <4>1. PICK j \in 1 .. n : i = L + j
        BY <3>3
      <4>2. x = from + j
        BY <1>4, <3>1, <4>1
      <4>3. from + j \in from + 1 .. to
        BY <1>1 DEF n
      <4>. QED BY <4>2, <4>3
    <3>. QED BY <1>5, <3>2, <3>3
  <2>2. ASSUME NEW x \in Range(s) PROVE x \in Range(t)
    <3>1. PICK i \in 1 .. L : x = s[i]
      BY <1>1, <2>2 DEF Range
    <3>2. i \in 1 .. L + n
      BY <1>1
    <3>. QED BY <1>1, <1>3, <3>1, <3>2 DEF Range
  <2>3. ASSUME NEW x \in from + 1 .. to PROVE x \in Range(t)
    <3>1. x - from \in 1 .. n /\ from + (x - from) = x /\ L + (x - from) \in 1 .. L + n
      BY <1>1, <2>3 DEF n
    <3>2. t[L + (x - from)] = from + (x - from)
      BY <1>4, <3>1
    <3>. QED BY <1>1, <3>1, <3>2 DEF Range
  <2>. QED BY <2>1, <2>2, <2>3
<1>. QED BY <1>7, <1>8 DEF t, q

\* Bytes of another track may lie before those that are given.
LEMMA GivenMore ==
    ASSUME NEW f, NEW s \in Seq(Nat), NEW t, NEW c \in Nat, NEW a \in Nat, NEW from \in Nat,
           NEW to \in Nat, AllTo(f, s, t, c, a), c <= a, a <= from, from <= to,
           \A i \in a + 1 .. from : f.track[i] # t,
           \A i \in from + 1 .. to : f.track[i] = t
    PROVE  AllTo(f, s \o Positions(from, to), t, c, to)
<1> DEFINE r == Range(s)
           g == Range(s \o Positions(from, to))
<1>1. r \subseteq 1 .. a /\ InOrder(s) /\ r \cap (c + 1 .. a) = {p \in c + 1 .. a : f.track[p] = t}
  BY DEF AllTo
<1>2. r \subseteq 1 .. from
  BY <1>1
<1>3. InOrder(s \o Positions(from, to)) /\ g = r \cup (from + 1 .. to)
  BY <1>1, <1>2, InOrderBehind
<1> HIDE DEF r, g
<1>4. \A p : p \in c + 1 .. to <=> p \in c + 1 .. a \/ p \in a + 1 .. from \/ p \in from + 1 .. to
  OBVIOUS
<1>5. \A p \in r : p \notin a + 1 .. from /\ p \notin from + 1 .. to
  BY <1>1
<1>6. \A p \in from + 1 .. to : p \notin c + 1 .. a /\ p \notin a + 1 .. from
  OBVIOUS
<1>7. \A p \in c + 1 .. to : p \in g <=> f.track[p] = t
  BY <1>1, <1>3, <1>4, <1>5, <1>6
<1>8. g \subseteq 1 .. to
  BY <1>2, <1>3
<1>9. g \cap (c + 1 .. to) = {p \in c + 1 .. to : f.track[p] = t}
  BY <1>7
<1>. QED BY <1>3, <1>8, <1>9 DEF AllTo, g

LEMMA GivenNone ==
    ASSUME NEW f, NEW s, NEW t, NEW c \in Nat, NEW a \in Nat, NEW b \in Nat,
           AllTo(f, s, t, c, a), c <= a, a <= b,
           \A i \in a + 1 .. b : f.track[i] # t
    PROVE  AllTo(f, s, t, c, b)
<1> DEFINE r == Range(s)
<1>1. r \subseteq 1 .. a /\ InOrder(s) /\ r \cap (c + 1 .. a) = {p \in c + 1 .. a : f.track[p] = t}
  BY DEF AllTo
<1> HIDE DEF r
<1>2. \A p : p \in c + 1 .. b <=> p \in c + 1 .. a \/ p \in a + 1 .. b
  OBVIOUS
<1>3. \A p \in r : p \notin a + 1 .. b
  BY <1>1
<1>4. r \cap (c + 1 .. b) = {p \in c + 1 .. b : f.track[p] = t}
  BY <1>1, <1>2, <1>3
<1>5. r \subseteq 1 .. b
  BY <1>1
<1>. QED BY <1>1, <1>4, <1>5 DEF AllTo, r

-----------------------------------------------------------------------------
(* The steps.                                                              *)

LEMMA SeenInBuffer ==
    ASSUME NEW f, Splits(f), NEW b \in f.start, NEW e \in Nat, b <= e, e <= Len(f.byte)
    PROVE  Seen(f, SubSeq(f.byte, b + 1, e), b)
<1> DEFINE h == SubSeq(f.byte, b + 1, e)
<1>1. f.byte \in Seq(Octets) /\ b \in Nat /\ Len(f.byte) \in Nat
  BY DEF Splits, Octets
<1>2. Len(h) = e - b /\ \A i \in 1 .. e - b : h[i] = f.byte[b + i]
  BY <1>1, Part
<1>3. b + (e - b) <= Len(f.byte)
  BY <1>1
<1> HIDE DEF h
<1>4. Seen(f, h, b)
  BY <1>2, <1>3 DEF Seen
<1>. QED BY <1>4 DEF h

LEMMA FileSplits ==
    ASSUME Types
    PROVE  /\ Splits(file) /\ file.byte \in Seq(Octets) /\ DOMAIN file.byte = 1 .. Len(file.byte)
           /\ Len(file.byte) \in Nat /\ file.start \subseteq 0 .. Len(file.byte)
           /\ buf \in Nat /\ end \in Nat /\ buf <= end /\ end <= Len(file.byte)
           /\ bytes \in Nat /\ state_bytes \in Nat
<1>1. Splits(file)
  BY FilmsAssumption DEF Types
<1>2. file.byte \in Seq(Octets)
  BY DEF Types, DemuxTypeOK, Octets
<1>. QED BY <1>1, <1>2 DEF Splits, Types, DemuxTypeOK

\* What demux knows at a header.
LEMMA HeaderSeen ==
    ASSUME Types, InStep, Synced, demuxPc = "header"
    PROVE  /\ Seen(file, header, HeadStart) /\ HeadStart \in Nat /\ HeadStart <= buf
           /\ inHead => buf = HeadStart + Len(header) /\ HeaderLen(header) >= Len(header)
           /\ ~inHead => buf = HeadStart /\ end = HeadStart + Len(header)
<1>1. /\ Seen(file, header, HeadStart) /\ (inHead => HeaderLen(header) >= bytes)
      /\ Len(header) = IF inHead THEN bytes ELSE end - buf
      /\ HeadStart = IF inHead THEN buf - bytes ELSE buf
  BY HeaderTyped DEF InStep, InHeader, HeadStart
<1>2. HeadStart \in Nat
  BY <1>1, FileSplits DEF Seen
<1>3. buf \in Nat /\ end \in Nat /\ bytes \in Nat /\ buf <= end
  BY FileSplits
<1>. QED BY <1>1, <1>2, <1>3

\* At a header that is there, or not yet.
LEMMA HeaderTracks ==
    ASSUME Types, InStep, Synced, demuxPc = "header"
    PROVE  /\ HeaderLen(header) > Len(header) =>
                \A i \in HeadStart + 1 .. HeadStart + Len(header) : file.track[i] = "none"
           /\ HeaderThere =>
                /\ DoneBytes = HeadStart + HeaderLen(header)
                /\ \A i \in HeadStart + 1 .. DoneBytes : file.track[i] = "none"
                /\ ~StartCode(header) => HeadStart + 1 \in file.start
                /\ HeaderOf({"pack"}) => DoneBytes \in file.start
                /\ HeaderOf({"audio", "video", "other"}) =>
                      SplitsPacket(file, HeadStart, DoneBytes, PayloadLen(header), Kind(header[4]))
<1> DEFINE H == HeaderLen(header)
           L == Len(header)
           p == HeadStart
<1>1. Splits(file) /\ header \in Seq(Octets) /\ Seen(file, header, p)
  BY FileSplits, HeaderTyped, HeaderSeen
<1>2. /\ H > L => \A i \in p + 1 .. p + L : file.track[i] = "none"
      /\ H <= L =>
           /\ \A i \in p + 1 .. p + H : file.track[i] = "none"
           /\ ~StartCode(header) => p + 1 \in file.start
           /\ StartCode(header) /\ Kind(header[4]) = "pack" => p + H \in file.start
           /\ StartCode(header) /\ Kind(header[4]) \in {"audio", "video", "other"} =>
                 SplitsPacket(file, p, p + H, PayloadLen(header), Kind(header[4]))
  BY <1>1, HeaderSplits
<1>3. HeaderThere => DoneBytes = p + H
  <2> SUFFICES ASSUME HeaderThere PROVE DoneBytes = p + H
    OBVIOUS
  <2>1. H \in Nat /\ L \in Nat /\ H <= L
    <3>1. H \in 4 .. 264 /\ H <= L
      BY DoneTyped DEF HeaderThere
    <3>2. L \in Nat
      BY <1>1
    <3> HIDE DEF H, L
    <3>. QED BY <3>1, <3>2
  <2>2. CASE inHead
    <3>1. buf = p + L /\ H >= L /\ DoneBytes = buf
      BY <2>2, HeaderSeen DEF DoneBytes
    <3>2. H = L
      <4> HIDE DEF H, L, p
      <4>. QED BY <2>1, <3>1
    <3>. QED BY <3>1, <3>2
  <2>3. CASE ~inHead
    BY <2>3, HeaderSeen DEF DoneBytes
  <2>. QED BY <2>2, <2>3
<1>. QED BY <1>2, <1>3 DEF HeaderThere, HeaderOf

\* Behind a packet, or a pack header, the next begins.
LEMMA NextHeader ==
    ASSUME Types, Types', UNCHANGED <<fileVars, loopVars>>, demuxPc' = "header", inHead' = FALSE,
           buf' \in file.start
    PROVE  KeepsHeader' /\ KeepsCount' /\ InHeader' /\ AtEnd'
<1>1. file' = file /\ end' = end
  BY DEF fileVars, loopVars
<1>2. Seen(file, SubSeq(file.byte, buf' + 1, end), buf')
  <2>1. buf' <= end /\ end \in Nat /\ end <= Len(file.byte) /\ Splits(file)
    BY <1>1, FileSplits DEF Types, DemuxTypeOK
  <2>. QED BY <2>1, SeenInBuffer
<1>3. header' = SubSeq(file.byte, buf' + 1, end) /\ HeadStart' = buf'
  BY <1>1 DEF header, HeadStart
<1>4. Seen(file, header, HeadStart)'
  BY <1>1, <1>2, <1>3 DEF Seen
<1>. QED BY <1>4 DEF KeepsHeader, KeepsCount, InHeader, AtEnd, Between

LEMMA PacketKept ==
    ASSUME Types, Types', InStep, Synced, HeaderOf({"audio", "video", "other"}),
           UNCHANGED <<fileVars, loopVars, head_buf, bytes>>,
           NEW st \in {"DATA", "SKIP", "MPA_DATA"}, TrackOf(st) = Track(Kind(header[4])),
           CutPayload(st) \/ WholePayload
    PROVE  /\ KeepsHeader' /\ KeepsCount' /\ InHeader' /\ AtEnd'
           /\ DoneBytes <= buf' /\ buf' = (IF Cut THEN end ELSE PayloadEnd)
           /\ \A i \in DoneBytes + 1 .. buf' : file.track[i] = Track(Kind(header[4]))
           /\ WholePayload =>
                \A i \in DOMAIN file.byte :
                    file.packet[i] = file.packet[DoneBytes] <=> i \in HeadStart + 1 .. buf'
<1> DEFINE D == DoneBytes
           P == PayloadLen(header)
           N == Len(file.byte)
           k == Kind(header[4])
           packetEnd == IF P > 0 THEN D + P ELSE D
<1>1. demuxPc = "header" /\ HeaderThere
  BY DEF HeaderOf, HeaderThere
<1>2. /\ D \in Nat /\ D <= end /\ end \in Nat /\ end <= N /\ N \in Nat
      /\ DOMAIN file.byte = 1 .. N
  BY <1>1, DoneTyped, FileSplits
<1>3. P \in Int /\ (Cut <=> P > end - D) /\ PayloadEnd = packetEnd
  BY PayloadTyped DEF Cut, PayloadEnd
<1>4. /\ packetEnd <= N => packetEnd \in file.start
      /\ \A i \in D + 1 .. packetEnd : i \in DOMAIN file.byte => file.track[i] = Track(k)
      /\ \A i \in DOMAIN file.byte :
            file.packet[i] = file.packet[D] <=> i \in HeadStart + 1 .. packetEnd
  BY <1>1, HeaderTracks, Zenon DEF SplitsPacket
<1>5. /\ HeadStart \in Nat /\ D >= HeadStart + 4 /\ D = HeadStart + HeaderLen(header)
  <2>1. HeadStart \in Nat /\ D = HeadStart + HeaderLen(header) /\ HeaderLen(header) \in 4 .. 264
    BY <1>1, HeaderSeen, HeaderTracks, DoneTyped
  <2>2. \A n \in 4 .. 264 : \A s \in Nat : s + n >= s + 4
    OBVIOUS
  <2>. QED BY <2>1, <2>2
<1>6. file' = file /\ end' = end
  BY DEF fileVars, loopVars
<1>7. packetEnd \in Int /\ packetEnd >= D
  <2> HIDE DEF P, D
  <2>. QED BY <1>2, <1>3
<1>8. CASE CutPayload(st)
  <2> DEFINE n == P - (end - D)
  <2>1. /\ Cut /\ state' = st /\ state_bytes' = n
        /\ demuxPc' = "while" /\ buf' = end
    BY <1>8 DEF CutPayload, Return0
  <2>2. P > 0 /\ packetEnd = end + n /\ n \in Nat \ {0} /\ packetEnd = D + P
    <3> HIDE DEF P, D
    <3>. QED BY <1>2, <1>3, <2>1
  <2>3. end > 0 /\ end \in DOMAIN file.byte /\ end \in HeadStart + 1 .. packetEnd /\ D >= HeadStart
    <3> HIDE DEF P, D, packetEnd, N, n
    <3>. QED BY <1>2, <1>5, <2>2
  <2>4. file.packet[end] = file.packet[D]
    BY <1>4, <2>3
  <2>5. Owed(file, st, end, n)
    <3>1. end + n <= N => end + n \in file.start
      BY <1>4, <2>2
    <3>2. \A i \in end + 1 .. end + n : i \in DOMAIN file.byte => file.track[i] = TrackOf(st)
      <4>1. \A i \in end + 1 .. end + n : i \in D + 1 .. packetEnd
        <5> HIDE DEF P, D, packetEnd, n
        <5>. QED BY <1>2, <2>2
      <4>. QED BY <1>4, <4>1
    <3>3. \A i \in DOMAIN file.byte :
              i > end => (file.packet[i] = file.packet[end] <=> i <= end + n)
      <4>1. \A i \in DOMAIN file.byte : i > end => (i \in HeadStart + 1 .. packetEnd <=> i <= end + n)
        <5> HIDE DEF P, D, packetEnd, n, N
        <5>. QED BY <1>2, <1>5, <2>2, <2>3
      <4>. QED BY <1>4, <2>4, <4>1
    <3>. QED BY <2>3, <3>1, <3>2, <3>3 DEF Owed
  <2>6. KeepsHeader' /\ KeepsCount' /\ InHeader' /\ AtEnd'
    <3>1. state_bytes' > 0
      <4> HIDE DEF n
      <4>. QED BY <2>1, <2>2
    <3>2. Owed(file, state, buf, state_bytes)'
      BY <1>6, <2>1, <2>5 DEF Owed
    <3>. QED BY <1>6, <2>1, <3>1, <3>2 DEF KeepsHeader, KeepsCount, InHeader, AtEnd
  <2>7. \A i \in D + 1 .. end : i \in D + 1 .. packetEnd /\ i \in DOMAIN file.byte
    <3> HIDE DEF P, D, packetEnd, N, n
    <3>. QED BY <1>2, <2>2
  <2>8. ~WholePayload
    BY <2>1 DEF WholePayload
  <2>. QED BY <1>2, <1>4, <2>1, <2>6, <2>7, <2>8
<1>9. CASE WholePayload
  <2>1. ~Cut /\ demuxPc' = "header" /\ inHead' = FALSE /\ buf' = packetEnd
    BY <1>3, <1>9 DEF WholePayload, GoOn
  <2>2. packetEnd <= N
    <3> HIDE DEF P, D, N
    <3>. QED BY <1>2, <1>3, <2>1
  <2>3. buf' \in file.start
    BY <1>4, <2>1, <2>2
  <2>4. KeepsHeader' /\ KeepsCount' /\ InHeader' /\ AtEnd'
    BY <2>1, <2>3, NextHeader
  <2>5. \A i \in D + 1 .. packetEnd : i \in DOMAIN file.byte
    <3> HIDE DEF P, D, N, packetEnd
    <3>. QED BY <1>2, <1>7, <2>2
  <2>. QED BY <1>3, <1>4, <1>7, <2>1, <2>4, <2>5
<1>. QED BY <1>8, <1>9

\* What the decoders have got when demux moves on: nothing of theirs passed by ...
LEMMA NoMore ==
    ASSUME Types, Forward, InStep, Synced, since' = since,
           Between \/ demuxPc = "header",
           file' = file, player' = player, UNCHANGED out, buf' \in Nat, buf <= buf',
           \A i \in buf + 1 .. buf' :
               file.track[i] # "video" /\ (player = "mpeg" => file.track[i] # "audio")
    PROVE  Given' /\ GivenWhole'
<1>1. buf \in Nat /\ since \in Nat /\ since <= buf /\ video' = video /\ audio' = audio
  BY FileSplits DEF out, Forward, Synced
<1>2. AllTo(file, video, "video", since, buf')
  <2>1. AllTo(file, video, "video", since, buf)
    BY DEF InStep, Given, AllOf, AllTo, Forward
  <2>. QED BY <1>1, <2>1, GivenNone
<1>3. player = "mpeg" => AllTo(file, audio, "audio", since, buf')
  <2>1. player = "mpeg" => AllTo(file, audio, "audio", since, buf)
    BY DEF InStep, Given, AllOf, AllTo, Forward
  <2>. QED BY <1>1, <2>1, GivenNone
<1>4. Given'
  BY <1>1, <1>2, <1>3 DEF Given, AllOf, AllTo
<1>5. GivenWhole'
  <2>1. 1 .. buf \subseteq 1 .. buf'
    BY <1>1
  <2>. QED BY <1>1, <2>1 DEF InStep, GivenWhole, InOrder, Range
<1>. QED BY <1>4, <1>5

\* ... or video ...
LEMMA MoreVideo ==
    ASSUME Types, Forward, InStep, Synced, since' = since,
           Between \/ demuxPc = "header",
           file' = file, player' = player, NEW from \in Nat, buf <= from,
           buf' \in Nat, from <= buf', ToVideo(from, buf'),
           \A i \in buf + 1 .. from : file.track[i] = "none",
           \A i \in from + 1 .. buf' : file.track[i] = "video"
    PROVE  Given' /\ GivenWhole'
<1>1. buf \in Nat /\ since \in Nat /\ since <= buf /\ video' = video \o Positions(from, buf') /\ audio' = audio
      /\ video \in Seq(Nat)
  BY FileSplits DEF ToVideo, Types, Forward, Synced
<1>2. AllTo(file, video', "video", since, buf')
  <2>1. AllTo(file, video, "video", since, buf)
    BY DEF InStep, Given, AllOf, AllTo, Forward
  <2>2. \A i \in buf + 1 .. from : file.track[i] # "video"
    OBVIOUS
  <2>. QED BY <1>1, <2>1, <2>2, GivenMore
<1>3. player = "mpeg" => AllTo(file, audio, "audio", since, buf')
  <2>1. player = "mpeg" => AllTo(file, audio, "audio", since, buf)
    BY DEF InStep, Given, AllOf, AllTo, Forward
  <2>2. \A i \in buf + 1 .. buf' : i \in buf + 1 .. from \/ i \in from + 1 .. buf'
    BY <1>1
  <2>3. \A i \in buf + 1 .. buf' : file.track[i] # "audio"
    BY <2>2
  <2>4. buf <= buf'
    BY <1>1
  <2>. QED BY <1>1, <2>1, <2>3, <2>4, GivenNone
<1>4. Given'
  BY <1>1, <1>2, <1>3 DEF Given, AllOf, AllTo
<1>5. GivenWhole'
  <2>1. 1 .. buf \subseteq 1 .. buf'
    BY <1>1
  <2>. QED BY <1>1, <2>1 DEF InStep, GivenWhole, InOrder, Range
<1>. QED BY <1>4, <1>5

\* ... or sound, in an MPEG file.
LEMMA MoreAudio ==
    ASSUME Types, Forward, InStep, Synced, since' = since,
           Between \/ demuxPc = "header",
           file' = file, player' = player, player = "mpeg", NEW from \in Nat, buf <= from,
           buf' \in Nat, from <= buf', ToAudio(from, buf'),
           \A i \in buf + 1 .. from : file.track[i] = "none",
           \A i \in from + 1 .. buf' : file.track[i] = "audio"
    PROVE  Given' /\ GivenWhole'
<1>1. buf \in Nat /\ since \in Nat /\ since <= buf /\ audio' = audio \o Positions(from, buf') /\ video' = video
      /\ audio \in Seq(Nat)
  BY FileSplits DEF ToAudio, Types, Forward, Synced
<1>2. AllTo(file, audio', "audio", since, buf')
  <2>1. AllTo(file, audio, "audio", since, buf)
    BY DEF InStep, Given, AllOf, AllTo, Forward
  <2>2. \A i \in buf + 1 .. from : file.track[i] # "audio"
    OBVIOUS
  <2>. QED BY <1>1, <2>1, <2>2, GivenMore
<1>3. AllTo(file, video, "video", since, buf')
  <2>1. AllTo(file, video, "video", since, buf)
    BY DEF InStep, Given, AllOf, AllTo, Forward
  <2>2. \A i \in buf + 1 .. buf' : i \in buf + 1 .. from \/ i \in from + 1 .. buf'
    BY <1>1
  <2>3. \A i \in buf + 1 .. buf' : file.track[i] # "video"
    BY <2>2
  <2>4. buf <= buf'
    BY <1>1
  <2>. QED BY <1>1, <2>1, <2>3, <2>4, GivenNone
<1>4. Given'
  BY <1>1, <1>2, <1>3 DEF Given, AllOf, AllTo
<1>. QED BY <1>4 DEF GivenWhole

\* A Sofdec player's packet of sound comes whole.
LEMMA MoreWhole ==
    ASSUME Types, Forward, InStep, Synced, since' = since,
           player = "sofdec", Between \/ demuxPc = "header",
           file' = file, player' = player, NEW from \in Nat, NEW first \in Nat,
           first <= buf, buf <= from, from \in DOMAIN file.byte,
           buf' \in Nat, from <= buf', buf' <= Len(file.byte), ToAudio(from, buf'),
           \A i \in first + 1 .. from : file.track[i] = "none",
           \A i \in from + 1 .. buf' : file.track[i] = "audio",
           \A i \in DOMAIN file.byte :
               file.packet[i] = file.packet[from] <=> i \in first + 1 .. buf'
    PROVE  Given' /\ GivenWhole'
<1>1. buf \in Nat /\ since \in Nat /\ since <= buf /\ audio' = audio \o Positions(from, buf') /\ video' = video
      /\ audio \in Seq(Nat) /\ DOMAIN file.byte = 1 .. Len(file.byte) /\ Len(file.byte) \in Nat
  BY FileSplits DEF ToAudio, Types, Forward, Synced
<1>2. Given'
  <2>1. AllTo(file, video, "video", since, buf)
    BY DEF InStep, Given, AllOf, AllTo, Forward
  <2>2. \A i \in buf + 1 .. buf' : i \in first + 1 .. from \/ i \in from + 1 .. buf'
    BY <1>1
  <2>3. \A i \in buf + 1 .. buf' : file.track[i] # "video"
    BY <2>2
  <2>4. buf <= buf'
    BY <1>1
  <2>5. AllTo(file, video, "video", since, buf')
    BY <1>1, <2>1, <2>3, <2>4, GivenNone
  <2>. QED BY <1>1, <2>5 DEF Given, AllOf, AllTo
<1>3. InOrder(audio) /\ Range(audio) \subseteq 1 .. buf /\ Range(audio) \subseteq 1 .. from
  <2>1. 1 .. buf \subseteq 1 .. from
    BY <1>1
  <2>. QED BY <2>1 DEF InStep, GivenWhole
<1>4. InOrder(audio') /\ Range(audio') = Range(audio) \cup (from + 1 .. buf')
  BY <1>1, <1>3, InOrderBehind
<1>5. Range(audio') \subseteq 1 .. buf'
  <2>1. 1 .. buf \subseteq 1 .. buf' /\ from + 1 .. buf' \subseteq 1 .. buf'
    BY <1>1
  <2>. QED BY <1>3, <1>4, <2>1
<1>6. ASSUME NEW a \in Range(audio'), a > since, NEW p \in DOMAIN file.byte,
             file.packet[p] = file.packet[a], file.track[p] = "audio"
      PROVE  p \in Range(audio')
  <2>1. CASE a \in Range(audio)
    <3>1. PICK i \in DOMAIN audio : a = audio[i]
      BY <2>1 DEF Range
    <3>. QED BY <1>4, <1>6, <3>1 DEF InStep, GivenWhole
  <2>2. CASE a \in from + 1 .. buf'
    <3>1. PICK q \in from + 1 .. buf' : q = a
      BY <2>2
    <3>2. q \in DOMAIN file.byte /\ q \in first + 1 .. buf'
      BY <1>1
    <3>3. file.packet[p] = file.packet[from]
      BY <1>6, <3>1, <3>2
    <3>4. p \in first + 1 .. buf'
      BY <3>3
    <3>5. p \in first + 1 .. from \/ p \in from + 1 .. buf'
      BY <1>1, <3>4
    <3>6. p \in from + 1 .. buf'
      BY <1>6, <3>5
    <3>. QED BY <1>4, <3>6
  <2>. QED BY <1>4, <2>1, <2>2
<1>7. \A i \in DOMAIN audio', p \in DOMAIN file.byte :
          audio'[i] > since /\ file.packet[p] = file.packet[audio'[i]] /\ file.track[p] = "audio"
              => p \in Range(audio')
  BY <1>6 DEF Range
<1>. QED BY <1>1, <1>2, <1>4, <1>5, <1>7 DEF GivenWhole

LEMMA PacketsInStep ==
    ASSUME Types, Types', Forward, InStep, Synced, since' = since,
           VideoPacket \/ MpegAudioPacket \/ SofdecAudioPacket \/ OtherPacket
    PROVE  InStep'
<1>1. /\ HeaderOf({"audio", "video", "other"}) /\ HeaderThere /\ demuxPc = "header"
      /\ UNCHANGED <<fileVars, loopVars, head_buf, bytes>>
  BY DEF VideoPacket, MpegAudioPacket, SofdecAudioPacket, OtherPacket, HeaderOf, HeaderThere
<1>2. /\ player' = player /\ file' = file
      /\ DoneBytes \in Nat /\ buf \in Nat /\ buf <= DoneBytes /\ buf' \in Nat /\ buf' <= Len(file.byte)
      /\ DOMAIN file.byte = 1 .. Len(file.byte)
  BY <1>1, DoneTyped, FileSplits DEF fileVars, Types, DemuxTypeOK
<1>3. HeadStart \in Nat /\ HeadStart <= buf
      /\ \A i \in HeadStart + 1 .. DoneBytes : file.track[i] = "none"
  BY <1>1, HeaderSeen, HeaderTracks
<1>4. \A i \in buf + 1 .. DoneBytes : file.track[i] = "none"
  <2>1. \A i \in buf + 1 .. DoneBytes : i \in HeadStart + 1 .. DoneBytes
    BY <1>2, <1>3
  <2>. QED BY <1>3, <2>1
\* The kept state, and the tracks of what has been passed, for each kind.
<1>5. ASSUME NEW st \in {"DATA", "SKIP", "MPA_DATA"}, TrackOf(st) = Track(Kind(header[4])),
             CutPayload(st) \/ WholePayload
      PROVE  /\ KeepsHeader' /\ KeepsCount' /\ InHeader' /\ AtEnd'
             /\ DoneBytes <= buf' /\ buf' = (IF Cut THEN end ELSE PayloadEnd)
             /\ \A i \in DoneBytes + 1 .. buf' : file.track[i] = Track(Kind(header[4]))
             /\ WholePayload =>
                  \A i \in DOMAIN file.byte :
                      file.packet[i] = file.packet[DoneBytes] <=> i \in HeadStart + 1 .. buf'
  BY <1>1, <1>5, PacketKept, Zenon
<1>6. \A i \in buf + 1 .. buf' : i \in buf + 1 .. DoneBytes \/ i \in DoneBytes + 1 .. buf'
  BY <1>2
<1>7. CASE VideoPacket
  <2>1. Kind(header[4]) = "video" /\ TrackOf("DATA") = "video" /\ Track("video") = "video"
    BY <1>7 DEF VideoPacket, HeaderOf, TrackOf, Track
  <2>2. \/ CutPayload("DATA") /\ ToVideo(DoneBytes, end)
        \/ WholePayload /\ ToVideo(DoneBytes, PayloadEnd)
    BY <1>7 DEF VideoPacket
  <2>3. /\ KeepsHeader' /\ KeepsCount' /\ InHeader' /\ AtEnd'
        /\ DoneBytes <= buf' /\ buf' = (IF Cut THEN end ELSE PayloadEnd)
        /\ \A i \in DoneBytes + 1 .. buf' : file.track[i] = "video"
    BY <1>5, <2>1, <2>2
  <2>4. ToVideo(DoneBytes, buf')
    BY <2>2, <2>3 DEF CutPayload, WholePayload
  <2>5. Given' /\ GivenWhole'
    BY <1>1, <1>2, <1>4, <2>3, <2>4, MoreVideo
  <2>. QED BY <2>3, <2>5 DEF InStep
<1>8. CASE MpegAudioPacket
  <2>1. Kind(header[4]) = "audio" /\ TrackOf("MPA_DATA") = "audio" /\ Track("audio") = "audio"
        /\ player = "mpeg"
    BY <1>8 DEF MpegAudioPacket, HeaderOf, TrackOf, Track
  <2>2. \/ CutPayload("MPA_DATA") /\ ToAudio(DoneBytes, end)
        \/ WholePayload /\ ToAudio(DoneBytes, PayloadEnd)
    BY <1>8 DEF MpegAudioPacket
  <2>3. /\ KeepsHeader' /\ KeepsCount' /\ InHeader' /\ AtEnd'
        /\ DoneBytes <= buf' /\ buf' = (IF Cut THEN end ELSE PayloadEnd)
        /\ \A i \in DoneBytes + 1 .. buf' : file.track[i] = "audio"
    BY <1>5, <2>1, <2>2
  <2>4. ToAudio(DoneBytes, buf')
    BY <2>2, <2>3 DEF CutPayload, WholePayload
  <2>5. Given' /\ GivenWhole'
    BY <1>1, <1>2, <1>4, <2>1, <2>3, <2>4, MoreAudio
  <2>. QED BY <2>3, <2>5 DEF InStep
<1>9. CASE SofdecAudioPacket
  <2>1. Kind(header[4]) = "audio" /\ TrackOf("MPA_DATA") = "audio" /\ Track("audio") = "audio"
        /\ player = "sofdec"
    BY <1>9 DEF SofdecAudioPacket, HeaderOf, TrackOf, Track
  <2>2. \/ CutPayload("MPA_DATA") /\ UNCHANGED out
        \/ WholePayload /\ ToAudio(DoneBytes, PayloadEnd)
    BY <1>9 DEF SofdecAudioPacket
  <2>3. /\ KeepsHeader' /\ KeepsCount' /\ InHeader' /\ AtEnd'
        /\ DoneBytes <= buf' /\ buf' = (IF Cut THEN end ELSE PayloadEnd)
        /\ \A i \in DoneBytes + 1 .. buf' : file.track[i] = "audio"
        /\ WholePayload =>
             \A i \in DOMAIN file.byte :
                 file.packet[i] = file.packet[DoneBytes] <=> i \in HeadStart + 1 .. buf'
    BY <1>5, <2>1, <2>2
  <2>4. CASE UNCHANGED out
    <3>1. \A i \in buf + 1 .. buf' : file.track[i] # "video"
      BY <1>4, <1>6, <2>3
    <3>2. buf <= buf'
      BY <1>2, <2>3
    <3>3. Given' /\ GivenWhole'
      BY <1>1, <1>2, <2>1, <2>4, <3>1, <3>2, NoMore
    <3>. QED BY <2>3, <3>3 DEF InStep
  <2>5. CASE WholePayload /\ ToAudio(DoneBytes, PayloadEnd)
    <3>1. ToAudio(DoneBytes, buf')
      BY <2>3, <2>5 DEF WholePayload
    <3>2. DoneBytes \in DOMAIN file.byte
      <4>1. DoneBytes = HeadStart + HeaderLen(header) /\ HeaderLen(header) \in 4 .. 264
        BY <1>1, DoneTyped, HeaderTracks
      <4>2. \A n \in 4 .. 264 : \A s \in Nat : s + n >= 1
        OBVIOUS
      <4>3. DoneBytes >= 1
        BY <1>3, <4>1, <4>2
      <4>4. Len(file.byte) \in Nat
        BY FileSplits
      <4>. QED BY <1>2, <2>3, <4>3, <4>4
    <3>3. Given' /\ GivenWhole'
      BY <1>1, <1>2, <1>3, <2>1, <2>3, <2>5, <3>1, <3>2, MoreWhole
    <3>. QED BY <2>3, <3>3 DEF InStep
  <2>. QED BY <2>2, <2>4, <2>5
<1>10. CASE OtherPacket
  <2>1. Kind(header[4]) = "other" /\ TrackOf("SKIP") = "none" /\ Track("other") = "none"
    BY <1>10 DEF OtherPacket, HeaderOf, TrackOf, Track
  <2>2. (CutPayload("SKIP") \/ WholePayload) /\ UNCHANGED out
    BY <1>10 DEF OtherPacket
  <2>3. /\ KeepsHeader' /\ KeepsCount' /\ InHeader' /\ AtEnd' /\ DoneBytes <= buf'
        /\ \A i \in DoneBytes + 1 .. buf' : file.track[i] = "none"
    BY <1>5, <2>1, <2>2
  <2>4. \A i \in buf + 1 .. buf' : file.track[i] = "none"
    BY <1>4, <1>6, <2>3
  <2>5. buf <= buf'
    BY <1>2, <2>3
  <2>6. Given' /\ GivenWhole'
    BY <1>1, <1>2, <2>2, <2>4, <2>5, NoMore
  <2>. QED BY <2>3, <2>6 DEF InStep
<1>. QED BY <1>7, <1>8, <1>9, <1>10

LEMMA PackInStep ==
    ASSUME Types, Types', Forward, InStep, Synced, since' = since, Pack
    PROVE  InStep'
<1>1. /\ HeaderThere /\ demuxPc = "header" /\ HeaderOf({"pack"})
      /\ UNCHANGED <<fileVars, loopVars, kept, bytes, out>>
      /\ demuxPc' = "header" /\ inHead' = FALSE /\ buf' = DoneBytes
  BY DEF Pack, HeaderOf, HeaderThere, GoOn
<1>2. /\ player' = player /\ file' = file
      /\ DoneBytes \in Nat /\ buf \in Nat /\ buf <= DoneBytes
  BY <1>1, DoneTyped, FileSplits DEF fileVars
<1>3. HeadStart \in Nat /\ HeadStart <= buf /\ DoneBytes \in file.start
      /\ \A i \in HeadStart + 1 .. DoneBytes : file.track[i] = "none"
  BY <1>1, HeaderSeen, HeaderTracks
<1>4. \A i \in buf + 1 .. DoneBytes : file.track[i] = "none"
  <2>1. \A i \in buf + 1 .. DoneBytes : i \in HeadStart + 1 .. DoneBytes
    BY <1>2, <1>3
  <2>. QED BY <1>3, <2>1
<1>5. KeepsHeader' /\ KeepsCount' /\ InHeader' /\ AtEnd'
  BY <1>1, <1>3, NextHeader
<1>6. Given' /\ GivenWhole'
  BY <1>1, <1>2, <1>4, NoMore
<1>. QED BY <1>5, <1>6 DEF InStep

\* All bytes of a header that is not longer than what was taken for one are no payload.
LEMMA HeaderOnly ==
    ASSUME NEW f, Splits(f), NEW h \in Seq(Octets), NEW p, Seen(f, h, p), HeaderLen(h) >= Len(h)
    PROVE  \A i \in p + 1 .. p + Len(h) : f.track[i] = "none"
<1> DEFINE H == HeaderLen(h)
           L == Len(h)
<1>1. /\ H > L => \A i \in p + 1 .. p + L : f.track[i] = "none"
      /\ H <= L => \A i \in p + 1 .. p + H : f.track[i] = "none"
  BY HeaderSplits
<1>2. H > L \/ H = L
  <2>1. H \in 4 .. 264 /\ L \in Nat /\ H >= L
    BY HeaderLenBounds
  <2> HIDE DEF H, L
  <2>. QED BY <2>1
<1>3. H = L => H <= L
  <2>1. L \in Nat
    OBVIOUS
  <2> HIDE DEF H, L
  <2>. QED BY <2>1
<1>. QED BY <1>1, <1>2, <1>3

\* n bytes of the buffer complete a header, or as much as there is of it.
More(f, h, p, b, n, g) ==
    /\ Splits(f) /\ h \in Seq(Octets) /\ Seen(f, h, p) /\ b = p + Len(h)
    /\ n \in Nat /\ b + n <= Len(f.byte) /\ HeaderLen(h) >= Len(h) + n
    /\ g = h \o SubSeq(f.byte, b + 1, b + n)

\* A header that is continued with the next bytes of the file is seen still.
LEMMA MoreHeader ==
    ASSUME NEW f, NEW h, NEW p, NEW b, NEW n, NEW g, More(f, h, p, b, n, g)
    PROVE  /\ g \in Seq(Octets) /\ Len(g) = Len(h) + n /\ SubSeq(g, 1, Len(g)) = g
           /\ Seen(f, g, p)
           /\ HeaderLen(h) > Len(h) => HeaderLen(g) >= HeaderLen(h)
           /\ HeaderLen(h) > Len(h) => \A i \in b + 1 .. b + n : f.track[i] = "none"
<1> DEFINE L == Len(h)
           N == Len(f.byte)
           q == SubSeq(f.byte, b + 1, b + n)
           H == HeaderLen(h)
           G == HeaderLen(g)
<1>0. /\ Splits(f) /\ h \in Seq(Octets) /\ Seen(f, h, p) /\ b = p + L
      /\ n \in Nat /\ b + n <= N /\ H >= L + n /\ g = h \o q
  BY DEF More
<1>1. f.byte \in Seq(Octets) /\ p \in Nat /\ N \in Nat /\ L \in Nat
  BY <1>0 DEF Splits, Seen, Octets
<1>2. b \in Nat /\ b + n \in Nat /\ b <= b + n /\ (b + n) - b = n
  BY <1>0, <1>1
<1>3. q \in Seq(Octets) /\ Len(q) = n /\ \A i \in 1 .. n : q[i] = f.byte[b + i]
  BY <1>0, <1>1, <1>2, Part
<1>4. /\ g \in Seq(Octets) /\ Len(g) = L + n
      /\ \A i \in 1 .. L + n : g[i] = IF i <= L THEN h[i] ELSE q[i - L]
  <2>1. g = h \o q
    BY <1>0
  <2>2. /\ g \in Seq(Octets) /\ Len(g) = L + Len(q)
        /\ \A i \in 1 .. L + Len(q) : g[i] = IF i <= L THEN h[i] ELSE q[i - L]
    <3>1. q \in Seq(Octets)
      BY <1>3
    <3>2. /\ h \o q \in Seq(Octets) /\ Len(h \o q) = L + Len(q)
          /\ \A i \in 1 .. L + Len(q) : (h \o q)[i] = IF i <= L THEN h[i] ELSE q[i - L]
      <4> HIDE DEF q
      <4>. QED BY <1>0, <3>1, ConcatProperties
    <3> HIDE DEF q, L
    <3>. QED BY <2>1, <3>2
  <2> HIDE DEF q, L
  <2>. QED BY <1>3, <2>2
<1>5. SubSeq(g, 1, Len(g)) = g
  BY <1>4, SubSeqFull
<1>6. \A i \in 1 .. L + n : g[i] = f.byte[p + i]
  <2> SUFFICES ASSUME NEW i \in 1 .. L + n PROVE g[i] = f.byte[p + i]
    OBVIOUS
  <2>1. CASE i <= L
    <3>1. i \in 1 .. L
      BY <1>0, <1>1, <2>1
    <3>. QED BY <1>0, <1>4, <2>1, <3>1 DEF Seen
  <2>2. CASE ~(i <= L)
    <3>1. i - L \in 1 .. n /\ b + (i - L) = p + i
      BY <1>0, <1>1, <2>2
    <3>2. g[i] = q[i - L]
      BY <1>4, <2>2
    <3>. QED BY <1>3, <3>1, <3>2
  <2>. QED BY <2>1, <2>2
<1>7. Seen(f, g, p)
  <2>1. p + (L + n) <= N /\ p \in f.start
    BY <1>0, <1>1 DEF Seen
  <2>. QED BY <1>4, <1>6, <2>1 DEF Seen
<1>8. Begins(h, g)
  <2>1. L <= L + n /\ \A i \in 1 .. L : i \in 1 .. L + n /\ i <= L
    BY <1>0, <1>1
  <2>. QED BY <1>0, <1>4, <2>1 DEF Begins
<1>9. Firm(H, G, L) /\ H \in 4 .. 264 /\ G \in 4 .. 264
  BY <1>0, <1>4, <1>8, HeaderLenFirm, HeaderLenBounds
<1>10. H > L => G >= H /\ G >= Len(g)
  <2>1. H >= L + n
    BY <1>0
  <2>2. H > L => G >= H /\ G >= L + n
    <3> HIDE DEF H, G, L
    <3>. QED BY <1>0, <1>1, <1>9, <2>1 DEF Firm
  <2>. QED BY <1>4, <2>2
<1>11. H > L => \A i \in b + 1 .. b + n : f.track[i] = "none"
  <2>1. G >= Len(g) => \A i \in p + 1 .. p + Len(g) : f.track[i] = "none"
    <3> SUFFICES ASSUME HeaderLen(g) >= Len(g)
                 PROVE  \A i \in p + 1 .. p + Len(g) : f.track[i] = "none"
      OBVIOUS
    <3>1. g \in Seq(Octets)
      BY <1>4
    <3>. QED BY <1>0, <1>7, <3>1, HeaderOnly
  <2>2. \A i \in b + 1 .. b + n : i \in p + 1 .. p + (L + n)
    BY <1>0, <1>1
  <2>. QED BY <1>4, <1>10, <2>1, <2>2
<1>. QED BY <1>4, <1>5, <1>7, <1>10, <1>11

LEMMA NeedBytesInStep ==
    ASSUME Types, Types', Forward, InStep, Synced, since' = since, NeedBytes
    PROVE  InStep'
<1> DEFINE H == HeaderLen(header)
           L == Len(header)
           missing == H - bytes
<1>1. /\ player' = player /\ file' = file /\ end' = end
      /\ UNCHANGED out /\ demuxPc = "header" /\ H > L
  BY DEF NeedBytes, fileVars, loopVars
<1>2. /\ Splits(file) /\ header \in Seq(Octets) /\ Seen(file, header, HeadStart)
      /\ HeadStart \in Nat /\ HeadStart <= buf
      /\ inHead => buf = HeadStart + L /\ L = bytes
      /\ ~inHead => buf = HeadStart /\ end = HeadStart + L
  BY <1>1, FileSplits, HeaderTyped, HeaderSeen
<1>3. /\ buf \in Nat /\ end \in Nat /\ bytes \in Nat /\ buf <= end /\ end <= Len(file.byte)
      /\ Len(file.byte) \in Nat /\ L \in Nat
  BY <1>2, FileSplits
<1>4. H \in 4 .. 264
  BY <1>2, HeaderLenBounds
<1>5. \/ /\ inHead /\ missing <= end - buf
         /\ head_buf' = header \o SubSeq(file.byte, buf + 1, buf + missing)
         /\ buf' = buf + missing /\ bytes' = H
         /\ UNCHANGED <<since, demuxPc, state, state_bytes, inHead>>
      \/ /\ inHead /\ missing > end - buf
         /\ head_buf' = header \o SubSeq(file.byte, buf + 1, end)
         /\ state_bytes' = bytes + (end - buf)
         /\ Return0 /\ UNCHANGED <<state, bytes>>
      \/ /\ ~inHead
         /\ head_buf' = header
         /\ state' = "HEADER" /\ state_bytes' = L
         /\ Return0 /\ UNCHANGED bytes
  BY Zenon DEF NeedBytes
\* n bytes of the buffer are put behind the header.
<1>6. ASSUME inHead, NEW n \in Nat, buf + n <= end, L + n <= H,
             head_buf' = header \o SubSeq(file.byte, buf + 1, buf + n)
      PROVE  /\ head_buf' \in Seq(Octets) /\ Len(head_buf') = L + n
             /\ SubSeq(head_buf', 1, L + n) = head_buf'
             /\ Seen(file, head_buf', HeadStart) /\ HeaderLen(head_buf') >= H
             /\ \A i \in buf + 1 .. buf + n : file.track[i] = "none"
  <2>1. buf = HeadStart + Len(header) /\ HeaderLen(header) > Len(header)
    BY <1>1, <1>2, <1>6
  <2>2. buf + n <= Len(file.byte) /\ HeaderLen(header) >= Len(header) + n
    <3>1. buf + n <= Len(file.byte)
      <4> HIDE DEF H, L
      <4>. QED BY <1>3, <1>6
    <3>2. H >= L + n
      <4> HIDE DEF H, L
      <4>. QED BY <1>3, <1>4, <1>6
    <3>. QED BY <3>1, <3>2
  <2>3. /\ head_buf' \in Seq(Octets) /\ Len(head_buf') = Len(header) + n
        /\ SubSeq(head_buf', 1, Len(head_buf')) = head_buf'
        /\ Seen(file, head_buf', HeadStart)
        /\ HeaderLen(head_buf') >= HeaderLen(header)
        /\ \A i \in buf + 1 .. buf + n : file.track[i] = "none"
    <3> DEFINE p == HeadStart
               f == file
    <3>1. More(f, header, p, buf, n, head_buf')
      BY <1>2, <1>6, <2>1, <2>2 DEF More
    <3>2. /\ head_buf' \in Seq(Octets) /\ Len(head_buf') = Len(header) + n
          /\ SubSeq(head_buf', 1, Len(head_buf')) = head_buf'
          /\ Seen(f, head_buf', p)
          /\ HeaderLen(header) > Len(header) => HeaderLen(head_buf') >= HeaderLen(header)
          /\ HeaderLen(header) > Len(header) => \A i \in buf + 1 .. buf + n : f.track[i] = "none"
      <4> HIDE DEF p, f
      <4>. QED BY <3>1, MoreHeader
    <3>. QED BY <2>1, <3>2
  <2>. QED BY <2>3
<1>7. CASE /\ inHead /\ missing <= end - buf
           /\ head_buf' = header \o SubSeq(file.byte, buf + 1, buf + missing)
           /\ buf' = buf + missing /\ bytes' = H
           /\ UNCHANGED <<demuxPc, state, state_bytes, inHead>>
  <2>1. missing \in Nat /\ buf + missing <= end /\ L + missing = H /\ L + missing <= H
        /\ buf' - H = HeadStart /\ buf <= buf' /\ buf' \in Nat
    <3> HIDE DEF H, L
    <3>. QED BY <1>1, <1>2, <1>3, <1>4, <1>7
  <2>2. /\ head_buf' \in Seq(Octets) /\ SubSeq(head_buf', 1, L + missing) = head_buf'
        /\ Seen(file, head_buf', HeadStart) /\ HeaderLen(head_buf') >= H
        /\ \A i \in buf + 1 .. buf + missing : file.track[i] = "none"
    <3> HIDE DEF missing, H, L
    <3>. QED BY <1>6, <1>7, <2>1
  <2>3. header' = head_buf' /\ HeadStart' = HeadStart
    <3>1. header' = SubSeq(head_buf', 1, H) /\ HeadStart' = buf' - H
      BY <1>7 DEF header, HeadStart
    <3>. QED BY <2>1, <2>2, <3>1
  <2>4. KeepsHeader' /\ KeepsCount' /\ InHeader' /\ AtEnd'
    <3>1. Seen(file, header, HeadStart)'
      BY <1>1, <2>2, <2>3 DEF Seen
    <3>2. HeaderLen(header') >= bytes'
      BY <1>7, <2>2, <2>3
    <3>3. demuxPc' = "header"
      BY <1>1, <1>7
    <3>. QED BY <3>1, <3>2, <3>3 DEF KeepsHeader, KeepsCount, InHeader, AtEnd, Between
  <2>5. Given' /\ GivenWhole'
    BY <1>1, <1>7, <2>1, <2>2, NoMore
  <2>. QED BY <2>4, <2>5 DEF InStep
<1>8. CASE /\ inHead /\ missing > end - buf
           /\ head_buf' = header \o SubSeq(file.byte, buf + 1, end)
           /\ state_bytes' = bytes + (end - buf)
           /\ Return0 /\ UNCHANGED <<state, bytes>>
  <2> DEFINE n == end - buf
  <2>1. n \in Nat /\ buf + n = end /\ buf + n <= end /\ L + n <= H /\ state_bytes' = L + n
        /\ H > L + n /\ end - (L + n) = HeadStart
    <3> HIDE DEF H, L
    <3>. QED BY <1>1, <1>2, <1>3, <1>4, <1>8
  <2>2. /\ head_buf' \in Seq(Octets) /\ SubSeq(head_buf', 1, L + n) = head_buf'
        /\ Seen(file, head_buf', HeadStart) /\ HeaderLen(head_buf') >= H
        /\ \A i \in buf + 1 .. buf + n : file.track[i] = "none"
    <3>1. head_buf' = header \o SubSeq(file.byte, buf + 1, buf + n)
      BY <1>8, <2>1
    <3> HIDE DEF n, H, L
    <3>. QED BY <1>6, <1>8, <2>1, <3>1
  <2>3. state = "HEADER" /\ state' = state /\ demuxPc' = "while" /\ buf' = end
    BY <1>8 DEF Return0, Types
  <2>4. KeptHeader' = head_buf' /\ buf' - state_bytes' = HeadStart
    BY <2>1, <2>2, <2>3 DEF KeptHeader
  <2>5. HeaderLen(head_buf') > state_bytes'
    <3> DEFINE G == HeaderLen(head_buf')
    <3>1. G \in 4 .. 264 /\ G >= H
      BY <2>2, HeaderLenBounds
    <3>2. G > L + n
      <4> HIDE DEF G, H, L, n
      <4>. QED BY <1>3, <1>4, <2>1, <3>1
    <3>. QED BY <2>1, <3>2
  <2>6. KeepsHeader' /\ KeepsCount' /\ InHeader' /\ AtEnd'
    <3>1. Seen(file', KeptHeader', buf' - state_bytes') /\ HeaderLen(KeptHeader') > state_bytes'
      BY <1>1, <2>2, <2>4, <2>5
    <3>. QED BY <1>1, <2>3, <3>1 DEF KeepsHeader, KeepsCount, InHeader, AtEnd
  <2>7. Given' /\ GivenWhole'
    <3>1. \A i \in buf + 1 .. buf' : file.track[i] = "none"
      BY <2>1, <2>2, <2>3
    <3>. QED BY <1>1, <1>3, <2>3, <3>1, NoMore
  <2>. QED BY <2>6, <2>7 DEF InStep
<1>9. CASE /\ ~inHead
           /\ head_buf' = header
           /\ state' = "HEADER" /\ state_bytes' = L
           /\ Return0 /\ UNCHANGED bytes
  <2>1. SubSeq(header, 1, L) = header
    BY <1>2, SubSeqFull
  <2>2. demuxPc' = "while" /\ buf' = end /\ end - L = HeadStart
    <3>1. demuxPc' = "while" /\ buf' = end
      BY <1>9 DEF Return0
    <3>2. end = HeadStart + L
      BY <1>2, <1>9
    <3> HIDE DEF L
    <3>. QED BY <1>2, <1>3, <3>1, <3>2
  <2>3. KeptHeader' = header /\ buf' - state_bytes' = HeadStart
    BY <1>9, <2>1, <2>2 DEF KeptHeader
  <2>4. KeepsHeader' /\ KeepsCount' /\ InHeader' /\ AtEnd'
    <3>1. Seen(file', KeptHeader', buf' - state_bytes') /\ HeaderLen(KeptHeader') > state_bytes'
      BY <1>1, <1>2, <1>9, <2>3
    <3>. QED BY <1>1, <1>9, <2>2, <3>1 DEF KeepsHeader, KeepsCount, InHeader, AtEnd
  <2>5. \A i \in buf + 1 .. buf' : file.track[i] = "none"
    <3>1. \A i \in HeadStart + 1 .. HeadStart + L : file.track[i] = "none"
      BY <1>1, HeaderTracks
    <3>. QED BY <1>2, <1>9, <2>2, <3>1
  <2>6. Given' /\ GivenWhole'
    BY <1>1, <1>3, <2>2, <2>5, NoMore
  <2>. QED BY <2>4, <2>6 DEF InStep
<1>. QED BY <1>5, <1>7, <1>8, <1>9

LEMMA ResyncInStep ==
    ASSUME Types, Types', Forward, InStep, Synced, since' = since, Resync
    PROVE  InStep'
<1> DEFINE H == HeaderLen(header)
           L == Len(header)
<1>1. /\ player' = player /\ file' = file /\ end' = end /\ UNCHANGED out
      /\ UNCHANGED <<fileVars, loopVars>> /\ demuxPc = "header" /\ demuxPc' = "header"
      /\ HeaderThere /\ ~StartCode(header) /\ inHead' = inHead
  BY DEF Resync, HeaderThere, fileVars, loopVars
<1>2. /\ header \in Seq(Octets) /\ Seen(file, header, HeadStart)
      /\ HeadStart \in Nat /\ HeadStart <= buf /\ buf \in Nat
      /\ inHead => buf = HeadStart + L /\ H >= L
      /\ ~inHead => buf = HeadStart
  BY <1>1, HeaderTyped, HeaderSeen, FileSplits
<1>3. /\ HeadStart + 1 \in file.start /\ DoneBytes = HeadStart + H
      /\ \A i \in HeadStart + 1 .. DoneBytes : file.track[i] = "none"
  BY <1>1, HeaderTracks
<1>4. H = 4
  <2>1. H \in 4 .. 264 /\ ~(H > 4)
    BY <1>1, <1>2, HeaderLenBounds
  <2> HIDE DEF H
  <2>. QED BY <2>1
<1>5. L \in Nat /\ H <= L
  BY <1>1, <1>2 DEF HeaderThere
<1>6. CASE inHead /\ head_buf' = SubSeq(header, 2, 4) /\ bytes' = 3 /\ UNCHANGED buf
  <2> DEFINE h == head_buf'
             p == HeadStart + 1
  <2>1. L = 4 /\ buf = HeadStart + L /\ buf - 3 = p
    <3> HIDE DEF H, L
    <3>. QED BY <1>2, <1>4, <1>5, <1>6
  <2>2. h \in Seq(Octets) /\ Len(h) = 3 /\ \A i \in 1 .. 3 : h[i] = header[1 + i]
    <3>1. /\ SubSeq(header, 1 + 1, 4) \in Seq(Octets)
          /\ Len(SubSeq(header, 1 + 1, 4)) = 4 - 1
          /\ \A i \in 1 .. 4 - 1 : SubSeq(header, 1 + 1, 4)[i] = header[1 + i]
      <4>1. header \in Seq(Octets) /\ 4 <= Len(header)
        BY <1>2, <2>1
      <4>. QED BY <4>1, Part
    <3>2. 1 + 1 = 2 /\ 4 - 1 = 3
      OBVIOUS
    <3>. QED BY <1>6, <3>1, <3>2
  <2>3. Seen(file, h, p)
    <3>1. HeadStart + 4 <= Len(file.byte) /\ \A i \in 1 .. 4 : header[i] = file.byte[HeadStart + i]
      BY <1>2, <2>1 DEF Seen
    <3>2. \A i \in 1 .. 3 : 1 + i \in 1 .. 4 /\ HeadStart + (1 + i) = p + i
      BY <1>2
    <3>3. \A i \in 1 .. 3 : h[i] = file.byte[p + i]
      BY <2>2, <3>1, <3>2
    <3>4. p + 3 <= Len(file.byte)
      BY <1>2, <3>1
    <3>. QED BY <1>3, <2>2, <3>3, <3>4 DEF Seen
  <2>4. SubSeq(h, 1, 3) = h
    BY <2>2, SubSeqFull
  <2>5. header' = h /\ HeadStart' = p /\ inHead'
    <3>1. header' = SubSeq(h, 1, 3) /\ HeadStart' = buf - 3 /\ inHead'
      BY <1>1, <1>6 DEF header, HeadStart
    <3>. QED BY <2>1, <2>4, <3>1
  <2>6. HeaderLen(h) >= 3
    <3> DEFINE G == HeaderLen(h)
    <3>1. G \in 4 .. 264
      BY <2>2, HeaderLenBounds
    <3>2. G >= 3
      <4> HIDE DEF G
      <4>. QED BY <3>1
    <3>. QED BY <3>2
  <2>7. KeepsHeader' /\ KeepsCount' /\ InHeader' /\ AtEnd'
    <3>1. Seen(file, header, HeadStart)'
      BY <1>1, <2>3, <2>5 DEF Seen
    <3>2. HeaderLen(header') >= bytes'
      BY <1>6, <2>5, <2>6
    <3>. QED BY <1>1, <3>1, <3>2 DEF KeepsHeader, KeepsCount, InHeader, AtEnd, Between
  <2>8. Given' /\ GivenWhole'
    <3>1. buf' = buf /\ buf <= buf' /\ \A i \in buf + 1 .. buf' : FALSE
      BY <1>2, <1>6
    <3>. QED BY <1>1, <1>2, <3>1, NoMore
  <2>. QED BY <2>7, <2>8 DEF InStep
<1>7. CASE ~inHead /\ buf' = buf + 1 /\ UNCHANGED <<head_buf, bytes>>
  <2>1. buf = HeadStart /\ buf' \in file.start /\ inHead' = FALSE /\ buf' \in Nat /\ buf <= buf'
    <3>1. inHead' = FALSE
      BY <1>1, <1>7 DEF Types
    <3>. QED BY <1>2, <1>3, <1>7, <3>1
  <2>2. KeepsHeader' /\ KeepsCount' /\ InHeader' /\ AtEnd'
    BY <1>1, <2>1, NextHeader
  <2>3. \A i \in buf + 1 .. buf' : file.track[i] = "none"
    <3>1. DoneBytes = buf + 4
      BY <1>3, <1>4, <2>1
    <3>2. \A i \in buf + 1 .. buf' : i \in HeadStart + 1 .. DoneBytes
      BY <1>2, <1>7, <2>1, <3>1
    <3>. QED BY <1>3, <3>2
  <2>4. Given' /\ GivenWhole'
    BY <1>1, <2>1, <2>3, NoMore
  <2>. QED BY <2>2, <2>4 DEF InStep
<1>8. \/ inHead /\ head_buf' = SubSeq(header, 2, 4) /\ bytes' = 3 /\ UNCHANGED buf
      \/ ~inHead /\ buf' = buf + 1 /\ UNCHANGED <<head_buf, bytes>>
  BY DEF Resync
<1>. QED BY <1>6, <1>7, <1>8

LEMMA EnterHeaderInStep ==
    ASSUME Types, Types', Forward, InStep, Synced, since' = since, EnterHeader
    PROVE  InStep'
<1>1. /\ player' = player /\ file' = file /\ end' = end /\ UNCHANGED out
      /\ UNCHANGED <<fileVars, loopVars>> /\ demuxPc = "demux" /\ demuxPc' = "header"
      /\ state = "HEADER" /\ buf' = buf /\ head_buf' = head_buf /\ bytes' = state_bytes
      /\ inHead' = (state_bytes > 0)
  BY DEF EnterHeader, fileVars, loopVars, kept
<1>2. Seen(file, KeptHeader, buf - state_bytes) /\ HeaderLen(KeptHeader) > state_bytes
  BY <1>1 DEF InStep, KeepsHeader, Between
<1>3. buf \in Nat /\ state_bytes \in Nat
  BY FileSplits
<1>4. Given' /\ GivenWhole'
  <2>1. buf <= buf' /\ \A i \in buf + 1 .. buf' : FALSE
    BY <1>1, <1>3
  <2>. QED BY <1>1, <1>3, <2>1, NoMore DEF Between
<1>5. CASE state_bytes > 0
  <2>1. inHead' = TRUE
    <3>1. (state_bytes > 0) = TRUE
      BY <1>5, Zenon
    <3>. QED BY <1>1, <3>1, Zenon
  <2>2. header' = KeptHeader /\ HeadStart' = buf - state_bytes
    BY <1>1, <2>1 DEF header, HeadStart, KeptHeader
  <2>3. Seen(file, header, HeadStart)'
    BY <1>1, <1>2, <2>2 DEF Seen
  <2>4. HeaderLen(header') >= bytes'
    <3> DEFINE G == HeaderLen(KeptHeader)
    <3>1. G \in Nat
      <4>1. KeptHeader \in Seq(Octets)
        <5>1. head_buf \in Seq(Octets) /\ 0 <= state_bytes /\ state_bytes <= Len(head_buf)
          BY <1>1, <1>3 DEF Types, DemuxTypeOK, Octets
        <5>2. SubSeq(head_buf, 0 + 1, state_bytes) \in Seq(Octets)
          BY <1>3, <5>1, Part
        <5>. QED BY <5>2 DEF KeptHeader
      <4>2. G \in 4 .. 264
        BY <4>1, HeaderLenBounds
      <4> HIDE DEF G
      <4>. QED BY <4>2
    <3>2. G >= state_bytes
      <4>1. G > state_bytes
        BY <1>2
      <4> HIDE DEF G
      <4>. QED BY <1>3, <3>1, <4>1
    <3>. QED BY <1>1, <2>2, <3>2
  <2>5. KeepsHeader' /\ KeepsCount' /\ InHeader' /\ AtEnd'
    BY <1>1, <2>3, <2>4 DEF KeepsHeader, KeepsCount, InHeader, AtEnd, Between
  <2>. QED BY <1>4, <2>5 DEF InStep
<1>6. CASE ~(state_bytes > 0)
  <2>1. inHead' = FALSE
    <3>1. (state_bytes > 0) = FALSE
      <4>1. (state_bytes > 0) \in BOOLEAN
        BY <1>3
      <4>. QED BY <1>6, <4>1, Zenon
    <3>. QED BY <1>1, <3>1, Zenon
  <2>2. buf - state_bytes = buf
    BY <1>3, <1>6
  <2>3. buf' \in file.start
    BY <1>1, <1>2, <2>2 DEF Seen
  <2>4. KeepsHeader' /\ KeepsCount' /\ InHeader' /\ AtEnd'
    BY <1>1, <2>1, <2>3, NextHeader
  <2>. QED BY <1>4, <2>4 DEF InStep
<1>. QED BY <1>5, <1>6

LEMMA EnterPayloadInStep ==
    ASSUME Types, Types', Forward, InStep, Synced, since' = since, EnterPayload
    PROVE  InStep'
<1>1. /\ player' = player /\ file' = file /\ end' = end
      /\ UNCHANGED <<fileVars, loopVars>> /\ demuxPc = "demux" /\ Between
      /\ state # "HEADER" /\ state' = state
  BY DEF EnterPayload, fileVars, loopVars, Between
<1>2. Owed(file, state, buf, state_bytes)
  BY <1>1 DEF InStep, KeepsCount
<1>3. /\ buf \in Nat /\ end \in Nat /\ state_bytes \in Nat /\ buf <= end
      /\ end <= Len(file.byte) /\ Len(file.byte) \in Nat /\ DOMAIN file.byte = 1 .. Len(file.byte)
  BY FileSplits
<1>4. state \in {"DATA", "SKIP", "MPA_DATA"}
  BY <1>1 DEF Types, DemuxTypeOK
\* What is passed by belongs to the packet that the last buffer cut.
<1>5. ASSUME Continue(buf'), buf' \in Nat, buf <= buf', buf' <= buf + state_bytes,
             buf' <= Len(file.byte)
      PROVE  Given' /\ GivenWhole'
  <2>1. \A i \in buf + 1 .. buf' : file.track[i] = TrackOf(state)
    <3>1. \A i \in buf + 1 .. buf' : i \in buf + 1 .. buf + state_bytes /\ i \in DOMAIN file.byte
      BY <1>3, <1>5
    <3>. QED BY <1>2, <3>1 DEF Owed
  <2>2. CASE state = "DATA"
    <3>1. ToVideo(buf, buf')
      BY <1>5, <2>2, Zenon DEF Continue
    <3>2. \A i \in buf + 1 .. buf' : file.track[i] = "video"
      BY <2>1, <2>2 DEF TrackOf
    <3>3. \A i \in buf + 1 .. buf : FALSE
      BY <1>3
    <3>4. buf <= buf
      BY <1>3
    <3>. QED BY <1>1, <1>3, <1>5, <3>1, <3>2, <3>3, <3>4, MoreVideo
  <2>3. CASE state = "MPA_DATA" /\ player = "mpeg"
    <3>1. ToAudio(buf, buf')
      <4>1. state # "DATA"
        BY <2>3
      <4>. QED BY <1>5, <2>3, <4>1, Zenon DEF Continue
    <3>2. \A i \in buf + 1 .. buf' : file.track[i] = "audio"
      BY <2>1, <2>3 DEF TrackOf
    <3>3. \A i \in buf + 1 .. buf : FALSE
      BY <1>3
    <3>4. buf <= buf
      BY <1>3
    <3>. QED BY <1>1, <1>3, <1>5, <2>3, <3>1, <3>2, <3>3, <3>4, MoreAudio
  <2>4. CASE state # "DATA" /\ ~(state = "MPA_DATA" /\ player = "mpeg")
    <3>1. UNCHANGED out
      BY <1>5, <2>4, Zenon DEF Continue
    <3>2. \A i \in buf + 1 .. buf' :
              file.track[i] # "video" /\ (player = "mpeg" => file.track[i] # "audio")
      BY <1>4, <2>1, <2>4 DEF TrackOf
    <3>. QED BY <1>1, <1>5, <3>1, <3>2, NoMore
  <2>. QED BY <2>2, <2>3, <2>4
<1>6. CASE /\ state_bytes > end - buf
           /\ Continue(end) /\ state_bytes' = state_bytes - (end - buf)
           /\ Return0
  <2> DEFINE n == state_bytes - (end - buf)
  <2>1. demuxPc' = "while" /\ buf' = end /\ state_bytes' = n
    BY <1>6 DEF Return0
  <2>2. n \in Nat /\ n > 0 /\ end + n = buf + state_bytes /\ state_bytes > 0
    BY <1>3, <1>6
  <2>3. buf > 0 /\ \A i \in DOMAIN file.byte :
           i > buf => (file.packet[i] = file.packet[buf] <=> i <= buf + state_bytes)
    BY <1>2, <2>2 DEF Owed
  <2>4. file.packet[end] = file.packet[buf]
    <3>1. CASE end = buf
      BY <3>1
    <3>2. CASE end # buf
      <4>1. end \in DOMAIN file.byte /\ end > buf /\ end <= buf + state_bytes
        BY <1>3, <1>6, <3>2
      <4>. QED BY <2>3, <4>1
    <3>. QED BY <3>1, <3>2
  <2>5. Owed(file, state, end, n)
    <3> HIDE DEF n
    <3>1. end + n <= Len(file.byte) => end + n \in file.start
      BY <1>2, <2>2 DEF Owed
    <3>2. \A i \in end + 1 .. end + n : i \in DOMAIN file.byte => file.track[i] = TrackOf(state)
      <4>1. \A i \in end + 1 .. end + n : i \in buf + 1 .. buf + state_bytes
        BY <1>3, <2>2
      <4>. QED BY <1>2, <4>1 DEF Owed
    <3>3. end > 0
      BY <1>3, <2>3
    <3>4. \A i \in DOMAIN file.byte :
              i > end => (file.packet[i] = file.packet[end] <=> i <= end + n)
      <4>1. \A i \in DOMAIN file.byte : i > end => i > buf
        BY <1>3
      <4>. QED BY <2>2, <2>3, <2>4, <4>1
    <3>. QED BY <3>1, <3>2, <3>3, <3>4 DEF Owed
  <2>6. KeepsHeader' /\ KeepsCount' /\ InHeader' /\ AtEnd'
    <3>1. Owed(file, state, buf, state_bytes)'
      BY <1>1, <2>1, <2>5 DEF Owed
    <3>2. state_bytes' > 0
      BY <2>1, <2>2
    <3>. QED BY <1>1, <2>1, <3>1, <3>2 DEF KeepsHeader, KeepsCount, InHeader, AtEnd
  <2>7. Given' /\ GivenWhole'
    <3>1. Continue(buf') /\ buf' \in Nat /\ buf <= buf' /\ buf' <= buf + state_bytes
          /\ buf' <= Len(file.byte)
      BY <1>3, <1>6, <2>1
    <3>. QED BY <1>5, <3>1
  <2>. QED BY <2>6, <2>7 DEF InStep
<1>7. CASE /\ state_bytes <= end - buf
           /\ Continue(buf + state_bytes) /\ GoOn(buf + state_bytes)
           /\ UNCHANGED state_bytes
  <2>1. demuxPc' = "header" /\ buf' = buf + state_bytes /\ inHead' = FALSE
    BY <1>7 DEF GoOn
  <2>2. buf' \in Nat /\ buf <= buf' /\ buf' <= Len(file.byte) /\ buf' <= buf + state_bytes
    BY <1>3, <1>7, <2>1
  <2>3. buf' \in file.start
    BY <1>2, <2>1, <2>2 DEF Owed
  <2>4. KeepsHeader' /\ KeepsCount' /\ InHeader' /\ AtEnd'
    BY <1>1, <2>1, <2>3, NextHeader
  <2>5. Given' /\ GivenWhole'
    BY <1>5, <1>7, <2>1, <2>2
  <2>. QED BY <2>4, <2>5 DEF InStep
<1>. QED BY <1>6, <1>7 DEF EnterPayload

\* A file that is opened when nothing of another is kept.
LEMMA OpenInStep == ASSUME Types, Types', Open PROVE InStep'
<1>1. /\ since' = (IF state_bytes = 0 THEN 0 ELSE -1) /\ demuxPc' = "loop" /\ buf' = 0 /\ end' = 0
      /\ video' = <<>> /\ audio' = <<>> /\ state' = state /\ state_bytes' = state_bytes
      /\ head_buf' = head_buf
  BY DEF Open, kept
<1> SUFFICES ASSUME Synced' PROVE InStep'
  BY DEF InStep
<1>2. state_bytes = 0 /\ state_bytes' = 0 /\ since' = 0
  <2>1. ~(-1 >= 0)
    OBVIOUS
  <2>. QED BY <1>1, <2>1 DEF Synced
<1>3. Splits(file') /\ 0 \in file'.start /\ Len(file'.byte) \in Nat
  <2>1. file' \in Films \cup FilmsAfter
    BY DEF Types
  <2>2. Splits(file')
    BY <2>1, FilmsAssumption
  <2>. QED BY <2>2 DEF Splits
<1>4. KeepsHeader'
  <2> SUFFICES ASSUME state' = "HEADER"
               PROVE  Seen(file', KeptHeader', buf' - state_bytes') /\ HeaderLen(KeptHeader') > state_bytes'
    BY DEF KeepsHeader
  <2> DEFINE h == KeptHeader'
  <2>1. head_buf \in Seq(Octets)
    BY DEF Types, DemuxTypeOK, Octets
  <2>2. h \in Seq(Octets) /\ Len(h) = 0
    <3>1. h = SubSeq(head_buf, 0 + 1, 0)
      BY <1>1, <1>2 DEF KeptHeader
    <3>2. /\ SubSeq(head_buf, 0 + 1, 0) \in Seq(Octets)
          /\ Len(SubSeq(head_buf, 0 + 1, 0)) = 0 - 0
      <4>1. 0 <= 0 /\ 0 <= Len(head_buf) /\ 0 \in Nat
        BY <2>1
      <4>. QED BY <2>1, <4>1, Part
    <3>3. 0 - 0 = 0
      OBVIOUS
    <3> HIDE DEF h
    <3>. QED BY <3>1, <3>2, <3>3
  <2>3. buf' - state_bytes' = 0
    BY <1>1, <1>2
  <2>4. Seen(file', h, 0)
    <3>1. 0 + 0 <= Len(file'.byte) /\ \A i \in 1 .. 0 : FALSE
      BY <1>3
    <3>2. \A i \in 1 .. Len(h) : h[i] = file'.byte[0 + i]
      BY <2>2, <3>1
    <3>3. 0 + Len(h) <= Len(file'.byte)
      BY <2>2, <3>1
    <3> HIDE DEF h
    <3>. QED BY <1>3, <3>2, <3>3 DEF Seen
  <2>5. HeaderLen(h) > 0
    <3> DEFINE G == HeaderLen(h)
    <3>1. G \in 4 .. 264
      BY <2>2, HeaderLenBounds
    <3>2. G > 0
      <4> HIDE DEF G
      <4>. QED BY <3>1
    <3>. QED BY <3>2
  <2>. QED BY <1>2, <2>3, <2>4, <2>5
<1>5. KeepsCount'
  <2>1. 0 + 0 = 0 /\ ~(0 > 0) /\ \A i \in 0 + 1 .. 0 + 0 : FALSE
    OBVIOUS
  <2>2. Owed(file', state', 0, 0)
    BY <1>3, <2>1 DEF Owed
  <2>. QED BY <1>1, <1>2, <2>2 DEF KeepsCount
<1>6. InHeader' /\ AtEnd'
  BY <1>1 DEF InHeader, AtEnd
<1>7. /\ InOrder(video') /\ Range(video') = {} /\ InOrder(audio') /\ Range(audio') = {}
      /\ DOMAIN audio' = {}
  BY <1>1 DEF InOrder, Range
<1>8. since' + 1 .. buf' = {}
  BY <1>1, <1>2
<1>9. Given'
  BY <1>7, <1>8 DEF Given, AllOf
<1>10. GivenWhole'
  BY <1>7 DEF GivenWhole
<1>. QED BY <1>4, <1>5, <1>6, <1>9, <1>10 DEF InStep

\* Between two buffers nothing but the place in ps_loop changes.
LEMMA SameInStep ==
    ASSUME InStep, UNCHANGED <<fileVars, since, buf, kept, out>>,
           Between \/ demuxPc' = "closed", demuxPc' # "header", AtEnd'
    PROVE  InStep'
<1>1. /\ player' = player /\ file' = file /\ since' = since /\ buf' = buf
      /\ state' = state /\ state_bytes' = state_bytes /\ head_buf' = head_buf
      /\ video' = video /\ audio' = audio
  BY DEF fileVars, kept, out
<1>2. KeptHeader' = KeptHeader
  BY <1>1 DEF KeptHeader
<1> SUFFICES ASSUME Synced PROVE InStep'
  BY <1>1 DEF InStep, Synced
<1>3. KeepsHeader'
  BY <1>1, <1>2 DEF InStep, KeepsHeader, Between
<1>4. KeepsCount'
  BY <1>1 DEF InStep, KeepsCount, Between
<1>5. InHeader'
  BY DEF InHeader
<1>6. Given'
  BY <1>1 DEF InStep, Given, Between, AllOf
<1>7. GivenWhole'
  BY <1>1 DEF InStep, GivenWhole
<1>. QED BY <1>3, <1>4, <1>5, <1>6, <1>7 DEF InStep

LEMMA LoopInStep == ASSUME Types, Types', InStep, UserLeaves \/ Read \/ While \/ Stop PROVE InStep'
<1>1. UNCHANGED <<fileVars, since, buf, kept, out>>
  BY DEF UserLeaves, Read, While, Stop
<1>2. CASE UserLeaves \/ Stop
  <2>1. demuxPc' = "closed"
    BY <1>2 DEF UserLeaves, Stop
  <2>2. AtEnd'
    BY <2>1 DEF AtEnd
  <2>. QED BY <1>1, <2>1, <2>2, SameInStep
<1>3. CASE Read
  <2>1. Between /\ demuxPc' = "demux"
    BY <1>3 DEF Read, Between
  <2>2. AtEnd'
    BY <2>1 DEF AtEnd
  <2>. QED BY <1>1, <2>1, <2>2, SameInStep
<1>4. CASE While
  <2>1. Between /\ demuxPc' \in {"loop", "closed"} /\ demuxPc = "while" /\ end' = end
    BY <1>4 DEF While, Between, loopVars
  <2>2. CASE Synced
    <3>1. AtEnd'
      BY <1>1, <2>1, <2>2 DEF AtEnd, InStep
    <3>. QED BY <1>1, <2>1, <3>1, SameInStep
  <2>3. CASE ~Synced
    BY <1>1, <2>3 DEF InStep, Synced
  <2>. QED BY <2>2, <2>3
<1>. QED BY <1>2, <1>3, <1>4

\* Away from the file's packets, demux gets in step where it looks for a header in
\* the buffer and one begins there.
LEMMA GetsInStep ==
    ASSUME Types, Forward, DemuxNext, ~Open, since' # since
    PROVE  /\ ~Synced /\ UNCHANGED <<fileVars, loopVars>> /\ demuxPc' = "header" /\ inHead' = FALSE
           /\ buf' \in file.start /\ since' = buf'
<1>0. since < 0 => ~(since >= 0)
  BY DEF Forward
<1>1. ASSUME NEW at, GoOn(at), since' # since
      PROVE  /\ ~Synced /\ demuxPc' = "header" /\ inHead' = FALSE
             /\ buf' \in file.start /\ since' = buf'
  BY <1>0, <1>1 DEF GoOn, Follow, Synced
<1>2. CASE EnterHeader \/ Stop \/ UserLeaves \/ Read \/ While
  BY <1>2 DEF EnterHeader, Stop, UserLeaves, Read, While
<1>3. CASE EnterPayload
  <2>1. GoOn(buf + state_bytes) /\ UNCHANGED <<fileVars, loopVars>>
    BY <1>3 DEF EnterPayload, Return0
  <2>. QED BY <1>1, <2>1
<1>4. CASE NeedBytes
  BY <1>4 DEF NeedBytes, Return0
<1>5. CASE Resync
  <2>1. /\ ~inHead /\ buf' = buf + 1 /\ Follow(buf + 1) /\ inHead' = inHead
        /\ demuxPc = "header" /\ demuxPc' = demuxPc /\ UNCHANGED <<fileVars, loopVars>>
    BY <1>5 DEF Resync, HeaderThere
  <2>2. inHead' = FALSE
    BY <2>1 DEF Types
  <2>3. ~Synced /\ buf' \in file.start /\ since' = buf'
    BY <1>0, <2>1 DEF Follow, Synced
  <2>. QED BY <2>1, <2>2, <2>3
<1>6. CASE Pack
  <2>1. GoOn(DoneBytes) /\ UNCHANGED <<fileVars, loopVars>>
    BY <1>6 DEF Pack
  <2>. QED BY <1>1, <2>1
<1>7. CASE VideoPacket \/ MpegAudioPacket \/ SofdecAudioPacket \/ OtherPacket
  <2>1. GoOn(PayloadEnd) /\ UNCHANGED <<fileVars, loopVars>>
    BY <1>7 DEF VideoPacket, MpegAudioPacket, SofdecAudioPacket, OtherPacket, CutPayload, WholePayload,
                Return0
  <2>. QED BY <1>1, <2>1
<1>. QED BY <1>2, <1>3, <1>4, <1>5, <1>6, <1>7 DEF DemuxNext, ps_loop, demux

\* What is given lies behind what was given before, and is passed by then.
LEMMA ForwardOn ==
    ASSUME Types, Forward, buf' \in Nat, buf <= buf', since' = since \/ since' = buf',
           \/ UNCHANGED out
           \/ \E from \in Nat : /\ buf <= from /\ from <= buf'
                                /\ ToVideo(from, buf') \/ ToAudio(from, buf')
    PROVE  Forward'
<1>1. buf \in Nat /\ video \in Seq(Nat) /\ audio \in Seq(Nat) /\ since \in Int /\ -1 <= since
      /\ since <= buf
  BY FileSplits DEF Types, Forward
<1>2. since' \in -1 .. buf'
  BY <1>1
<1>3. 1 .. buf \subseteq 1 .. buf'
  BY <1>1
<1>4. CASE UNCHANGED out
  BY <1>2, <1>3, <1>4 DEF Forward, out, InOrder, Range
<1>5. ASSUME NEW s \in Seq(Nat), InOrder(s), Range(s) \subseteq 1 .. buf,
             NEW from \in Nat, buf <= from, from <= buf'
      PROVE  /\ InOrder(s \o Positions(from, buf'))
             /\ Range(s \o Positions(from, buf')) \subseteq 1 .. buf'
  <2>1. Range(s) \subseteq 1 .. from /\ from + 1 .. buf' \subseteq 1 .. buf'
    BY <1>1, <1>5
  <2>2. /\ InOrder(s \o Positions(from, buf'))
        /\ Range(s \o Positions(from, buf')) = Range(s) \cup (from + 1 .. buf')
    BY <1>5, <2>1, InOrderBehind
  <2>. QED BY <1>3, <1>5, <2>1, <2>2
<1>6. ASSUME NEW from \in Nat, buf <= from, from <= buf', ToVideo(from, buf') \/ ToAudio(from, buf')
      PROVE  Forward'
  <2>1. CASE ToVideo(from, buf')
    <3>1. video' = video \o Positions(from, buf') /\ audio' = audio
      BY <2>1 DEF ToVideo
    <3>2. InOrder(video') /\ Range(video') \subseteq 1 .. buf'
      BY <1>1, <1>5, <1>6, <3>1 DEF Forward
    <3>. QED BY <1>2, <1>3, <3>1, <3>2 DEF Forward, InOrder, Range
  <2>2. CASE ToAudio(from, buf')
    <3>1. audio' = audio \o Positions(from, buf') /\ video' = video
      BY <2>2 DEF ToAudio
    <3>2. InOrder(audio') /\ Range(audio') \subseteq 1 .. buf'
      BY <1>1, <1>5, <1>6, <3>1 DEF Forward
    <3>. QED BY <1>2, <1>3, <3>1, <3>2 DEF Forward, InOrder, Range
  <2>. QED BY <1>6, <2>1, <2>2
<1>. QED BY <1>4, <1>6

\* The part of a step that Forward is about.
LEMMA StepMoves ==
    ASSUME Types, DemuxNext, ~Open
    PROVE  /\ buf' \in Nat /\ buf <= buf'
           /\ \/ UNCHANGED out
              \/ \E from \in Nat : /\ buf <= from /\ from <= buf'
                                   /\ ToVideo(from, buf') \/ ToAudio(from, buf')
<1>1. /\ buf \in Nat /\ end \in Nat /\ buf <= end /\ bytes \in Nat /\ state_bytes \in Nat
  BY FileSplits
<1>2. CASE EnterHeader \/ Stop \/ UserLeaves \/ Read \/ While
  <2>1. buf' = buf /\ UNCHANGED out
    BY <1>2 DEF EnterHeader, Stop, UserLeaves, Read, While
  <2>. QED BY <1>1, <2>1
<1>3. CASE EnterPayload
  <2>1. Continue(buf') /\ (buf' = end \/ buf' = buf + state_bytes)
    BY <1>3 DEF EnterPayload, Return0, GoOn
  <2>2. buf' \in Nat /\ buf <= buf' /\ buf <= buf
    BY <1>1, <2>1
  <2>3. UNCHANGED out \/ ToVideo(buf, buf') \/ ToAudio(buf, buf')
    <3>1. CASE state = "DATA"
      BY <2>1, <3>1, Zenon DEF Continue
    <3>2. CASE state = "MPA_DATA" /\ player = "mpeg"
      <4>1. state # "DATA"
        BY <3>2
      <4>. QED BY <2>1, <3>2, <4>1, Zenon DEF Continue
    <3>3. CASE state # "DATA" /\ ~(state = "MPA_DATA" /\ player = "mpeg")
      BY <2>1, <3>3, Zenon DEF Continue
    <3>. QED BY <3>1, <3>2, <3>3
  <2>. QED BY <1>1, <2>2, <2>3
<1>4. CASE NeedBytes
  <2> DEFINE H == HeaderLen(header)
             L == Len(header)
  <2>1. H > L /\ UNCHANGED out /\ (buf' = end \/ (inHead /\ buf' = buf + (H - bytes)))
    BY <1>4 DEF NeedBytes, Return0
  <2>2. H \in 4 .. 264 /\ L = (IF inHead THEN bytes ELSE end - buf)
    BY HeaderTyped, HeaderLenBounds
  <2>3. buf' \in Nat /\ buf <= buf'
    <3> HIDE DEF H, L
    <3>. QED BY <1>1, <2>1, <2>2
  <2>. QED BY <2>1, <2>3
<1>5. CASE Resync
  <2>1. (buf' = buf \/ buf' = buf + 1) /\ UNCHANGED out
    BY <1>5 DEF Resync
  <2>. QED BY <1>1, <2>1
<1>6. CASE Pack
  <2>1. HeaderThere /\ buf' = DoneBytes /\ UNCHANGED out
    BY <1>6 DEF Pack, HeaderOf, GoOn
  <2>. QED BY <2>1, DoneTyped
<1>7. CASE VideoPacket \/ MpegAudioPacket \/ SofdecAudioPacket \/ OtherPacket
  <2>1. /\ HeaderOf({"audio", "video", "other"}) /\ HeaderThere
        /\ \/ Cut /\ buf' = end
           \/ ~Cut /\ buf' = PayloadEnd
        /\ \/ UNCHANGED out
           \/ ToVideo(DoneBytes, buf') \/ ToAudio(DoneBytes, buf')
    BY <1>7 DEF VideoPacket, MpegAudioPacket, SofdecAudioPacket, OtherPacket, HeaderOf, HeaderThere,
                CutPayload, WholePayload, Return0, GoOn
  <2>2. DoneBytes \in Nat /\ buf <= DoneBytes /\ DoneBytes <= end
    BY <2>1, DoneTyped
  <2>3. DoneBytes <= buf' /\ buf' \in Nat
    <3>1. CASE Cut
      BY <1>1, <2>1, <2>2, <3>1
    <3>2. CASE ~Cut
      <4>1. buf' \in DoneBytes .. end
        BY <2>1, <3>2, PayloadTyped
      <4>. QED BY <1>1, <2>2, <4>1
    <3>. QED BY <3>1, <3>2
  <2>4. buf <= buf'
    BY <1>1, <2>2, <2>3
  <2>. QED BY <2>1, <2>2, <2>3, <2>4
<1>. QED BY <1>2, <1>3, <1>4, <1>5, <1>6, <1>7 DEF DemuxNext, ps_loop, demux

LEMMA ForwardStep == ASSUME Types, Forward, [DemuxNext]_demuxVars PROVE Forward'
<1>1. CASE UNCHANGED demuxVars
  BY <1>1 DEF demuxVars, out, Forward, InOrder, Range
<1>2. CASE Open
  <2>1. (since' = 0 \/ since' = -1) /\ buf' = 0 /\ video' = <<>> /\ audio' = <<>>
    BY <1>2 DEF Open
  <2>2. since' \in -1 .. buf'
    BY <2>1
  <2>3. InOrder(<<>>) /\ Range(<<>>) = {}
    BY DEF InOrder, Range
  <2>. QED BY <2>1, <2>2, <2>3 DEF Forward, InOrder, Range
<1>3. CASE DemuxNext /\ ~Open
  <2>1. since' = since \/ since' = buf'
    BY <1>3, GetsInStep
  <2>. QED BY <1>3, <2>1, StepMoves, ForwardOn
<1>. QED BY <1>1, <1>2, <1>3

\* In step from here on: nothing that was given so far counts.
LEMMA GetsInStepKeeps ==
    ASSUME Types, Types', Forward, Forward', DemuxNext, ~Open, since' # since
    PROVE  InStep'
<1>1. /\ UNCHANGED <<fileVars, loopVars>> /\ demuxPc' = "header" /\ inHead' = FALSE
      /\ buf' \in file.start /\ since' = buf'
  BY GetsInStep
<1>2. KeepsHeader' /\ KeepsCount' /\ InHeader' /\ AtEnd'
  BY <1>1, NextHeader
<1>3. buf' \in Nat
  BY DEF Types, DemuxTypeOK
<1>4. /\ InOrder(video)' /\ Range(video') \subseteq 1 .. buf'
      /\ InOrder(audio)' /\ Range(audio') \subseteq 1 .. buf'
  BY DEF Forward, Range, InOrder
<1>5. since' + 1 .. buf' = {} /\ \A i \in 1 .. buf' : ~(i > since')
  <2>1. \A b \in Nat : b + 1 .. b = {} /\ \A i \in 1 .. b : ~(i > b)
    OBVIOUS
  <2>. QED BY <1>1, <1>3, <2>1
<1>6. Given'
  BY <1>4, <1>5 DEF Given, AllOf, Range
<1>7. \A i \in DOMAIN audio' : audio'[i] \in 1 .. buf'
  BY <1>4 DEF Range
<1>8. GivenWhole'
  BY <1>4, <1>5, <1>7 DEF GivenWhole, Range
<1>. QED BY <1>2, <1>6, <1>8 DEF InStep

LEMMA InStepStep == ASSUME Types, Forward, InStep, [DemuxNext]_demuxVars PROVE InStep'
<1>1. Types' /\ Forward'
  BY TypesStep, ForwardStep
<1>2. CASE UNCHANGED demuxVars
  BY <1>2 DEF demuxVars, fileVars, loopVars, kept, out, InStep, KeepsHeader, KeepsCount, InHeader,
              AtEnd, Given, GivenWhole, Between, KeptHeader, HeadStart, header, AllOf, Synced
<1>3. CASE Open
  BY <1>1, <1>3, OpenInStep
<1>4. CASE DemuxNext /\ ~Open /\ since' # since
  BY <1>1, <1>4, GetsInStepKeeps
<1>5. CASE DemuxNext /\ ~Open /\ since' = since /\ Synced
  BY <1>1, <1>5, LoopInStep, EnterHeaderInStep, EnterPayloadInStep, NeedBytesInStep,
     ResyncInStep, PackInStep, PacketsInStep DEF DemuxNext, ps_loop, demux
<1>6. CASE since' = since /\ ~Synced
  BY <1>6 DEF InStep, Synced
<1>. QED BY <1>2, <1>3, <1>4, <1>5, <1>6

LEMMA InStepInit == DemuxInit => Forward /\ InStep
<1> SUFFICES ASSUME DemuxInit PROVE Forward /\ InStep
  OBVIOUS
<1>1. demuxPc = "menu" /\ video = <<>> /\ audio = <<>> /\ since = 0 /\ buf = 0
  BY DEF DemuxInit, MpegInit
<1>2. InOrder(audio) /\ Range(audio) = {} /\ DOMAIN audio = {} /\ InOrder(video) /\ Range(video) = {}
  BY <1>1 DEF InOrder, Range
<1>3. since \in -1 .. buf
  BY <1>1
<1>. QED BY <1>1, <1>2, <1>3 DEF Forward, InStep, KeepsHeader, KeepsCount, InHeader, AtEnd, Given, GivenWhole, Between

-----------------------------------------------------------------------------
LEMMA InStepHolds == DemuxSpec => [](Types /\ Forward /\ InStep)
<1>1. DemuxInit => Types /\ Forward /\ InStep
  BY TypesInit, InStepInit
<1>2. Types /\ Forward /\ InStep /\ [DemuxNext]_demuxVars => Types' /\ Forward' /\ InStep'
  BY TypesStep, ForwardStep, InStepStep
<1>. QED BY <1>1, <1>2, PTL DEF DemuxSpec

\* What demux keeps at the end of a buffer is what the buffer cut.
LEMMA CutKept == ASSUME Types, InStep PROVE KeptIsCut
<1> SUFFICES ASSUME Synced, demuxPc = "while" PROVE KeptIsCut
  BY DEF KeptIsCut
<1>1. /\ buf = end /\ buf \in Nat /\ state_bytes \in Nat /\ end <= Len(file.byte)
      /\ Len(file.byte) \in Nat /\ DOMAIN file.byte = 1 .. Len(file.byte)
      /\ file.byte \in Seq(Octets) /\ DOMAIN file.packet = DOMAIN file.byte
  <2>1. Splits(file)
    BY FileSplits
  <2>. QED BY <2>1, FileSplits DEF InStep, AtEnd, Splits
<1>2. CASE state = "HEADER"
  <2> DEFINE n == state_bytes
             a == SubSeq(head_buf, 1, n)
             b == SubSeq(file.byte, end - n + 1, end)
  <2>1. Seen(file, KeptHeader, buf - n)
    BY <1>2 DEF InStep, KeepsHeader, Between
  <2>2. a \in Seq(Octets) /\ Len(a) = n
    <3>1. head_buf \in Seq(Octets) /\ n <= Len(head_buf) /\ 0 <= n
      BY <1>1, <1>2 DEF Types, DemuxTypeOK, Octets
    <3>2. SubSeq(head_buf, 0 + 1, n) \in Seq(Octets) /\ Len(SubSeq(head_buf, 0 + 1, n)) = n - 0
      BY <1>1, <3>1, Part
    <3>3. 0 + 1 = 1 /\ n - 0 = n
      BY <1>1
    <3>. QED BY <3>2, <3>3
  <2>3. end - n \in Nat
    <3>1. buf - n \in 0 .. Len(file.byte)
      BY <2>1, FileSplits DEF Seen
    <3>. QED BY <1>1, <3>1
  <2>4. b \in Seq(Octets) /\ Len(b) = n /\ \A i \in 1 .. n : b[i] = file.byte[(end - n) + i]
    <3> DEFINE m == end - n
    <3>1. m \in Nat /\ m <= end /\ end - m = n
      BY <1>1, <2>3
    <3>2. /\ SubSeq(file.byte, m + 1, end) \in Seq(Octets)
          /\ Len(SubSeq(file.byte, m + 1, end)) = end - m
          /\ \A i \in 1 .. end - m : SubSeq(file.byte, m + 1, end)[i] = file.byte[m + i]
      <4> HIDE DEF m
      <4>. QED BY <1>1, <3>1, Part
    <3>. QED BY <3>1, <3>2
  <2>5. \A i \in 1 .. n : a[i] = b[i]
    <3>1. \A i \in 1 .. Len(a) : a[i] = file.byte[(buf - n) + i]
      BY <2>1 DEF Seen, KeptHeader
    <3>2. \A i \in 1 .. n : a[i] = file.byte[(end - n) + i]
      BY <1>1, <2>2, <3>1
    <3>. QED BY <2>4, <3>2
  <2>6. a = b
    <3> HIDE DEF a, b
    <3>. QED BY <2>2, <2>4, <2>5, SeqEqual
  <2>. QED BY <1>2, <2>6 DEF KeptIsCut
<1>3. CASE state # "HEADER"
  <2>1. state_bytes > 0 /\ Owed(file, state, end, state_bytes)
    BY <1>1, <1>3 DEF InStep, AtEnd, KeepsCount, Between
  <2>2. \A i \in DOMAIN file.packet :
           i > end => (file.packet[i] = file.packet[end] <=> i <= end + state_bytes)
    BY <1>1, <2>1 DEF Owed
  <2>3. \A i : i \in PacketOf(end) \ (1 .. end)
           <=> i \in (end + 1 .. end + state_bytes) \cap DOMAIN file.packet
    <3> SUFFICES ASSUME NEW i \in DOMAIN file.packet
                 PROVE  file.packet[i] = file.packet[end] /\ i \notin 1 .. end
                          <=> i \in end + 1 .. end + state_bytes
      BY DEF PacketOf
    <3>1. i \in Nat /\ i >= 1
      BY <1>1
    <3>2. (i \notin 1 .. end <=> i > end)
          /\ (i \in end + 1 .. end + state_bytes <=> i > end /\ i <= end + state_bytes)
      BY <1>1, <3>1
    <3>. QED BY <2>2, <3>2
  <2>4. PacketOf(end) \ (1 .. end) = (end + 1 .. end + state_bytes) \cap DOMAIN file.packet
    BY <2>3, Zenon
  <2>. QED BY <1>3, <2>4 DEF KeptIsCut
<1>. QED BY <1>2, <1>3

\* For every file, every size of the buffer and every number of films: demux
\* keeps the bytes of the header, or the count of the payload, that a buffer cut.
THEOREM DemuxHolds == DemuxSpec => []DemuxInv
<1>1. Types /\ Forward /\ InStep => DemuxInv
  BY CutKept DEF Types, Forward, DemuxInv
<1>. QED BY <1>1, InStepHolds, PTL

\* The decoders have got, at the end of every buffer, the bytes of their packets
\* and no other, in the order of the file: from its first byte on, or, when demux
\* takes what it begins with for the rest of another file's packet, from the first
\* packet on that it finds.
THEOREM PayloadHolds == DemuxSpec => []PayloadExact
<1>1. Types /\ InStep => PayloadExact
  BY DEF InStep, Given, Between, PayloadExact
<1>. QED BY <1>1, InStepHolds, PTL

\* From there on, the decoder of Sofdec sound gets a packet whole or not at all.
THEOREM SofdecHolds == DemuxSpec => []SofdecWhole
<1>1. Types /\ InStep => SofdecWhole
  BY DEF InStep, GivenWhole, SofdecWhole
<1>. QED BY <1>1, InStepHolds, PTL
=============================================================================
