------------------------------- MODULE DirNav ---------------------------------
(***************************************************************************)
(* The menus: the main menu chooses one of four file menus (FDIR), each of *)
(* which remembers its own path (FILE_DIR), and DCMC_ParseDirectory walks  *)
(* the file system.  A path is an object of libdcmc/cstring.c, text and    *)
(* Size; which entry of a listing is selected is left open.                *)
(*                                                                         *)
(* StringSetLen frees the text before it copies from it: the text may be   *)
(* lost.  How it reads is then unknown; it is taken to name no directory.  *)
(*                                                                         *)
(* A definition marked "fault" is a wrong version of a later one, used to  *)
(* see that a property notices it; no specification contains it.           *)
(***************************************************************************)
EXTENDS Integers, SequencesExt

CONSTANTS Names,        \* names of files and directories
          Length,       \* the length of each
          Container,    \* what FsMediaContainer says of each
          Dirs,         \* the directories of the file system: sequences of names
          Files         \* its files

Menus == 0 .. 3         \* DIR_IMG, DIR_VID, DIR_AUD, DIR_BIN
MenuContainer == <<"IMAGE", "VIDEO", "AUDIO", "BIN">>

ASSUME TreeAssumption ==
    /\ Length \in [Names -> Nat \ {0}]
    /\ Container \in [Names -> {"NULL", "UNKNOWN", "IMAGE", "VIDEO", "AUDIO", "BIN"}]
    /\ Dirs \subseteq Seq(Names) /\ Files \subseteq Seq(Names)
    /\ <<>> \in Dirs /\ Dirs \cap Files = {}
    /\ \A p \in (Dirs \cup Files) \ {<<>>} : Front(p) \in Dirs
\* The mount points: listed in every menu, with names of three letters at most.
ASSUME RootAssumption ==
    /\ \E n \in Names : Container[n] = "NULL" /\ <<n>> \in Dirs
    /\ \A n \in Names : <<n>> \in Dirs => Length[n] <= 3

None == "none"          \* no file name behind the last '/'

VARIABLES pc,           \* "menu", "parse", "browse" or "play"
          FDIR,         \* the menu
          FILE_DIR,     \* the path of each menu
          fs_dir        \* the directory that is shown and its listed names

vars == <<pc, FDIR, FILE_DIR, fs_dir>>

-----------------------------------------------------------------------------
(* Paths.  dirs = <<a, b>> with no file is "/a/b/".                        *)

\* A '/', and for each name its letters and a '/'.
TextLength(dirs) ==
    1 + Cardinality(UNION {{i} \X (0 .. Length[dirs[i]]) : i \in DOMAIN dirs})

Text(dirs, file, size) == [dirs |-> dirs, file |-> file, lost |-> FALSE, Size |-> size]

\* StringSet counts the terminator, and so does StringConcat.
StringSetRoot == Text(<<>>, None, 2)

StringConcatFile(s, n) ==
    IF s.lost THEN s
    ELSE Text(s.dirs, n, TextLength(s.dirs) + Length[n] + 1)

StringConcatDir(s, n) ==
    IF s.lost THEN s
    ELSE Text(Append(s.dirs, n), None, TextLength(Append(s.dirs, n)) + 1)

\* StringSetLen does not, and may lose the text: what s can become.
StringSetLen(s, dirs) ==
    {[Text(dirs, None, TextLength(dirs)) EXCEPT !.lost = lost] : lost \in {s.lost, TRUE}}

\* cstr_find_last: what comes before the file name.
UpToLast(s) == s.dirs

\* cstr_find_2nd_to_last never looks at the first character.
UpTo2ndToLast(s) == IF Len(s.dirs) < 2 THEN s.dirs ELSE Front(s.dirs)

FsLoadDirectoryUnfiltered(s, m) ==                                   \* fault
    IF s.lost \/ s.dirs \notin Dirs THEN {}
    ELSE {n \in Names : Append(s.dirs, n) \in Dirs \cup Files}

\* FsLoadDirectoryFiltered: the names of the menu's container, and those that
\* look like directories (no extension).  What is not a directory has none.
FsLoadDirectoryFiltered(s, m) ==
    IF s.lost \/ s.dirs \notin Dirs THEN {}
    ELSE {n \in Names : /\ Append(s.dirs, n) \in Dirs \cup Files
                        /\ Container[n] \in {MenuContainer[m + 1], "NULL"}}

-----------------------------------------------------------------------------
Init ==
    /\ pc = "menu" /\ FDIR = 0
    /\ FILE_DIR = [m \in Menus |-> StringSetRoot]
    /\ fs_dir = [path |-> <<>>, names |-> {}]

Path == FILE_DIR[FDIR]
PathBecomes(s) == FILE_DIR' = [FILE_DIR EXCEPT ![FDIR] = s]
Goes(from, to) == pc = from /\ pc' = to

MenuMovesFreely ==                                                   \* fault
    /\ Goes("menu", "menu")
    /\ FDIR' \in {FDIR - 1, FDIR + 1}
    /\ UNCHANGED <<FILE_DIR, fs_dir>>

\* MainMenu.
MenuMoves ==
    /\ Goes("menu", "menu")
    /\ FDIR' \in {FDIR - 1, FDIR + 1} \cap Menus
    /\ UNCHANGED <<FILE_DIR, fs_dir>>

MenuOpens ==
    /\ Goes("menu", "parse")
    /\ UNCHANGED <<FDIR, FILE_DIR, fs_dir>>

ParseEmptyStays ==                                                   \* fault
    /\ Goes("parse", "parse")
    /\ FsLoadDirectoryFiltered(Path, FDIR) = {}
    /\ UNCHANGED <<FDIR, FILE_DIR, fs_dir>>

ParseEmpty ==
    /\ Goes("parse", "parse")
    /\ FsLoadDirectoryFiltered(Path, FDIR) = {}
    /\ PathBecomes(StringSetRoot)
    /\ UNCHANGED <<FDIR, fs_dir>>

ParseShows ==
    /\ Goes("parse", "browse")
    /\ FsLoadDirectoryFiltered(Path, FDIR) # {}
    /\ fs_dir' = [path |-> Path.dirs, names |-> FsLoadDirectoryFiltered(Path, FDIR)]
    /\ UNCHANGED <<FDIR, FILE_DIR>>

\* A on an entry with a container: DCMC_LoadFile gets the path with its name.
PressFile ==
    /\ Goes("browse", "play")
    /\ \E n \in fs_dir.names : Container[n] # "NULL" /\ PathBecomes(StringConcatFile(Path, n))
    /\ UNCHANGED <<FDIR, fs_dir>>

FileStays ==                                                         \* fault
    /\ Goes("play", "browse")
    /\ UNCHANGED <<FDIR, FILE_DIR, fs_dir>>

FileReturns ==
    /\ Goes("play", "browse")
    /\ \E s \in StringSetLen(Path, UpToLast(Path)) : PathBecomes(s)
    /\ UNCHANGED <<FDIR, fs_dir>>

\* A on any other entry, then DCMC_LoadDirectory.
PressDirectory ==
    /\ Goes("browse", "parse")
    /\ \E n \in fs_dir.names : Container[n] = "NULL" /\ PathBecomes(StringConcatDir(Path, n))
    /\ UNCHANGED <<FDIR, fs_dir>>

PressBackUnchecked ==                                                \* fault
    /\ Goes("browse", "parse")
    /\ \E s \in StringSetLen(Path, UpTo2ndToLast(Path)) : PathBecomes(s)
    /\ UNCHANGED <<FDIR, fs_dir>>

\* B.  "Absolute path size <=6 Indicates a Root directory".  The Size of a text
\* that was lost depends on how it reads.
PressBack ==
    /\ Goes("browse", "parse")
    /\ \/ /\ Path.Size <= 6 \/ Path.lost
          /\ PathBecomes(StringSetRoot)
       \/ /\ Path.Size > 6 \/ Path.lost
          /\ \E s \in StringSetLen(Path, UpTo2ndToLast(Path)) : PathBecomes(s)
    /\ UNCHANGED <<FDIR, fs_dir>>

PressStart ==
    /\ Goes("browse", "menu")
    /\ UNCHANGED <<FDIR, FILE_DIR, fs_dir>>

Next ==
    \/ MenuMoves \/ MenuOpens \/ ParseEmpty \/ ParseShows
    \/ PressFile \/ FileReturns \/ PressDirectory \/ PressBack \/ PressStart

Spec == Init /\ [][Next]_vars

\* DCMC_ParseDirectory goes on by itself until it shows a directory.
FairSpec == Spec /\ WF_vars(ParseEmpty \/ ParseShows)
-----------------------------------------------------------------------------
(* Properties.                                                             *)

Texts == [dirs : Seq(Names), file : Names \cup {None}, lost : BOOLEAN, Size : Nat]

TypeOK ==
    /\ pc \in {"menu", "parse", "browse", "play"} /\ FDIR \in Menus
    /\ FILE_DIR \in [Menus -> Texts]
    /\ fs_dir.path \in Seq(Names) /\ fs_dir.names \subseteq Names

\* The path in FILE_DIR is that of the listing on the screen, after any number
\* of files played from it, unless its text was lost.
ListingIsOfPath ==
    pc = "browse" =>
        Path.lost \/ (Path.dirs = fs_dir.path /\ Path.file = None)

\* What is handed to a decoder is a file of the menu's own kind.
PlaysFileOfMenu ==
    pc = "play" /\ ~Path.lost =>
        /\ Append(Path.dirs, Path.file) \in Files \cup Dirs
        /\ Container[Path.file] = MenuContainer[FDIR + 1]

\* B never leads anywhere but to the parent of what is shown, or to "/".
BackLeadsUp ==
    [][PressBack /\ ~Path'.lost =>
          Path'.dirs \in {<<>>, Front(fs_dir.path)}]_vars

\* A listing is found in the end, whatever the path has become: a file taken
\* for a directory, a directory with nothing to list, a text that was lost.
ShowsSomething == pc = "parse" ~> pc = "browse"

=============================================================================
