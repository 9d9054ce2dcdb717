------------------------------ MODULE MCDirNav ------------------------------
(* A file system with a short and a long path, a directory without media, a  *)
(* file without an extension, and one file of each of two kinds.             *)
EXTENDS DirNav

MCNames == {"cd", "a", "dir", "song", "clip", "readme", "txt"}

MCLength == [n \in MCNames |->
                CASE n = "a" -> 1 [] n = "cd" -> 2 [] n = "dir" -> 3
                  [] n = "readme" -> 6 [] OTHER -> 8]

MCContainer == [n \in MCNames |->
                  CASE n = "song" -> "AUDIO" [] n = "clip" -> "VIDEO"
                    [] n = "txt" -> "UNKNOWN" [] OTHER -> "NULL"]

MCDirs == {<<>>, <<"cd">>, <<"cd", "a">>, <<"cd", "a", "dir">>, <<"cd", "dir">>}

MCFiles == {<<"cd", "song">>, <<"cd", "a", "song">>, <<"cd", "a", "clip">>,
            <<"cd", "readme">>, <<"cd", "a", "dir", "song">>, <<"cd", "dir", "txt">>}
=============================================================================
