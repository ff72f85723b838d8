--------------------------- MODULE MCFileManager ---------------------------
(***************************************************************************)
(* A small tree for TLC: the program is started in s below p, which cannot *)
(* be read.  The two directories c can be read and not entered: the names  *)
(* in that of s are also names in s, those in that of h are not names in h.*)
(***************************************************************************)
EXTENDS FileManager

MCDirs == {"/", "/p", "/p/s", "/p/s/c", "/h", "/h/c"}
MCNames == {".", "..", "c", "h", "p", "s"}

MCNode ==
    [d \in MCDirs |->
        CASE d = "/"      -> [x \in {".", "..", "h", "p"} |->
                                CASE x = "h" -> "/h" [] x = "p" -> "/p" [] OTHER -> "/"]
          [] d = "/p"     -> [x \in {".", "..", "s"} |->
                                CASE x = ".." -> "/" [] x = "s" -> "/p/s" [] OTHER -> "/p"]
          [] d = "/p/s"   -> [x \in {".", "..", "c", "h"} |->
                                CASE x = ".." -> "/p" [] x = "c" -> "/p/s/c"
                                  [] x = "h" -> "program" [] OTHER -> "/p/s"]
          [] d = "/p/s/c" -> [x \in {".", "..", "h"} |->
                                CASE x = ".." -> "/p/s" [] x = "h" -> "file"
                                  [] OTHER -> "/p/s/c"]
          [] d = "/h"     -> [x \in {".", "..", "c"} |->
                                CASE x = ".." -> "/" [] x = "c" -> "/h/c" [] OTHER -> "/h"]
          [] OTHER        -> [x \in {".", "..", "p"} |->
                                CASE x = ".." -> "/h" [] x = "p" -> "file"
                                  [] OTHER -> "/h/c"]]

MCOrder ==
    [d \in MCDirs |->
        CASE d = "/"      -> <<".", "..", "h", "p">>
          [] d = "/p"     -> <<".", "..", "s">>
          [] d = "/p/s"   -> <<".", "..", "c", "h">>
          [] d = "/p/s/c" -> <<".", "..", "h">>
          [] d = "/h"     -> <<".", "..", "c">>
          [] OTHER        -> <<".", "..", "p">>]
=============================================================================
