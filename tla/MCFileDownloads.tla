--------------------------- MODULE MCFileDownloads ---------------------------
(* Instances of FileDownloads: which call wants which download, and which  *)
(* downloads have the same directory and filename.                         *)
EXTENDS FileDownloads

FourCalls == 1..4
TwoForOne == <<"x", "x", "y", "z">>

TwoShareName == [d \in {"x", "y", "z"} |-> IF d = "z" THEN "m" ELSE "n"]
=============================================================================
