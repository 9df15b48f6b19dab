--------------------------- MODULE MCLocalBackend ---------------------------
(***************************************************************************)
(* Safety: one tool call at a time beside the cleanup goroutine, with two   *)
(* files and two sizes, the least with which a Write can pass the quota      *)
(* because its old file was reaped: the other file fills the namespace and   *)
(* the new content is larger than the old.                                   *)
(*                                                                         *)
(* Liveness: two parallel tool calls and the cleanup goroutine contend for   *)
(* the mutex over one file.                                                  *)
(***************************************************************************)
EXTENDS LocalBackend

CONSTANTS p1, p2, cleaner, nobody, f1, f2

OneCall == {p1}
TwoCalls == {p1, p2}
OneFile == {f1}
TwoFiles == {f1, f2}
=============================================================================
