----------------------------- MODULE FileSizes ------------------------------
(***************************************************************************)
(* What a set of files takes up: both file backends compare it with a quota.  *)
(***************************************************************************)
EXTENDS Naturals, FiniteSets, FiniteSetsExt

\* The bytes of the files at the paths S.
SumOver(files, S) == MapThenSumSet(LAMBDA f : files[f].size, S)

\* The bytes of all files.
SumOf(files) == SumOver(files, DOMAIN files)
=============================================================================
