--------------------------- MODULE MCAlistBackend ---------------------------
(***************************************************************************)
(* Two goroutines, each of which may write, read, edit, remove or clean up,  *)
(* and two files of different requests, so that writes of one path overlap   *)
(* and the quota, of which one file can take all, is contended.              *)
(***************************************************************************)
EXTENDS AlistBackend, TLC

CONSTANTS p1, p2, f1, f2, n1, n2

MCProcs == {p1, p2}
MCFiles == {f1, f2}
MCScopes == {n1, n2}
MCScopeOf == [f \in MCFiles |-> IF f = f1 THEN n1 ELSE n2]
MCSizes == {1, 2}
Goroutines == Permutations(MCProcs)
=============================================================================
