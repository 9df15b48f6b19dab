------------------------ MODULE MCCheckpointStore ------------------------
(***************************************************************************)
(* One checkpoint id, which is all the stores relate; two users and a        *)
(* request without an actor; time enough for an id to expire twice.          *)
(***************************************************************************)
EXTENDS CheckpointStore

CONSTANTS k1, alice, bob, anonymous, s1, s2

MCIds == {k1}
MCOwners == {alice, bob, anonymous}
MCComplete == {alice, bob}
MCStates == {s1, s2}
=============================================================================
