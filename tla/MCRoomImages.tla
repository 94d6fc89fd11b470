---------------------------- MODULE MCRoomImages ----------------------------
(***************************************************************************)
(* Small instances of RoomImages for TLC.                                  *)
(***************************************************************************)
EXTENDS RoomImages, TLC

Interchangeable ==
  Permutations(Rooms) \cup Permutations(Images) \cup Permutations(Handlers)
=============================================================================
