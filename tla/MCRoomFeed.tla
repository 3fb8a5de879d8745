----------------------------- MODULE MCRoomFeed -----------------------------
(* RoomFeed for TLC: a host, a patient guest and an unruly one. *)
EXTENDS RoomFeed

CONSTANTS h, b, c
=============================================================================
