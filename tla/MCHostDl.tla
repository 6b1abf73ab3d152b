------------------------------ MODULE MCHostDl -------------------------------
(* Three files: one of two packets, one that is not flagged, one of a single *)
(* packet.                                                                  *)
EXTENDS HostDl

MCFlagged == {1, 3}
MCChunks == <<2, 1, 1>>
==============================================================================
