--------------------------- MODULE MCShadowReplay ---------------------------
(* A grant of two cases for the checker and one that is refused before it. *)
EXTENDS ShadowReplay
=============================================================================
