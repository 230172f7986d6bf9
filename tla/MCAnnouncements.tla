--------------------------- MODULE MCAnnouncements ---------------------------
(* A small instance of Announcements for TLC.                                   *)
EXTENDS Announcements, TLC

Symmetry == Permutations(Calls) \cup Permutations(Dispatchers)
=============================================================================
