--------------------------- MODULE MCNotesScreen ---------------------------
(* Small instances of NotesScreen for TLC. *)
EXTENDS NotesScreen

CONSTANTS r1, r2, r3, a, b

Alike == Permutations(Requests) \cup Permutations(Comments)
=============================================================================
