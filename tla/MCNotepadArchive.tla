-------------------------- MODULE MCNotepadArchive --------------------------
(* NotepadArchive on a small instance; its Surfaces, notes and closures are *)
(* interchangeable.                                                        *)
EXTENDS NotepadArchive

Interchangeable ==
  Permutations(Surfaces) \cup Permutations(Notes) \cup Permutations(Closures)
=============================================================================
