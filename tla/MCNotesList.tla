----------------------------- MODULE MCNotesList -----------------------------
(***************************************************************************)
(* Instances of NotesList for TLC: a search text matches no note or every  *)
(* note.                                                                   *)
(***************************************************************************)
EXTENDS NotesList, TLC

MCSearches == {{}, NoteIds}
=============================================================================
