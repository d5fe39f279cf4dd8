------------------------------ MODULE MCNoteSync ------------------------------
(* One or two notes whose title is fixed and whose body and tags vary. *)
EXTENDS NoteSyncClaims

MCComponents == {"title", "body", "tags"}
=============================================================================
