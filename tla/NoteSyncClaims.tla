---------------------------- MODULE NoteSyncClaims ----------------------------
(***************************************************************************)
(* What the contracts in docs/contracts/SYNCHRONIZATION.md say of the      *)
(* executor and the code does not guarantee.  Each property here is        *)
(* expected to be violated; NoteSync states what does hold.                *)
(***************************************************************************)
EXTENDS NoteSync

(* "Drift MUST abort that operation with exit 5 without overwriting either *)
(* concurrent edit" (SYN-006): a field of the remote note that a push      *)
(* replaces still has the value the plan was made from.                    *)
NoRemoteEditOverwritten ==
    [][edits' = edits => \A n \in Notes, k \in Components :
        remote'[n].c[k] # remote[n].c[k] => remote[n].c[k] = plan[n].remote[k]]_vars

(* The same sentence for the file: when a push moves the file to its       *)
(* canonical name, the file it replaces holds the content that was pushed, *)
(* so that no local edit made meanwhile is lost.                           *)
NoLocalEditLostByPush ==
    [][pc = "rename" /\ file' # file => file[cur] = text]_vars

(* "An intended result counts as applied" (SYN-007): when the note read    *)
(* back after an unanswered PUT is the planned one with the fields of the  *)
(* PUT, and nothing else, changed, the operation is not judged a           *)
(* concurrent modification.                                                *)
AppliedPutIsRecognized ==
    pc = "mark" /\ phase = "probe" /\ result = "concurrent" /\ got # None =>
        got.c # Overlay(o.remote, text, o.fields \ {"tags"})
=============================================================================
