---------------------------- MODULE FoldersClaims ----------------------------
(* What the documentation says of notebooks and the model refutes.            *)
EXTENDS Folders

(* "Note identity MUST live in the header ID and notebook identity MUST live  *)
(* in .joplin-folder.json; filenames and directory names are cosmetic"        *)
(* (docs/contracts/WORKSPACE.md, WSP-004). So renaming notebooks moves no     *)
(* note: a run moves a note to another notebook only when somebody moved its  *)
(* file. In the code the directory name of a notebook decides when Joplin     *)
(* gives the notebook the title of its sibling: pull cannot rename its        *)
(* directory, for the target exists (sync.py:361-362), but moves the files of *)
(* its notes to where the title says, into the directory of the sibling       *)
(* (sync.py:699-706), and the next push moves the notes into that notebook.   *)
DirectoryNamesAreCosmetic ==
    [][\A n \in N : notes[n] # None /\ notes'[n] # notes[n] /\ Running
          => n \in moved]_vars
=============================================================================
