------------------------------ MODULE MCFolders ------------------------------
(* Instance of Folders and its claims for TLC.                                *)
EXTENDS FoldersClaims
=============================================================================
