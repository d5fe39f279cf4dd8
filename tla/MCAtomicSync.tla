---------------------------- MODULE MCAtomicSync ----------------------------
(* Every content over the four hashed components with two values each. *)
EXTENDS AtomicSync

MCComponents == {"title", "body", "tags", "parent"}
MCContent == [MCComponents -> {0, 1}]
=============================================================================
