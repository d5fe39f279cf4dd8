--------------------------- MODULE ConflictsClaims ---------------------------
(***************************************************************************)
(* What a message of conflicts.py promises and the code does not do; the   *)
(* property is expected to be violated.                                    *)
(***************************************************************************)
EXTENDS Conflicts

(* "rerun sync to create a fresh conflict" (conflicts.py:215 and 240): a   *)
(* run over an open conflict whose sides still diverge leaves evidence of  *)
(* the sides as they are, which a resolution can accept.                   *)
RerunRefreshesEvidence ==
    pc = "idle" /\ run = "none" /\ bundle # None =>
        LET t == After("sync", TRUE) IN
        t.file # t.remote /\ t.base \notin {t.file, t.remote} =>
            BundleAfter(t) = [local |-> t.file, remote |-> t.remote]
=============================================================================
