----------------------------- MODULE MCConflicts -----------------------------
EXTENDS ConflictsClaims

MCComponents == {"text", "tags"}
=============================================================================
