----------------------------- MODULE MCInstaller -----------------------------
(* Instance of Installer for TLC; the values are those of the configuration.  *)
EXTENDS Installer
CONSTANTS v1, v2, p1, p2
=============================================================================
