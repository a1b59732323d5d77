----------------------------- MODULE MCMailSync -----------------------------
(* Small instances of MailSync for TLC; the constants are in the cfg files. *)
EXTENDS MailSync
=============================================================================
