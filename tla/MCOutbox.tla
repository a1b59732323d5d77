----------------------------- MODULE MCOutbox -----------------------------
(* Small instances of Outbox for TLC; the constants are in the cfg files.  *)
EXTENDS Outbox
=============================================================================
