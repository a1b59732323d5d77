---------------------------- MODULE MCFlagQueue ----------------------------
(* FlagQueue on a small mailbox: two folders with a message each. *)
EXTENDS FlagQueue

MCFolderOf == "a" :> "INBOX" @@ "b" :> "Archive"
=============================================================================
