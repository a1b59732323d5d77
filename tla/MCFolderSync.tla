---------------------------- MODULE MCFolderSync ----------------------------
EXTENDS FolderSync, TLC
=============================================================================
