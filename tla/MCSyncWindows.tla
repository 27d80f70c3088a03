---------------------------- MODULE MCSyncWindows ----------------------------
(* Small instances of SyncWindows for TLC.                                 *)
EXTENDS SyncWindows
=============================================================================
