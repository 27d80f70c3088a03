-------------------------- MODULE MCSyncAccountLock --------------------------
(* Small instances of SyncAccountLock for TLC.                             *)
EXTENDS SyncAccountLock
CONSTANTS a, b, u, v
=============================================================================
