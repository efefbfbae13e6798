------------------------------ MODULE MCMetaLog ------------------------------
(***************************************************************************)
(* Instances of MetaLog for TLC.                                            *)
(***************************************************************************)
EXTENDS MetaLog

OneFile == {"f"}
TwoFiles == {"f", "g"}
None == {}

SyncDelete == {"sync", "delete"}
SyncMigrate == {"sync", "migrate"}
CreateSyncMigrate == {"create", "sync", "migrate"}
OnlySync == {"sync"}
Format == {"sync", "mkfs"}

ResetFinishFaults == {"reset", "finish"}
WriteFault == {"write"}
=============================================================================
