---------------------------- MODULE MCFileTransfer ----------------------------
(* An instance of FileTransfer for TLC: a healthy server and one that fails. *)
EXTENDS FileTransfer

MCFaults == {"None", "PutWriteRemove", "PermissionDenied", "RenameUnsupported", "Unavailable"}
MCNoDrop == {"dropped stage"}
=============================================================================
