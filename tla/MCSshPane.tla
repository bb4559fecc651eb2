------------------------------- MODULE MCSshPane -------------------------------
(* An instance of SshPane for TLC. *)
EXTENDS SshPane
=============================================================================
