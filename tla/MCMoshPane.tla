------------------------------ MODULE MCMoshPane ------------------------------
(* An instance of MoshPane for TLC. *)
EXTENDS MoshPane

MCHangsLeftOut == {"disconnect during bootstrap", "disconnect during reset"}
MCResetLeftOut == {"disconnect during reset"}
=============================================================================
