---------------------------- MODULE MCAuthentication ----------------------------
(* An instance of Authentication for TLC: every server of the fixture, and any other. *)
EXTENDS Authentication

MCScenarios == Scenario \cup {"any"}
=============================================================================
