----------------------------- MODULE MCKnownHosts -----------------------------
(* An instance of KnownHosts for TLC: two hosts, each with its key. *)
EXTENDS KnownHosts, TLC

CONSTANTS a1, b1, hostA, hostB

MCHostOf == [l \in Line |-> IF l = b1 THEN hostB ELSE hostA]
=============================================================================
