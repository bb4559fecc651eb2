--------------------------- MODULE DurableRegister ---------------------------
(***************************************************************************)
(* What the durable store promises its callers: one register per path,     *)
(* changed at one instant during a call.  A call that returns has taken    *)
(* effect, a write that throws has not, and a crash leaves the register as *)
(* the old or the new value.  DurableAssetStore implements it.             *)
(***************************************************************************)
CONSTANTS
    Path,           \* the keys of durable state (ssh/config, settings/..., ...)
    Value,          \* the texts stored
    LegacyPath,     \* ssh/known-hosts, retired by the migration
    None            \* no value

VARIABLES
    value,          \* [Path -> Value or None], what a read returns
    call,           \* the synchronous call in progress, or NoCall
    outcome         \* how the last synchronous call ended

rvars == <<value, call, outcome>>

NoCall == [op |-> "none"]

Begin(op, p, v) ==
    /\ call = NoCall
    /\ call' = [op |-> op, path |-> p, val |-> v, applied |-> FALSE]
    /\ outcome' = "none"
    /\ UNCHANGED value

Apply ==
    /\ call # NoCall
    /\ ~call.applied
    /\ value' = [value EXCEPT ![call.path] = call.val]
    /\ call' = [call EXCEPT !.applied = TRUE]
    /\ UNCHANGED outcome

Succeed ==
    /\ call # NoCall
    /\ call.applied
    /\ call' = NoCall
    /\ outcome' = "ok"
    /\ UNCHANGED value

\* A write that fails has changed nothing.  A removal that fails may already
\* have retired the pointer: its caller has to put the value back.
Fail ==
    /\ call # NoCall
    /\ call.op = "write" => ~call.applied
    /\ call' = NoCall
    /\ outcome' = "error"
    /\ UNCHANGED value

Crash ==
    /\ call' = NoCall
    /\ outcome' = "none"
    /\ UNCHANGED value

RetireLegacy ==
    /\ value[LegacyPath] # None
    /\ value' = [value EXCEPT ![LegacyPath] = None]
    /\ UNCHANGED <<call, outcome>>

RInit ==
    /\ value \in [Path -> Value \cup {None}]
    /\ call = NoCall
    /\ outcome = "none"

RNext ==
    \/ \E p \in Path, v \in Value : Begin("write", p, v)
    \/ \E p \in Path : Begin("remove", p, None)
    \/ Apply
    \/ Succeed
    \/ Fail
    \/ Crash
    \/ RetireLegacy

RSpec == RInit /\ [][RNext]_rvars
=============================================================================
