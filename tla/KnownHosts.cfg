\* Two panes, two hosts with a key each; no symmetry, for the liveness.
CONSTANTS
    a1 = a1
    b1 = b1
    hostA = hostA
    hostB = hostB
    None = None
    Line = {a1, b1}
    Host = {hostA, hostB}
    HostOf <- MCHostOf
    Client = {c1, c2}
SPECIFICATION FairSpec
INVARIANTS
    TypeOK
    AcknowledgedTrustKept
    ForgottenStaysForgotten
PROPERTIES
    EveryOperationSettles
