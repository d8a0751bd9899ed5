\* One gateway and one run of the backend.
SPECIFICATION Spec
CONSTANTS
    g1 = g1
    g2 = g2
    None = None
    Transports <- OneTransport
    Gateways <- OneGateway
    MaxStarts = 1
    Attempts = 2
    MayEnd = FALSE
INVARIANTS NoFault
\* No process need be started again.
CHECK_DEADLOCK FALSE
