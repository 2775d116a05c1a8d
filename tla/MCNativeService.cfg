CONSTANTS
    Requests = {r1, r2}
    Workers = {w1}
    None = None
    MaxRequests = 1

SPECIFICATION Spec

INVARIANTS
    GateSound
    StopSound

PROPERTIES
    OperationsEnd
    StopCompletes
