SPECIFICATION Spec
CONSTANTS
    Proc = {p1}
    Cases = {c1}
    States <- HandlerStates
    Payloads <- MCPayloads
    Transition <- HandlerTransition
    Absent = Absent
    Corrupt = Corrupt
    Malformed = Malformed
    Trap = Trap
    Invocations <- OperationRuns
    Trees <- HandlerTrees
    Leftovers <- NoLeftovers
    Parts = 2
    Mixtures <- NoMixtures
    Parallel = FALSE
INVARIANTS
    PanicIsDeserved
CHECK_DEADLOCK FALSE
