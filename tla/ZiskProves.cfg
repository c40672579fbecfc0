SPECIFICATION Spec
CONSTANTS
    Proc = {p1}
    Cases = {c1}
    States <- MCStates
    Payloads <- MCPayloads
    Transition <- MCTransition
    Absent = Absent
    Corrupt = Corrupt
    Malformed = Malformed
    Trap = Trap
    Invocations <- ZiskProveRuns
    Trees <- ZiskTrees
    Leftovers <- NoLeftovers
    Parts = 2
    Mixtures <- NoMixtures
    Parallel = FALSE
INVARIANTS
    ProverLoadsWrittenInput
CHECK_DEADLOCK FALSE
