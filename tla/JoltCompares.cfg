SPECIFICATION Spec
CONSTANTS
    Proc = {p1}
    Cases = {c1}
    States <- MCStates
    Payloads <- MCPayloads
    Transition <- MCTransition
    Absent = Absent
    Corrupt = Corrupt
    Malformed = Malformed
    Trap = Trap
    Invocations <- JoltRuns
    Trees <- JoltTrees
    Leftovers <- NoLeftovers
    Parts = 2
    Mixtures <- NoMixtures
    Parallel = FALSE
INVARIANTS
    EveryReportWasCompared
CHECK_DEADLOCK FALSE
