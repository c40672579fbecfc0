SPECIFICATION FairSpec
CONSTANTS
    Proc = {p1}
    Cases = {c1, c2}
    States <- MCStates
    Payloads <- MCPayloads
    Transition <- MCTransition
    Absent = Absent
    Corrupt = Corrupt
    Malformed = Malformed
    Trap = Trap
    Invocations <- BackendRuns
    Trees <- BackendTrees
    Leftovers <- NoLeftovers
    Parts = 2
    Mixtures <- NoMixtures
    Parallel = FALSE
INVARIANTS
    TypeOK
    ReportedConforms
    PanicIsDeserved
    CleanExitCoversAll
PROPERTIES
    ReportedOnlyVerified
    ImplementsContract
    Termination
CHECK_DEADLOCK FALSE
