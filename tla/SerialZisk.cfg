SPECIFICATION Spec
CONSTANTS
    Proc = {p1, p2}
    Cases = {c1, c2}
    States <- MCStates
    Payloads <- MCPayloads
    Transition <- MCTransition
    Absent = Absent
    Corrupt = Corrupt
    Malformed = Malformed
    Trap = Trap
    Invocations <- ZiskRuns
    Trees <- ZiskTrees
    Leftovers <- ZiskLeftovers
    Parts = 2
    Mixtures <- ZiskMixtures
    Parallel = FALSE
INVARIANTS
    GuestRunsThisCase
    IInv
CHECK_DEADLOCK FALSE
