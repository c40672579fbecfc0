---------------------------- MODULE MCBeaconHarness ----------------------------
(***************************************************************************)
(* Small instances of BeaconHarness.  States are s0 and s1, and an         *)
(* operation's payload says what ream does with it.                        *)
(***************************************************************************)
EXTENDS BeaconHarness

MCStates == {"s0", "s1"}

Other(s) == IF s = "s0" THEN "s1" ELSE "s0"

MCPayloads ==
    {"applies", "rejected", "mutates_and_rejected", "ignored", "traps"}

\* Epoch processing has no payload: here it always changes the state.
MCTransition(h, x, s) ==
    CASE x = "rejected"             -> [ok |-> FALSE, state |-> s]
      [] x = "mutates_and_rejected" -> [ok |-> FALSE, state |-> Other(s)]
      [] x = "ignored"              -> [ok |-> TRUE,  state |-> s]
      [] x = "traps"                -> [ok |-> FALSE, state |-> Trap]
      [] OTHER                      -> [ok |-> TRUE,  state |-> Other(s)]

Dir3(x, y, z) == [pre |-> x, op |-> y, post |-> z]

\* A valid operation applied, and one ream gets wrong; an invalid one rejected,
\* one rejected after mutating, one accepted without effect; a trap; and
\* damaged directories.
SoundFixtures ==
    {Dir3("s0", "applies", "s1"), Dir3("s0", "rejected", Absent)}

FaultyFixtures ==
    {Dir3("s0", "applies", "s0"), Dir3("s0", "mutates_and_rejected", Absent),
     Dir3("s0", "ignored", "s1"), Dir3("s0", "traps", Absent)}

DamagedFixtures ==
    {Dir3("s0", "applies", Absent), Dir3("s0", "applies", Corrupt),
     Dir3("s0", "applies", Malformed), Dir3("s0", "rejected", Malformed),
     Dir3(Absent, "applies", "s1"), Dir3(Corrupt, "applies", "s1"),
     Dir3(Malformed, "applies", "s1"), Dir3("s0", Absent, "s1"),
     Dir3("s0", Malformed, Absent)}

AllFixtures == SoundFixtures \cup FaultyFixtures \cup DamagedFixtures

TreesOf(ops, dirs) ==
    {[op \in ops |-> d] : d \in [Cases -> dirs \cup {Absent}]}

NoLeftovers == {Absent}

Run(zkvm, mode, op, excluded, recompute) ==
    [zkvm |-> zkvm, mode |-> mode, operation |-> op,
     excluded_cases |-> excluded, compare_recompute |-> recompute]

-----------------------------------------------------------------------------
(* One process, every backend and mode, every kind of directory *)

BackendRuns ==
    {Run(z, m, op, {}, r) : z \in ZkVm, m \in {"execute", "prove"},
                            op \in {"attestation", "slashings"}, r \in BOOLEAN}
    \cup {Run("risc-zero", "execute", "attestation", x, TRUE) :
              x \in SUBSET Cases}

BackendTrees == TreesOf({"attestation", "slashings"}, AllFixtures)

-----------------------------------------------------------------------------
(* One process, all 23 operations: the dispatch tables *)

OperationRuns ==
    {Run("sp1", "execute", op, {}, TRUE) : op \in Operations}

\* Every handler does something else, so that calling the wrong one shows.
HandlerStates == {"start"} \cup Handlers

HandlerTransition(h, x, s) ==
    [ok    |-> x # "rejected",
     state |-> CASE x = "traps" -> Trap [] x = "rejected" -> s [] OTHER -> h]

HandlerTrees ==
    {[op \in Operations |->
        [c \in Cases |->
            Dir3("start", x,
                 IF x = "applies" THEN FixtureHandler[op] ELSE Absent)]] :
        x \in {"applies", "rejected", "traps"}}

-----------------------------------------------------------------------------
(* Two processes *)

ZiskRuns ==
    {Run("zisk", "execute", "attestation", {}, r) : r \in BOOLEAN}

\* The input of a case that is in no directory, like the one checked in.
Elsewhere ==
    [pre   |-> "s1",
     input |-> prepare_input("attestation", Dir3("s1", "applies", Absent))]

\* No file, one a killed process left half written, and a whole one.
ZiskLeftovers ==
    {Absent,
     [i \in 1 .. Parts |-> IF i = 1 THEN Elsewhere ELSE Corrupt],
     [i \in 1 .. Parts |-> Elsewhere]}

\* Pieces of two inputs decode to a pre-state of either, or of neither, and an
\* operation of either.
ZiskMixtures ==
    {[pre   |-> s,
      input |-> prepare_input("attestation", Dir3(s, x, Absent))] :
        s \in States, x \in {"applies", "rejected"}}

NoMixtures == {}

ZiskTrees == TreesOf({"attestation"}, SoundFixtures \cup FaultyFixtures)

OverlapTrees ==
    TreesOf({"attestation"}, SoundFixtures \cup {Dir3("s0", "applies", "s0")})

JoltRuns == {Run("jolt", "execute", "attestation", {}, FALSE)}

\* No case that makes a guest panic: what a tracer makes of that is its own.
JoltTrees ==
    TreesOf({"attestation"},
            {Dir3("s0", "applies", "s1"), Dir3("s0", "ignored", "s1")})

ZiskProveRuns == {Run("zisk", "prove", "attestation", {}, FALSE)}
================================================================================
