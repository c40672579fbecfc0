------------------------------ MODULE TestVectors ------------------------------
(***************************************************************************)
(* The test vectors of ethereum/consensus-spec-tests and the reference     *)
(* state transition they were generated with.  Nothing here is code of the *)
(* harness: it is the world outside, described from how host/src reads it. *)
(*                                                                         *)
(* One directory per test case holds pre.ssz_snappy, for a block operation *)
(* one file with the operation, and post.ssz_snappy exactly when the       *)
(* operation is valid.  A directory that was only partly extracted may     *)
(* lack a file or hold a damaged one.                                      *)
(***************************************************************************)

CONSTANTS
    Cases,                  \* names of test cases (directories of pyspec_tests)
    States,                 \* beacon states
    Payloads,               \* operations: attestations, deposits, ...
    Transition(_, _, _),    \* Transition(handler, payload, state): ream's STF
    Absent,                 \* no such file, or no such directory
    Corrupt,                \* a file snappy cannot decode
    Malformed,              \* snappy decodes it, SSZ does not
    Trap                    \* the transition function panicked

Damage == {Absent, Corrupt, Malformed}

BlockOperations ==
    {"attestation", "attester_slashing", "block_header",
     "bls_to_execution_change", "deposit", "execution_payload",
     "proposer_slashing", "sync_aggregate", "voluntary_exit", "withdrawals"}

EpochOperations ==
    {"justification_and_finalization", "inactivity_updates",
     "rewards_and_penalties", "registry_updates", "slashings",
     "eth1_data_reset", "pending_deposits", "pending_consolidations",
     "effective_balance_updates", "slashings_reset", "randao_mixes_reset",
     "historical_summaries_update", "participation_flag_updates"}

Operations == BlockOperations \cup EpochOperations

\* What one case directory may hold.
Fixture == [pre  : States \cup Damage,
            op   : Payloads \cup Damage,
            post : States \cup Damage]

\* The file of a block operation's case directory that holds the operation.
FixtureFilename ==
    [attestation             |-> "attestation",
     attester_slashing       |-> "attester_slashing",
     block_header            |-> "block",
     bls_to_execution_change |-> "address_change",
     deposit                 |-> "deposit",
     execution_payload       |-> "body",
     proposer_slashing       |-> "proposer_slashing",
     sync_aggregate          |-> "sync_aggregate",
     voluntary_exit          |-> "voluntary_exit",
     withdrawals             |-> "execution_payload"]

\* The SSZ container that file encodes.
FixtureContainer ==
    [attestation             |-> "Attestation",
     attester_slashing       |-> "AttesterSlashing",
     block_header            |-> "BeaconBlock",
     bls_to_execution_change |-> "SignedBLSToExecutionChange",
     deposit                 |-> "Deposit",
     execution_payload       |-> "BeaconBlockBody",
     proposer_slashing       |-> "ProposerSlashing",
     sync_aggregate          |-> "SyncAggregate",
     voluntary_exit          |-> "SignedVoluntaryExit",
     withdrawals             |-> "ExecutionPayload"]

\* The state transition function a directory's vectors exercise.
FixtureHandler ==
    [attestation                    |-> "process_attestation",
     attester_slashing              |-> "process_attester_slashing",
     block_header                   |-> "process_block_header",
     bls_to_execution_change        |-> "process_bls_to_execution_change",
     deposit                        |-> "process_deposit",
     execution_payload              |-> "process_execution_payload",
     proposer_slashing              |-> "process_proposer_slashing",
     sync_aggregate                 |-> "process_sync_aggregate",
     voluntary_exit                 |-> "process_voluntary_exit",
     withdrawals                    |-> "process_withdrawals",
     justification_and_finalization |-> "process_justification_and_finalization",
     inactivity_updates             |-> "process_inactivity_updates",
     rewards_and_penalties          |-> "process_rewards_and_penalties",
     registry_updates               |-> "process_registry_updates",
     slashings                      |-> "process_slashings",
     eth1_data_reset                |-> "process_eth1_data_reset",
     pending_deposits               |-> "process_pending_deposits",
     pending_consolidations         |-> "process_pending_consolidations",
     effective_balance_updates      |-> "process_effective_balance_updates",
     slashings_reset                |-> "process_slashings_reset",
     randao_mixes_reset             |-> "process_randao_mixes_reset",
     historical_summaries_update    |-> "process_historical_summaries_update",
     participation_flag_updates     |-> "process_participation_flag_updates"]

Handlers == {FixtureHandler[op] : op \in Operations}

\* ream's transition function returns a verdict, which the harness drops, and
\* the state it leaves behind, mutated or not; or it panics.
ASSUME TransitionAssumption ==
    \A h \in Handlers, x \in Payloads \cup {Absent}, s \in States :
        Transition(h, x, s) \in [ok : BOOLEAN, state : States \cup {Trap}]

ASSUME SentinelAssumption ==
    /\ (Damage \cup {Trap}) \cap (States \cup Payloads) = {}
    /\ Absent # Corrupt /\ Corrupt # Malformed /\ Absent # Malformed

\* tree_hash_root: taken to be injective, so a root stands for its state.
Root(s) == [root |-> s]
Roots == [root : States]

(***************************************************************************)
(* What the vectors ask of an implementation, case by case.                *)
(***************************************************************************)

\* The state the vectors expect: post when there is one, else pre unchanged.
ExpectedState(f) == IF f.post = Absent THEN f.pre ELSE f.post

\* The state ream's function for this directory leaves behind, or Trap.
TransitionState(op, f) ==
    Transition(FixtureHandler[op],
               IF op \in BlockOperations THEN f.op ELSE Absent,
               f.pre).state

\* pre and operation can be read and decoded.
Decodable(op, f) ==
    /\ f.pre \in States
    /\ op \in BlockOperations => f.op \in Payloads

\* ream does on this case what the vectors say.
Conforms(op, f) ==
    /\ Decodable(op, f)
    /\ f.post \in States \cup {Absent}
    /\ TransitionState(op, f) = ExpectedState(f)
================================================================================
