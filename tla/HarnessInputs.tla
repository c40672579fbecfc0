----------------------------- MODULE HarnessInputs -----------------------------
(***************************************************************************)
(* What one harness process is started with, and how an operation named on *)
(* the command line becomes a call of a state transition function:         *)
(*                                                                         *)
(*   CLI name --operation.rs--> file to read, operation_type               *)
(*            --input.rs------> SSZ container, process_* method            *)
(*                                                                         *)
(* The chain crosses four tables kept in two crates.  They are written out *)
(* here from the code; TestVectors has the ones the vectors fix.           *)
(***************************************************************************)
EXTENDS TestVectors

ZkVm == {"sp1", "risc-zero", "zisk", "pico", "jolt"}

\* Args, without --fork and --proof-type, which select a directory and a kind
\* of proof and change no step, and without --compare-specs: it is a flag
\* whose default is true, so no command line switches it off.
Args == [zkvm              : ZkVm,
         mode              : {"execute", "prove"},
         operation         : Operations,
         excluded_cases    : SUBSET Cases,
         compare_recompute : BOOLEAN]

-----------------------------------------------------------------------------
(* cli/operation.rs *)

get_input_filename ==
    [attestation             |-> "attestation",
     attester_slashing       |-> "attester_slashing",
     block_header            |-> "block",
     bls_to_execution_change |-> "address_change",
     deposit                 |-> "deposit",
     execution_payload       |-> "body",
     proposer_slashing       |-> "proposer_slashing",
     sync_aggregate          |-> "sync_aggregate",
     voluntary_exit          |-> "voluntary_exit",
     withdrawals             |-> "execution_payload"]

BlockOperationType ==
    [attestation             |-> "Attestation",
     attester_slashing       |-> "AttesterSlashing",
     block_header            |-> "BlockHeader",
     bls_to_execution_change |-> "BLSToExecutionChange",
     deposit                 |-> "Deposit",
     execution_payload       |-> "ExecutionPayload",
     proposer_slashing       |-> "ProposerSlashing",
     sync_aggregate          |-> "SyncAggregate",
     voluntary_exit          |-> "VoluntaryExit",
     withdrawals             |-> "Withdrawals"]

EpochOperationType ==
    [justification_and_finalization |-> "JustificationAndFinalization",
     inactivity_updates             |-> "InactivityUpdates",
     rewards_and_penalties          |-> "RewardsAndPenalties",
     registry_updates               |-> "RegistryUpdates",
     slashings                      |-> "Slashings",
     eth1_data_reset                |-> "Eth1DataReset",
     pending_deposits               |-> "PendingDeposits",
     pending_consolidations         |-> "PendingConsolidations",
     effective_balance_updates      |-> "EffectiveBalanceUpdates",
     slashings_reset                |-> "SlashingsReset",
     randao_mixes_reset             |-> "RandaoMixesReset",
     historical_summaries_update    |-> "HistoricalSummariesUpdate",
     participation_flag_updates     |-> "ParticipationFlagUpdates"]

\* ssz_from_file panics unless the file exists and snappy decodes it.
ssz_from_file(file) == file \notin {Absent, Corrupt}

\* The operation's file, as prepare_input finds it: absent when the directory
\* keeps the operation under another name.
OperationFile(op, f) ==
    IF get_input_filename[op] = FixtureFilename[op] THEN f.op ELSE Absent

prepare_input(op, f) ==
    IF op \in BlockOperations
    THEN [kind           |-> "Block",
          operation_type |-> BlockOperationType[op],
          ssz_bytes      |-> [container |-> FixtureContainer[op],
                              data      |-> OperationFile(op, f)]]
    ELSE [kind           |-> "Epoch",
          operation_type |-> EpochOperationType[op]]

-----------------------------------------------------------------------------
(* lib/src/input.rs *)

\* The SSZ container each arm of process_operation decodes.
BlockContainer ==
    [Attestation          |-> "Attestation",
     AttesterSlashing     |-> "AttesterSlashing",
     BlockHeader          |-> "BeaconBlock",
     BLSToExecutionChange |-> "SignedBLSToExecutionChange",
     Deposit              |-> "Deposit",
     ProposerSlashing     |-> "ProposerSlashing",
     SyncAggregate        |-> "SyncAggregate",
     VoluntaryExit        |-> "SignedVoluntaryExit",
     Withdrawals          |-> "ExecutionPayload"]

\* The method each arm of the block process_operation calls.
BlockHandler ==
    [Attestation          |-> "process_attestation",
     AttesterSlashing     |-> "process_attester_slashing",
     BlockHeader          |-> "process_block_header",
     BLSToExecutionChange |-> "process_bls_to_execution_change",
     Deposit              |-> "process_deposit",
     ProposerSlashing     |-> "process_proposer_slashing",
     SyncAggregate        |-> "process_sync_aggregate",
     VoluntaryExit        |-> "process_voluntary_exit",
     Withdrawals          |-> "process_withdrawals"]

\* The method each arm of the epoch process_operation calls.
EpochHandler ==
    [JustificationAndFinalization |-> "process_justification_and_finalization",
     InactivityUpdates            |-> "process_inactivity_updates",
     RewardsAndPenalties          |-> "process_rewards_and_penalties",
     RegistryUpdates              |-> "process_registry_updates",
     Slashings                    |-> "process_slashings",
     Eth1DataReset                |-> "process_eth1_data_reset",
     PendingDeposits              |-> "process_pending_deposits",
     PendingConsolidations        |-> "process_pending_consolidations",
     EffectiveBalanceUpdates      |-> "process_effective_balance_updates",
     SlashingsReset               |-> "process_slashings_reset",
     RandaoMixesReset             |-> "process_randao_mixes_reset",
     HistoricalSummariesUpdate    |-> "process_historical_summaries_update",
     ParticipationFlagUpdates     |-> "process_participation_flag_updates"]

\* Mutant of Process: the arms of two like-named epoch operations are confused.
ProcessConfused(input, state) ==
    IF input.kind = "Block"
    THEN Transition(BlockHandler[input.operation_type],
                    input.ssz_bytes.data, state).state
    ELSE Transition(EpochHandler[IF input.operation_type = "SlashingsReset"
                                 THEN "Slashings" ELSE input.operation_type],
                    Absent, state).state

\* What the transition leaves behind: a state, or Trap.  Every Result is bound
\* to _ , so an operation the transition rejects still yields a state.
Process(input, state) ==
    IF input.kind = "Block"
    THEN Transition(BlockHandler[input.operation_type],
                    input.ssz_bytes.data, state).state
    ELSE Transition(EpochHandler[input.operation_type], Absent, state).state

\* OperationInput::process panics on ExecutionPayload, on bytes that are not the
\* container the arm expects, and when the transition function does.
ProcessReturns(input, state) ==
    /\ input.kind = "Block" =>
           /\ input.operation_type # "ExecutionPayload"
           /\ input.ssz_bytes.container = BlockContainer[input.operation_type]
           /\ input.ssz_bytes.data # Malformed
    /\ Process(input, state) # Trap

-----------------------------------------------------------------------------
(* The reports a process may make *)

\* A case this invocation may report.  execution_payload is not implemented;
\* run_jolt_test looks neither at the root nor at how the guest ended.
Reportable(a, f) ==
    a.zkvm # "jolt" =>
        /\ a.operation # "execution_payload"
        /\ Conforms(a.operation, f)

\* A case over which this invocation has no reason to panic.
Faultless(a, f) ==
    /\ a.operation # "execution_payload"
    /\ Decodable(a.operation, f)
    /\ TransitionState(a.operation, f) # Trap
    /\ a.zkvm # "jolt" => Conforms(a.operation, f)
================================================================================
