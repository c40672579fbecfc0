------------------------------ MODULE MCPipeline ------------------------------
(***************************************************************************)
(* Small instances of Pipeline.                                            *)
(***************************************************************************)
EXTENDS Pipeline

MCCase == [block_deposit |-> {"c1", "c2"}, epoch_slashings |-> {"c1"}]

MCBackend == {<<"sp1", "execute">>, <<"sp1", "prove">>, <<"nova", "execute">>}
================================================================================
