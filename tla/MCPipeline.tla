---------------------------- MODULE MCPipeline ----------------------------
(***************************************************************************)
(* A small pipeline for TLC: one cycle family a row of which fills a shard *)
(* in two cycles, and one delegation family whose every invocation fills a *)
(* shard, so that a step can fill two buffers and the exit can leave one   *)
(* partial.                                                                *)
(***************************************************************************)
EXTENDS Pipeline, TLC

MCCycleFamilies == {0, 1}
MCDelegationFamilies == {7}
MCBufferOrder == <<0, 1, 7>>
MCHeight == 0 :> 2 @@ 1 :> 1 @@ 7 :> 1
=============================================================================
