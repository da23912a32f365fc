-------------------------- MODULE EvictionOracleMC --------------------------
(***************************************************************************)
(* EvictionOracle for TLC: six requests on a pool of five blocks of two     *)
(* tokens.  Prompts share a beginning, one is sent again when nothing else  *)
(* is left, and three requests at a time outgrow the pool.                  *)
(***************************************************************************)
EXTENDS EvictionOracle

MCArrival == <<0, 0, 1, 2, 20, 90>>
MCInput == <<6, 6, 6, 4, 5, 6>>
MCOutput == <<4, 2, 2, 1, 3, 1>>
MCHashes == <<<<1, 2, 3>>, <<4, 5, 6>>, <<1, 7, 8>>, <<4, 9>>, <<1, 7, 10>>, <<1, 7, 8>>>>
=============================================================================
