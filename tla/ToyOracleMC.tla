---------------------------- MODULE ToyOracleMC -----------------------------
(***************************************************************************)
(* ToyOracle for TLC: five requests, of which four share the prefix <<1>>   *)
(* and two of these the prompt <<1, 2>>; the last arrives when, in some     *)
(* orders, nothing is left to do.                                           *)
(***************************************************************************)
EXTENDS ToyOracle

MCPrompt == <<<<1, 2>>, <<3>>, <<1, 2, 9>>, <<1, 4>>, <<1, 2>>>>
MCOutput == <<<<5>>, <<6, 7>>, <<8>>, <<5, 6>>, <<9, 8>>>>
MCArrival == <<0, 0, 0, 1, 24>>
=============================================================================
