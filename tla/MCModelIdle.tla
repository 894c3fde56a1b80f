---------------------------- MODULE MCModelIdle ----------------------------
(* Values for the checks of ModelIdle.                                     *)
EXTENDS ModelIdle, TLC

AllProcs == {Job, Tool, Watchdog, Task, Settings}
LlmLocal == {{"llm"}}
OneLocal == {{"stt"}, {"llm"}}
Names == Permutations(Engines)
=============================================================================
