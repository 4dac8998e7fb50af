----------------------------- MODULE MC_Session -----------------------------
(* Small instance of Session for TLC: three launch tasks, two executions   *)
(* over a two-point document, enough for a restart to race a queued        *)
(* execution and for two blocks to overlap or not.                         *)
EXTENDS Session

MCMaxLaunches == 3
MCMaxExec == 2
MCPoints == {1, 2}
=============================================================================
