-------------------------- MODULE MCModuleInstall --------------------------
(* ModuleInstall for TLC.                                                  *)
EXTENDS ModuleInstall

CONSTANTS engine, tool, script

\* The second version of the module keeps the engine; the third has a new one
\* and drops the unpinned binary for a script.
MCList == <<<<engine, tool>>, <<engine, tool>>, <<engine, script>>>>
MCPin == [v \in Versions |-> [d \in Deps |-> IF v = 3 THEN 2 ELSE 1]]
MCReleases == [d \in Deps |-> IF d = script THEN 1 ELSE 2]
=============================================================================
