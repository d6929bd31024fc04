-------------------------- MODULE MCControlStore --------------------------
(* ControlStore for TLC: an agent and a store command on one file.         *)
EXTENDS ControlStore, TLC

CONSTANTS t1, agent, cli, o1, o2, p1

\* The agent knows its identity; the command may pass none, or a wrong one.
MCRequested == (Agent :> {o1}) @@ (cli :> {o2, NoOrigin})

OneProbe == [t \in Triggers |-> p1]
=============================================================================
