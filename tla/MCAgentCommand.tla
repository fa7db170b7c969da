--------------------------- MODULE MCAgentCommand ---------------------------
(***************************************************************************)
(* AgentCommand for TLC: a command, a second one with the same key, and    *)
(* two that the node refuses, one before and one after the claim.          *)
(***************************************************************************)
EXTENDS AgentCommand

MCCommands == {"fetch", "again", "foreign", "unknown"}
MCKeyOf == [c \in MCCommands |-> IF c = "again" THEN "fetch" ELSE c]
MCAcceptable == MCCommands \ {"foreign"}
MCKnown == MCCommands \ {"unknown"}
=============================================================================
