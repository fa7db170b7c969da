------------------------ MODULE MCPipelineSupervisor ------------------------
(***************************************************************************)
(* PipelineSupervisor for TLC: a surface resumed at boot, two operations   *)
(* on it, a queue of one and a lockout after two failures.                 *)
(***************************************************************************)
EXTENDS PipelineSupervisor

CONSTANTS r1, r2

MCRequests == {r1, r2}

\* Every pair of commands but two clears, each in both orders; the followed one may clear.
MCOffered == [r \in MCRequests |-> IF r = r2 THEN Kinds \ {"clear"} ELSE Kinds]
=============================================================================
