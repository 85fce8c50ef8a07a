----------------------------- MODULE MCMcpSync -----------------------------
(* Instances of McpSync for TLC. *)
EXTENDS McpSync

CONSTANT f1

MCLimits ==
  {[operations |-> {"connect", "test", "disconnect"}, faults |-> {}, callers |-> {f1}, generations |-> 2, commands |-> 2],
   [operations |-> {"connect", "test"}, faults |-> {"loss", "abandon", "recheck"}, callers |-> {f1}, generations |-> 2, commands |-> 1]}
=============================================================================
