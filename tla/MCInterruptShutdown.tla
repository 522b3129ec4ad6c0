------------------------- MODULE MCInterruptShutdown ------------------------
(* An agent with a child of its own, and a server that may outlive SIGKILL, whose tree
   may be unreadable, which may refuse the signal and whose liveness check may fail. *)
EXTENDS InterruptShutdown

CONSTANTS agent, tool, server, ralph

MCProcs == {agent, tool, server}
MCParent == [p \in MCProcs |-> IF p = tool THEN agent ELSE ralph]
=============================================================================
