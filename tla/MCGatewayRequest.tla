-------------------------- MODULE MCGatewayRequest --------------------------
(* Instances of GatewayRequest for TLC. *)
EXTENDS GatewayRequest

\* A long prompt that the context compiler turns into the short one.
MCPromptOf   == [long |-> "verbose", short |-> "terse"]
MCPreparedAs == [verbose |-> "terse", terse |-> "terse"]

\* A capped primary with a retry and a cooldown; its fallback for timeouts is
\* also its mirror.  A request may also ask for the spare route after the
\* primary.
Step(r, on) == [route |-> r, on |-> on]
MCQueues == {<<Step("primary", {}), Step("backup", {"timeout"})>>,
             <<Step("primary", {}), Step("spare", {})>>}
MCRetries  == [primary |-> 1, backup |-> 0, spare |-> 0]
MCLimit    == [primary |-> 1, backup |-> Null, spare |-> Null]
MCMirrorOf == [primary |-> "backup", backup |-> Null, spare |-> Null]
MCRoutes   == {"primary", "backup", "spare"}
=============================================================================
