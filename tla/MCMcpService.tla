---------------------------- MODULE MCMcpService -----------------------------
(* Two calls behind the MCP server, one of them a run; or, called          *)
(* directly, that run and a paced batch of three items.                    *)
EXTENDS McpService

CONSTANTS i1, i2, r1

MCRun    == {i1, r1}
MCBatch  == {r1}
MCSize   == [r \in MCRun |-> IF r = r1 THEN 3 ELSE 1]
=============================================================================
