------------------------------ MODULE MCStorage ------------------------------
(***************************************************************************)
(* What other parts are built on, for TLC: transactions of the shared      *)
(* database, the audit chain and MCP sessions.  They share no state:       *)
(* `focus` says which of them moves in a behaviour.                        *)
(***************************************************************************)
EXTENDS Database, Mcp, Audit

VARIABLE focus

-----------------------------------------------------------------------------
MCInit ==
    /\ focus \in {"database", "audit", "mcp"}
    /\ Init
    /\ AuditInit
    /\ McpInit

MCNext ==
    \/ focus = "database" /\ Next /\ UNCHANGED <<focus, auditVars, mcpVars>>
    \/ focus = "audit" /\ AuditNext /\ UNCHANGED <<focus, vars, mcpVars>>
    \/ focus = "mcp" /\ McpNext /\ UNCHANGED <<focus, vars, auditVars>>

MCSpec ==
    /\ MCInit
    /\ [][MCNext]_<<focus, vars, auditVars, mcpVars>>
    /\ McpFairness

=============================================================================
