---------------------------- MODULE MCMcpGateway ----------------------------
(* Small instances of McpGateway for TLC. *)
EXTENDS McpGateway

CONSTANTS lab, fix, v1, v2

\* Every target declares v1.
MCDeclared == [t \in Targets |-> [d \in Dims |-> v1]]

MCCalls == [t \in Targets |-> 2]

MCRows == [t \in Targets |-> 3]
=============================================================================
