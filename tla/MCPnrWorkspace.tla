--------------------------- MODULE MCPnrWorkspace ---------------------------
(* Small values for the constants of PnrWorkspace.                         *)
EXTENDS PnrWorkspace

CONSTANTS w1

\* The documented deployment: one process serves every request.
OneHome == [r \in Requests |-> w1]
=============================================================================
