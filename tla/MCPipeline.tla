----------------------------- MODULE MCPipeline -----------------------------
(***************************************************************************)
(* Pipeline on small instances: restore's three stages, or backup's.        *)
(***************************************************************************)
EXTENDS Pipeline
=============================================================================
