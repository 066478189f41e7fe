---------------------------- MODULE MCPipeReader ----------------------------
(* Small instances of PipeReader for TLC. *)
EXTENDS PipeReader

ThreePipes == {"text", "html", "image"}
=============================================================================
