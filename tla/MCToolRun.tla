----------------------------- MODULE MCToolRun -----------------------------
(* Instances of ToolRun for TLC. *)
EXTENDS ToolRun

=============================================================================
