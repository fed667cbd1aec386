----------------------------- MODULE MCEvtxRun -----------------------------
(* Instances of EvtxRun for TLC. *)
EXTENDS EvtxRun
=============================================================================
