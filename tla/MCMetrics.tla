----------------------------- MODULE MCMetrics -----------------------------
(* The nodes and requests of MCRouter, with the metrics. *)
EXTENDS Metrics, MCRouter
=============================================================================
