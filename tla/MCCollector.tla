---------------------------- MODULE MCCollector -----------------------------
(* A small instance of Collector: two alerts, polled for twice.            *)
EXTENDS Collector

CONSTANTS a1, a2
=============================================================================
