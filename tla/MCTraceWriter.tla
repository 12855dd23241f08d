---------------------------- MODULE MCTraceWriter ----------------------------
(* Instances of TraceWriter for TLC.                                           *)
EXTENDS TraceWriter
===============================================================================
