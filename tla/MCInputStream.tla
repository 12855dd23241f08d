---------------------------- MODULE MCInputStream ----------------------------
(* Instances of InputStream for TLC.                                           *)
EXTENDS InputStream
===============================================================================
