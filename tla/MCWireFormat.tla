---------------------------- MODULE MCWireFormat ----------------------------
(***************************************************************************)
(* Instance of WireFormat.  Messages have one to five fragments, and the   *)
(* longest payload exceeds the limit of five.                              *)
(***************************************************************************)
EXTENDS WireFormat
=============================================================================
