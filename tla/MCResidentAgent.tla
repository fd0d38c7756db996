-------------------------- MODULE MCResidentAgent --------------------------
(***************************************************************************)
(* Small instances of ResidentAgent.  A session expires after two ticks of *)
(* a counter that wraps after three (546 and 2^16 in the code).            *)
(***************************************************************************)
EXTENDS ResidentAgent

MCAll == Opcode
MCUpload == {"hello", "writeBegin"}
============================================================================
