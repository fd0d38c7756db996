-------------------------- MODULE MCSimulatorAgent --------------------------
(***************************************************************************)
(* Instance of SimulatorAgent.  The ids wrap in the middle of a session; a *)
(* key request has two fragments.                                          *)
(***************************************************************************)
EXTENDS SimulatorAgent

CONSTANTS a

MCContents == {<<a>>}
MCTransferIds == {1}
=============================================================================
