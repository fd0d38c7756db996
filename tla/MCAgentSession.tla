-------------------------- MODULE MCAgentSession --------------------------
(***************************************************************************)
(* Small instances of AgentSession.  The id range is 16 instead of 2^16,   *)
(* and the bridges start next to its end, so that ids wrap and skip 0.     *)
(***************************************************************************)
EXTENDS AgentSession

MCIdModulus == 16
MCStartIds == {14}
MCTwoStarts == {14, 5}
MCMutating == {"keys"}
MCKeysText == {"keys", "text"}
MCAllOps == {"keys", "text", "file"}
============================================================================
