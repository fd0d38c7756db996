---------------------------- MODULE RequestIds ----------------------------
(***************************************************************************)
(* The 16-bit request identifiers of the DOS-MCP protocol: how the bridge  *)
(* (UdpBackend) draws the next one and how an agent decides that one is    *)
(* newer than another.  IdModulus is 2^16 in the code.                     *)
(***************************************************************************)
EXTENDS Integers

CONSTANT IdModulus

ASSUME IdModulusAssumption ==
  IdModulus \in Nat /\ IdModulus >= 4 /\ IdModulus % 2 = 0

RequestId == 0 .. IdModulus - 1

\* Mutant: the id is not bumped past 0.
NextRequestIdThroughZero(id) == (id + 1) % IdModulus

\* self._request_id = (self._request_id + 1) & 0xFFFF or 1
NextRequestId(id) ==
  LET sum == (id + 1) % IdModulus
  IN  IF sum = 0 THEN 1 ELSE sum

\* The agent's half-range comparison: the 16-bit difference candidate - previous
\* is neither zero nor in the upper half of the range.
RequestIsNewer(candidate, previous) ==
  LET distance == (candidate - previous) % IdModulus
  IN  distance # 0 /\ distance < IdModulus \div 2
============================================================================
