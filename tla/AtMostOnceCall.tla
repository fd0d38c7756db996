-------------------------- MODULE AtMostOnceCall --------------------------
(***************************************************************************)
(* What the session protocol promises its callers, without any message:    *)
(* calls are issued one after another under increasing numbers; the target *)
(* runs each call at most once and never runs a call after a later one; a  *)
(* call that returned "ok" has run; a call that failed may have run or may *)
(* still run, because the caller cannot tell a lost request from a lost    *)
(* response.                                                               *)
(***************************************************************************)
EXTENDS Integers, Sequences

VARIABLES
  issued,  \* number of the latest call, 0 before the first
  status,  \* of the latest call: "none", "pending", "ok" or "failed"
  ran      \* the calls run by the target, in the order they ran

absVars == <<issued, status, ran>>

Init ==
  /\ issued = 0
  /\ status = "none"
  /\ ran = << >>

Issue(c) ==
  /\ status # "pending"
  /\ c > issued
  /\ issued' = c
  /\ status' = "pending"
  /\ UNCHANGED ran

Run(c) ==
  /\ c <= issued
  /\ \A i \in DOMAIN ran : ran[i] < c
  /\ ran' = Append(ran, c)
  /\ UNCHANGED <<issued, status>>

Return ==
  /\ status = "pending"
  /\ \E i \in DOMAIN ran : ran[i] = issued
  /\ status' = "ok"
  /\ UNCHANGED <<issued, ran>>

Fail ==
  /\ status = "pending"
  /\ status' = "failed"
  /\ UNCHANGED <<issued, ran>>

Next ==
  \/ issued' \in Nat /\ Issue(issued')
  \/ \E c \in 1 .. issued : Run(c)
  \/ Return
  \/ Fail

Spec == Init /\ [][Next]_absVars
============================================================================
